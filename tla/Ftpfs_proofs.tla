----------------------------- MODULE Ftpfs_proofs -----------------------------
(***************************************************************************)
(* What Ftpfs promises for every length of the file, every buffer of the   *)
(* network and any number of jobs and faults: the variables stay in their  *)
(* types, and the Commander and the server are in step whenever nothing is *)
(* called or a command is about to be sent.                                *)
(*                                                                         *)
(* The invariant, FtpInv, says of the stack of calls which call may wait   *)
(* for which (Shape) and what each says of the files of the copy (Fits);   *)
(* and of the call on top, what the server has still to do and to say      *)
(* (Expected), what is known of its session (TypeKnown, DirKnown,          *)
(* ReadyKnown) and of the data connections (FlowKnown).  A step of the     *)
(* Commander is shown to change both alike; a step of the server, that     *)
(* what was expected of it still is (Follows).                             *)
(***************************************************************************)
EXTENDS Ftpfs, SequenceTheorems, TLAPS

\* A stack of calls: empty, or a call on a stack.
IsStack(t) == Len(t) \in Nat /\ t = [i \in 1..Len(t) |-> t[i]]
On(c, t)   == <<c>> \o t
Rest(t)    == IF t = <<>> THEN <<>> ELSE Tail(t)
First(t)   == IF t = <<>> THEN Do("nothing") ELSE Head(t)
Bottom(t)  == IF t = <<>> THEN Do("nothing") ELSE t[Len(t)]

\* What is on its way on the control connection.
Single(x)  == <<x>>
Pair(x, y) == <<x, y>>

-----------------------------------------------------------------------------
(* What the server has still to do and to say. *)

\* A command, and a reply.
Command(name, arg)   == [name |-> name, arg |-> arg]
ReplyTo(name, class) == [to |-> name, class |-> class]
\* What a transfer may end with.
Finals == {"COMPLETE", "FAILED", "ABORTED"}

\* Nothing.
Quiet(s) == s.cmds = <<>> /\ s.replies = <<>> /\ s.xfer = None

\* A transfer, and the reply that ends it.
Running(s, cmd) ==
  \/ s.xfer # None /\ s.task = cmd /\ s.replies = <<>>
  \/ s.xfer = None /\ \E k \in Finals : s.replies = Single(ReplyTo(cmd, k))

\* Nothing, or that.
Owes(s, cmd) == s.cmds = <<>> /\ (Quiet(s) \/ Running(s, cmd))

\* The server has no command, and no transfer.
Silent(s) == s.cmds = <<>> /\ s.xfer = None

\* A command that it has not carried out.
Waits(s, name, arg) ==
  s.cmds = Single(Command(name, arg)) /\ s.replies = <<>> /\ s.xfer = None

\* The reply to it.
Answered(s, name) == Silent(s) /\ \E k \in {"COMPLETE", "FAILED"} : s.replies = Single(ReplyTo(name, k))
\* A command, or the reply to it.
Asked(s, name, arg) == Waits(s, name, arg) \/ Answered(s, name)
\* The next reply says that it was carried out.
Agreed(s) == s.replies # <<>> /\ Head(s.replies).class = "COMPLETE"

\* A command that starts a transfer, and its replies.
AskedTransfer(s, name, arg) ==
  \/ Waits(s, name, arg)
  \/ Silent(s) /\ s.replies = Single(ReplyTo(name, "FAILED"))
  \/ s.cmds = <<>> /\ s.xfer # None /\ s.task = name /\ s.replies = Single(ReplyTo(name, "PRELIM"))
  \/ Silent(s) /\ \E k \in Finals : s.replies = Pair(ReplyTo(name, "PRELIM"), ReplyTo(name, k))

\* ABOR, the reply to it, and before that what the transfer owes.
Aborts(s) ==
  \/ /\ s.cmds = Single(Command("ABOR", None))
     /\ (s.xfer = None /\ s.replies = <<>>) \/ Running(s, "RETR")
  \/ Answered(s, "ABOR")
  \/ Silent(s) /\ \E k \in Finals, m \in {"COMPLETE", "FAILED"} :
                     s.replies = Pair(ReplyTo("RETR", k), ReplyTo("ABOR", m))

-----------------------------------------------------------------------------
(* Which stacks there are. *)

\* What data connections are asked for.
Requests == {Request("list", "LIST", d, FALSE) : d \in Dirs \cup {None}}
              \cup {Request("src", "RETR", None, TRUE), Request("dst", "STOR", None, TRUE)}

\* The calls that make a data connection; that look at a directory; that may be the last one of a
\* copy; that switch the expiry of the listings; that abort a transfer; that open the files of a copy.
Connects == {"initconn", "passive", "port", "typed", "started"}
Looks    == {"find", "dir_load", "cwd_done", "listing", "listed"}
Copied   == {"copy", "read_end", "read_failed"}
Switches == {"setctl", "stale"}
Aborted  == {"abort", "aborting", "aborted"}
Early    == {"ftpfs_linear_start", "seek", "again", "fh_open", "stor_opened"}

\* What a call that failed leaves to do: something, or nothing; and switches, on or off.
IsOr(c)   == c.call = "or" /\ c.arg # <<>>
IsStop(c) == c.call = "or" /\ c.arg = <<>>
IsOn(c)   == c.call \in Switches /\ c.arg.on
IsOff(c)  == c.call \in Switches /\ ~ c.arg.on

\* The arguments of a call are what it takes.
CallOK(c) ==
  /\ c.call = "or" => c.arg = <<>> \/ \E a \in Copies : c.arg = Closing(a)
  /\ c.call \in Connects => c.arg \in Requests
  /\ c.call \in Looks => c.arg \in Dirs
  /\ c.call \in Switches => c.arg.dir \in Dirs /\ c.arg.on \in BOOLEAN
  /\ c.call \in Copied => c.arg \in Copies
  /\ c.call = "aborting" => c.arg \in BOOLEAN
  /\ c.call = "file_store" => c.arg \in Nat

\* The call that has asked for a data connection.
Asker(r, d) ==
  /\ r.owner = "list" => d.call = "listing"
  /\ r.owner = "src"  => d.call = "ftpfs_linear_start"
  /\ r.owner = "dst"  => d.call = "stor_opened" \/ (d.call = "file_store" /\ d.arg = 0)

\* The call that waits for the reply to a command.
Waiter(c, d) ==
  \/ d.call = "passive" /\ c = Command("PASV", d.arg.owner)
  \/ d.call = "port" /\ c = Command("PORT", d.arg.owner)
  \/ d.call = "typed" /\ c = Command("TYPE", d.arg.binary)
  \/ d.call = "started" /\ c = Command(d.arg.cmd, d.arg.arg)
  \/ d.call = "cwd_done" /\ c = Command("CWD", d.arg)
  \/ d.call = "flush" /\ (c = Command("SITE", None) \/ c = Command("DELE", None))
  \/ d.call = "commanded" /\ c = Command("DELE", None)
  \/ d.call = "aborting" /\ c = Command("ABOR", None)

\* The calls that wait for a reply.
Readers == {"passive", "port", "typed", "started", "cwd_done", "flush", "commanded", "listed", "fail",
            "read_end", "stored", "store_failed", "aborted", "read_failed", "close_dst"}

\* d may be right below c.
Below(c, d) ==
  /\ c.call = "command" => Waiter(c.arg, d)
  /\ c.call = "get_reply" => d.call \in Readers
  /\ c.call \in Connects => Asker(c.arg, d)
  /\ c.call \in Looks \cup {"fail"} => IsStop(d) \/ IsOr(d) \/ d.call \in {"stale", "again", "fh_open"}
  /\ c.call \in Aborted => d.call \in {"read_failed", "close_dst"}
  /\ c.call = "get_super" => IsStop(d)
  /\ IsStop(c) => IsOn(d) \/ d.call = "find" \/ (d.call = "command" /\ d.arg = Command("DELE", None))
  /\ IsOr(c) => d.call \in {"seek", "copy"} \/ (d.call = "initconn" /\ d.arg.owner = "src")
  /\ c.call \in {"ftpfs_linear_start", "fh_open", "stor_opened"} => IsOr(d)
  /\ c.call = "seek" => d.call \in {"find", "copy"}
  /\ c.call = "again" => d.call = "fh_open"
  /\ c.call = "close_src" => d.call = "close_dst"
  /\ c.call \in {"close_dst", "file_store", "stored", "store_failed"} => d.call = "chmod"
  /\ c.call \in {"chmod", "flush"} \/ IsOff(c) => IsOff(d) \/ d.call = "over"
  /\ IsOn(c) => IsOn(d) \/ d.call = "find"
  /\ c.call = "commanded" => d.call = "over"
  /\ c.call \notin Copied \cup {"over"}

\* c may be the last one.
MayEnd(c) == c.call \in Looks \cup Copied \cup {"fail", "over"}

\* How far a copy has come that c is a part of; a call on another one is not further.
Level(c) ==
  CASE c.call = "get_super" -> 0
    [] IsStop(c) -> 1
    [] IsOn(c) -> 2
    [] c.call = "ftpfs_linear_start" -> 3
    [] c.call = "seek" -> 4
    [] c.call = "again" -> 5
    [] c.call \in {"fh_open", "stor_opened"} -> 6
    [] c.call \in Copied -> 7
    [] c.call = "close_src" -> 8
    [] c.call \in {"close_dst", "file_store", "stored", "store_failed"} -> 9
    [] c.call \in {"chmod", "flush"} -> 10
    [] IsOff(c) \/ c.call = "commanded" -> 11
    [] c.call = "over" -> 12
    [] OTHER -> 20
\* A call of level l may be on one of level m.
Ordered(l, m) == l = 20 \/ m = 20 \/ l < m \/ (l = m /\ l \in {2, 11})
\* ... on all of these.
Over(l, t) == \A i \in 1..Len(t) : Ordered(l, Level(t[i]))

\* A stack of calls as the code can make them.
Shape(t) ==
  /\ IsStack(t)
  /\ \A i \in 1..Len(t) : CallOK(t[i])
  /\ \A i \in 1..Len(t) : i = Len(t) => MayEnd(t[i])
  /\ \A i \in 1..Len(t) : i < Len(t) => Below(t[i], t[i + 1])
  /\ \A i, j \in 1..Len(t) : i < j => Ordered(Level(t[i]), Level(t[j]))

-----------------------------------------------------------------------------
(* What the files of the copy are while a call is on the stack. *)

\* No file is open, and nothing was read or written.
Nobody(sr, ds, g, p) == sr = None /\ ds = None /\ g = 0 /\ p = 0

\* b is the call at the bottom, q what is poured into the target.
Fits(c, sr, ds, g, p, q, b) ==
  /\ c.call = "get_super" \/ IsStop(c) \/ IsOn(c) => Nobody(sr, ds, g, p)
  /\ c.call \in Connects /\ c.arg.owner = "src" => Nobody(sr, ds, g, p)
  /\ c.call \in Early => ds = None /\ g = 0 /\ p = 0 /\ sr # "gone"
  /\ c.call \in {"ftpfs_linear_start", "stor_opened"} => sr = None
  /\ c.call = "ftpfs_linear_start" => b.arg.from = "ftp"
  /\ c.call = "stor_opened" => b.arg.from = "local"
  /\ c.call \in Early \/ IsOr(c) \/ IsOn(c) => b.call = "copy"
  /\ c.call \in Aborted => sr # None
  /\ c.call = "file_store" => ds = "temp" /\ q <= c.arg /\ c.arg <= p
  /\ c.call = "read_end" => sr # "open"
\* Every call fits the copy.
AllFit(t, sr, ds, g, p, q, b) == \A i \in 1..Len(t) : Fits(t[i], sr, ds, g, p, q, b)

\* The transfer of the source is still to be started.
HasStart(t) == \E i \in 1..Len(t) : t[i].call = "ftpfs_linear_start"

\* direct: blocks go straight to the server.
Ends(t, sr, ds, g, p, direct, ok, sup) ==
  /\ Nobody(sr, ds, g, p) \/ Bottom(t).call \in Copied \cup {"over"}
  /\ sr = "open" => Bottom(t).call = "copy" \/ First(t).call \in {"close_src", "abort"}
  /\ ds = "direct" => sr = None
  /\ direct => First(t).call \in {"or", "copy", "close_src", "close_dst"}
  /\ Bottom(t).call \in Copied /\ Bottom(t).arg.from = "ftp"
       => ds # "direct" /\ (sr # None \/ HasStart(t) \/ (First(t).call = "or" /\ ~ ok))
  /\ Bottom(t).call \in Copied /\ Bottom(t).arg.from = "local" => sr = None
  /\ sup = None => t = <<>> \/ First(t).call = "get_super" \/ (IsStop(First(t)) /\ ~ ok)

-----------------------------------------------------------------------------
(* What is expected of the server when c is on top and d below it. *)

\* What a call expects that does not wait for anything.
Rests(s, busy, direct) ==
  /\ busy => Owes(s, "RETR")
  /\ ~ busy /\ direct => Owes(s, "STOR")
  /\ ~ busy /\ ~ direct => Quiet(s)

\* The calls that expect nothing any more, and those that expect something of their own.
Calm == {"passive", "port", "typed", "cwd_done", "flush", "commanded", "listed", "fail", "read_end",
         "stored", "store_failed"}
Special == Calm \cup {"command", "get_reply", "started", "ftpfs_linear_start", "listing", "stor_opened",
                      "file_store", "aborting", "aborted"}

\* What is expected while a reply is read.
Reading(d, s) ==
  /\ d.call = "passive" => Asked(s, "PASV", d.arg.owner)
  /\ d.call = "port" => Asked(s, "PORT", d.arg.owner)
  /\ d.call = "typed" => Asked(s, "TYPE", d.arg.binary)
  /\ d.call = "started" => AskedTransfer(s, d.arg.cmd, d.arg.arg)
  /\ d.call = "cwd_done" => Asked(s, "CWD", d.arg)
  /\ d.call = "flush" => Asked(s, "SITE", None) \/ Asked(s, "DELE", None)
  /\ d.call = "commanded" => Asked(s, "DELE", None)
  /\ d.call \in {"listed", "fail"} => Owes(s, "LIST")
  /\ d.call = "read_end" => Owes(s, "RETR")
  /\ d.call \in {"stored", "store_failed"} => Owes(s, "STOR")
  /\ d.call = "aborted" => Aborts(s)
  /\ d.call \in {"read_failed", "close_dst"} => Asked(s, "ABOR", None)

\* What is expected, for each call.
Expected(c, d, s, busy, direct, ok, ans) ==
  /\ c.call \notin Special => Rests(s, busy, direct)
  /\ c.call \in Calm => Quiet(s)
  /\ c.call = "command" => IF c.arg.name = "ABOR" THEN Owes(s, "RETR") ELSE Rests(s, busy, direct)
  /\ c.call = "get_reply" => Reading(d, s)
  /\ c.call = "started" => IF ans.class = "PRELIM" THEN Owes(s, c.arg.cmd) ELSE Quiet(s)
  /\ c.call = "ftpfs_linear_start" => IF ok THEN Owes(s, "RETR") ELSE Rests(s, busy, direct)
  /\ c.call = "listing" => IF ok THEN Owes(s, "LIST") ELSE Rests(s, busy, direct)
  /\ c.call \in {"stor_opened", "file_store"} => IF ok THEN Owes(s, "STOR") ELSE Rests(s, busy, direct)
  /\ c.call = "aborting" => IF ans.class = "COMPLETE" THEN Aborts(s) ELSE Quiet(s)
  /\ c.call = "aborted" => \/ ans.to = "RETR" /\ ans.class \in Finals /\ Asked(s, "ABOR", None)
                           \/ ans.to = "ABOR" /\ ans.class \in {"COMPLETE", "FAILED"} /\ Quiet(s)

\* What is known of the session.
KnownType(s, isb) == s.logged => isb \in {None, s.binary}
KnownDir(s, cw)   == s.logged => cw \in {None, s.cwd}

\* The type that the superblock remembers, while and after it is changed.
TypeKnown(c, d, s, isb, ans) ==
  /\ c.call = "get_reply" /\ d.call = "typed" =>
       IF Agreed(s) THEN s.binary = d.arg.binary ELSE KnownType(s, isb)
  /\ c.call = "typed" =>
       IF ans.class = "COMPLETE" THEN s.binary = c.arg.binary ELSE KnownType(s, isb)
  /\ (c.call = "get_reply" /\ d.call = "typed") \/ c.call = "typed" \/ KnownType(s, isb)

\* ... and the directory.
DirKnown(c, d, s, cw, ans) ==
  /\ c.call = "get_reply" /\ d.call = "cwd_done" => IF Agreed(s) THEN s.cwd = d.arg ELSE KnownDir(s, cw)
  /\ c.call = "cwd_done" => IF ans.class = "COMPLETE" THEN s.cwd = c.arg ELSE KnownDir(s, cw)
  /\ (c.call = "get_reply" /\ d.call = "cwd_done") \/ c.call = "cwd_done" \/ KnownDir(s, cw)

\* Whose data connection the server will use.
ReadyKnown(c, d, s, ans) ==
  /\ c.call = "get_reply" /\ d.call = "port" => (Agreed(s) => s.ready = d.arg.owner)
  /\ c.call = "port" => (ans.class = "COMPLETE" => s.ready = c.arg.owner)
  /\ c.call \in {"command", "get_reply"} /\ d.call \in {"typed", "started"} => s.ready \in {None, d.arg.owner}
  /\ c.call = "typed" => s.ready \in {None, c.arg.owner}

\* What is in the data connections.
FlowKnown(c, d, s, da, ok) ==
  /\ c.call \in {"command", "get_reply"} /\ d.call = "typed" => da[d.arg.owner].client /\ da[d.arg.owner].flow = 0
  /\ c.call = "typed" => da[c.arg.owner].client /\ da[c.arg.owner].flow = 0
  /\ c.call \in {"command", "get_reply"} /\ d.call = "started" =>
       /\ da[d.arg.owner].client
       /\ c.call = "command" \/ s.cmds # <<>> => da[d.arg.owner].flow = 0
       /\ d.arg.owner = "src" => da["src"].flow <= Blocks
  /\ c.call = "started" => da[c.arg.owner].client /\ (c.arg.owner = "src" => da["src"].flow <= Blocks)
  /\ c.call = "ftpfs_linear_start" /\ ok => da["src"].flow <= Blocks
  /\ c.call = "stor_opened" /\ ok => da["dst"].client

-----------------------------------------------------------------------------
(* The invariant *)

\* The command that starts the transfer of a connection.
CmdOf(o) == IF o = "src" THEN "RETR" ELSE IF o = "dst" THEN "STOR" ELSE "LIST"

\* The target goes straight to the server, and is not closed.
direct == dst = "direct" /\ data["dst"].client
\* What the server has of a target that it is taking, and what is on its way.
poured == IF server.xfer = "dst" THEN stored.n + data["dst"].flow ELSE 0

\* The fields of the server's end, and what a data connection is.
Fields == {"up", "logged", "cmds", "replies", "cwd", "binary", "ready", "xfer", "task", "n", "reset"}
Pipes  == [client : BOOLEAN, link : {"none", "open", "closed", "broken"}, flow : 0..Cap,
           binary : BOOLEAN, of : Dirs \cup {None, "home"}]

\* The server's end of the control connection.
ServerOK ==
  /\ DOMAIN server = Fields /\ {server.up, server.logged, server.binary} \subseteq BOOLEAN
  /\ server.cwd \in Dirs \cup {"home"} /\ server.ready \in Owner \cup {None}
  /\ server.xfer \in Owner \cup {None} /\ server.n \in 0..Blocks
  /\ ~ server.up => server.xfer = None /\ server.cmds = <<>>

\* The superblock and the cached listings.
SuperOK ==
  /\ super \in {None, "up", "stale"} /\ strict \in {"auto", "strict", "daring"}
  /\ {okay, use_passive_connection, ctl_connection_busy, want_stale, exact, ended} \subseteq BOOLEAN
  /\ isbinary \in BOOLEAN \cup {None} /\ {cwdir, lines} \subseteq Dirs \cup {None, "home"}
  /\ saved \subseteq Dirs /\ listing \in [Dirs -> Dirs \cup {None, "home"}]
  /\ super # "up" => ~ server.up
  /\ super = None => isbinary = None

\* The files of the copy.
CopyOK ==
  /\ src \in {None, "open", "gone"} /\ dst \in {None, "direct", "temp"}
  /\ got \in 0..Blocks /\ put \in 0..Blocks /\ put <= got /\ wanted \in Starts \cup {0}
  /\ told \in {None, "stored", "deleted", "failed"} /\ harm \in {None, "astray", "crashed"}
  /\ ctl_connection_busy <=> src = "open"

\* The data connections, and what is stored.
DataOK ==
  /\ data \in [Owner -> Pipes]
  /\ ~ server.up => \A o \in Owner : data[o].link # "open"
  /\ stored = None \/ stored \in [n : 0..Blocks, binary : BOOLEAN]

\* No more is read than is sent, and no more is stored than is written.
FlowOK ==
  /\ server.xfer # None => server.task = CmdOf(server.xfer)
  /\ src = "open" => got + data["src"].flow <= Blocks
  /\ server.xfer = "src" => got + data["src"].flow <= server.n
  /\ server.xfer = "dst" => stored \in [n : 0..Blocks, binary : BOOLEAN] /\ stored.n + data["dst"].flow <= put

\* All that holds whatever is called.
Kinds == ServerOK /\ SuperOK /\ CopyOK /\ DataOK /\ FlowOK

\* The calls are what they may be, and fit the copy.
StackOK ==
  /\ Shape(todo) /\ AllFit(todo, src, dst, got, put, poured, Bottom(todo))
  /\ Ends(todo, src, dst, got, put, direct, okay, super)

\* The server is where the call on top expects it.
TopOK ==
  server.up =>
    /\ Expected(First(todo), First(Rest(todo)), server, ctl_connection_busy, direct, okay, answer)
    /\ TypeKnown(First(todo), First(Rest(todo)), server, isbinary, answer)
    /\ DirKnown(First(todo), First(Rest(todo)), server, cwdir, answer)
    /\ ReadyKnown(First(todo), First(Rest(todo)), server, answer)

\* Kinds always, and the rest until the model ends with harm.
FtpInv ==
  /\ Kinds
  /\ harm = None => StackOK /\ TopOK /\ FlowKnown(First(todo), First(Rest(todo)), server, data, okay)
-----------------------------------------------------------------------------
(* Stacks *)

\* A stack is a sequence of its calls.
LEMMA StackSeq ==
  ASSUME NEW t, NEW S, IsStack(t), \A i \in 1..Len(t) : t[i] \in S PROVE t \in Seq(S)
<1>1. Len(t) \in Nat /\ t = [i \in 1..Len(t) |-> t[i]]
  BY DEF IsStack
<1>2. [i \in 1..Len(t) |-> t[i]] \in [1..Len(t) -> S]
  OBVIOUS
<1>3. t \in [1..Len(t) -> S]
  BY <1>1, <1>2
<1>4. t \in Seq(S)
  BY <1>1, <1>3
<1> QED BY <1>4

\* A sequence is a stack.
LEMMA SeqStack ==
  ASSUME NEW S, NEW t \in Seq(S) PROVE IsStack(t)
<1>1. Len(t) \in Nat /\ t \in [1..Len(t) -> S]
  OBVIOUS
<1>2. t = [i \in 1..Len(t) |-> t[i]]
  BY <1>1
<1> QED BY <1>1, <1>2 DEF IsStack

\* A stack with a call put on it.
LEMMA StackOn ==
  ASSUME NEW c, NEW t, IsStack(t)
  PROVE  /\ IsStack(On(c, t)) /\ On(c, t) # <<>> /\ Len(On(c, t)) = Len(t) + 1
         /\ On(c, t)[1] = c /\ \A i \in 1..Len(t) : On(c, t)[i + 1] = t[i]
         /\ Head(On(c, t)) = c /\ Tail(On(c, t)) = t
<1> DEFINE S == {t[i] : i \in 1..Len(t)} \cup {c}
<1>1. t \in Seq(S) /\ <<c>> \in Seq(S)
  BY StackSeq
<1>2. On(c, t) \in Seq(S) /\ Len(On(c, t)) = Len(t) + 1
  BY <1>1 DEF On
<1>3. On(c, t)[1] = c /\ \A i \in 1..Len(t) : On(c, t)[i + 1] = t[i]
  BY <1>1 DEF On
<1>4. IsStack(On(c, t))
  BY <1>2, SeqStack
<1>5. On(c, t) # <<>> /\ Head(On(c, t)) = c
  BY <1>2, <1>3
<1>6. Tail(On(c, t)) = t
  BY <1>1 DEF On
<1> QED BY <1>2, <1>3, <1>4, <1>5, <1>6

\* A stack that is not empty is its first call put on the rest.
LEMMA StackSplit ==
  ASSUME NEW t, IsStack(t), t # <<>>
  PROVE  /\ t = On(First(t), Rest(t)) /\ IsStack(Rest(t))
         /\ Head(t) = First(t) /\ Tail(t) = Rest(t)
<1> DEFINE S == {t[i] : i \in 1..Len(t)}
<1>1. t \in Seq(S)
  BY StackSeq
<1>2. Tail(t) \in Seq(S) /\ Len(t) # 0
  BY <1>1
<1>3. Rest(t) = Tail(t) /\ First(t) = Head(t)
  BY DEF Rest, First
<1>4. IsStack(Rest(t))
  BY <1>2, <1>3, SeqStack
<1>5. t = On(First(t), Rest(t))
  BY <1>1, <1>2, <1>3 DEF On
<1> QED BY <1>3, <1>4, <1>5

\* The parts of a stack that a call was put on.
LEMMA OnParts ==
  ASSUME NEW c, NEW t, IsStack(t)
  PROVE  /\ First(On(c, t)) = c /\ Rest(On(c, t)) = t
         /\ Bottom(On(c, t)) = IF t = <<>> THEN c ELSE Bottom(t)
<1> DEFINE u == On(c, t)
<1>1. IsStack(u) /\ u # <<>> /\ Len(u) = Len(t) + 1 /\ u[1] = c /\ Head(u) = c /\ Tail(u) = t
      /\ \A i \in 1..Len(t) : u[i + 1] = t[i]
  BY StackOn
<1>2. First(u) = c /\ Rest(u) = t
  BY <1>1 DEF First, Rest
<1>3. CASE t = <<>>
  <2>1. Len(u) = 1
    BY <1>1, <1>3
  <2> QED BY <1>1, <1>2, <1>3, <2>1 DEF Bottom
<1>4. CASE t # <<>>
  <2>1. Len(t) \in Nat /\ Len(t) # 0
    BY <1>4, StackSplit, StackOn DEF IsStack
  <2>2. u[Len(t) + 1] = t[Len(t)]
    BY <1>1, <2>1
  <2>3. Bottom(u) = t[Len(t)]
    BY <1>1, <2>2 DEF Bottom
  <2> QED BY <1>2, <1>4, <2>3 DEF Bottom
<1> QED BY <1>3, <1>4

\* The empty stack.
LEMMA EmptyStack == IsStack(<<>>)
  BY DEF IsStack

\* What the call on top goes on with is put on the calls that waited for it.
LEMMA Thens ==
  ASSUME NEW x, NEW y, IsStack(todo)
  PROVE  /\ todo # <<>> /\ Then(<<>>) => todo' = Rest(todo)
         /\ todo # <<>> /\ Then(<<x>>) => todo' = On(x, Rest(todo))
         /\ todo # <<>> /\ Then(<<x, y>>) => todo' = On(x, On(y, Rest(todo)))
<1> SUFFICES ASSUME todo # <<>> PROVE
         /\ Then(<<>>) => todo' = Rest(todo)
         /\ Then(<<x>>) => todo' = On(x, Rest(todo))
         /\ Then(<<x, y>>) => todo' = On(x, On(y, Rest(todo)))
  OBVIOUS
<1> DEFINE r == Rest(todo)
<1>1. IsStack(r) /\ Tail(todo) = r
  BY StackSplit
<1> DEFINE S == {r[i] : i \in 1..Len(r)} \cup {x, y}
<1>2. r \in Seq(S)
  BY <1>1, StackSeq
<1> HIDE DEF r
<1>3. Then(<<>>) => todo' = r
  BY <1>1, <1>2 DEF Then
<1>4. Then(<<x>>) => todo' = On(x, r)
  BY <1>1 DEF Then, On
<1>5. <<x, y>> \o r = On(x, On(y, r))
  <2> DEFINE u == On(y, r)
             v == <<x, y>> \o r
             w == On(x, u)
  <2>1. v \in Seq(S) /\ Len(v) = Len(r) + 2 /\ v[1] = x /\ v[2] = y
        /\ \A i \in 1..Len(r) : v[i + 2] = r[i]
    BY <1>2
  <2>2. IsStack(u) /\ Len(u) = Len(r) + 1 /\ u[1] = y /\ \A i \in 1..Len(r) : u[i + 1] = r[i]
    BY <1>1, StackOn
  <2>3. IsStack(w) /\ Len(w) = Len(u) + 1 /\ w[1] = x /\ \A i \in 1..Len(u) : w[i + 1] = u[i]
    BY <2>2, StackOn
  <2> HIDE DEF v, u, w
  <2>4. Len(r) \in Nat
    BY <1>1 DEF IsStack
  <2>5. Len(w) = Len(v)
    BY <2>4, <2>1, <2>2, <2>3
  <2>6. ASSUME NEW i \in 1..Len(v) PROVE w[i] = v[i]
    <3>1. CASE i = 1
      BY <3>1, <2>1, <2>3
    <3>2. CASE i = 2
      BY <3>2, <2>4, <2>1, <2>2, <2>3
    <3>3. CASE i > 2
      <4>1. i - 2 \in 1..Len(r) /\ i - 1 \in 1..Len(u)
        BY <3>3, <2>4, <2>1, <2>2
      <4>2. v[(i - 2) + 2] = r[i - 2] /\ u[(i - 2) + 1] = r[i - 2] /\ w[(i - 1) + 1] = u[i - 1]
        BY <4>1, <2>1, <2>2, <2>3
      <4>3. (i - 2) + 2 = i /\ (i - 2) + 1 = i - 1 /\ (i - 1) + 1 = i
        BY <2>4
      <4> QED BY <4>2, <4>3
    <3> QED BY <3>1, <3>2, <3>3, <2>4, <2>1
  <2>7. IsStack(v)
    BY <2>1, SeqStack
  <2>8. v = w
    BY <2>3, <2>5, <2>6, <2>7 DEF IsStack
  <2> QED BY <2>8 DEF u, v, w
<1>6. Then(<<x, y>>) => todo' = On(x, On(y, r))
  BY <1>1, <1>5 DEF Then
<1> QED BY <1>3, <1>4, <1>6 DEF r

\* x may be put on r.
Bel(x, r)  == IF r = <<>> THEN MayEnd(x) ELSE Below(x, First(r))
Sits(x, r) == CallOK(x) /\ Bel(x, r) /\ Over(Level(x), r)

\* Nothing can be wrong in the empty stack.
LEMMA EmptyShape == Shape(<<>>) /\ \A l : Over(l, <<>>)
  BY EmptyStack DEF Shape, Over

\* A level over a stack that a call was put on.
LEMMA OnOver ==
  ASSUME NEW l, NEW x, NEW r, IsStack(r)
  PROVE  Over(l, On(x, r)) <=> (Ordered(l, Level(x)) /\ Over(l, r))
<1> DEFINE u == On(x, r)
<1>1. Len(u) = Len(r) + 1 /\ u[1] = x /\ (\A i \in 1..Len(r) : u[i + 1] = r[i]) /\ Len(r) \in Nat
  BY StackOn DEF IsStack
<1> HIDE DEF u
<1>2. ASSUME Over(l, u) PROVE Ordered(l, Level(x)) /\ Over(l, r)
  <2>1. \A i \in 1..Len(u) : Ordered(l, Level(u[i]))
    BY <1>2 DEF Over
  <2>2. Ordered(l, Level(u[1]))
    BY <2>1, <1>1
  <2>3. ASSUME NEW i \in 1..Len(r) PROVE Ordered(l, Level(r[i]))
    <3>1. i + 1 \in 1..Len(u) /\ u[i + 1] = r[i]
      BY <1>1
    <3> QED BY <3>1, <2>1
  <2> QED BY <2>2, <2>3, <1>1 DEF Over
<1>3. ASSUME Ordered(l, Level(x)), Over(l, r) PROVE Over(l, u)
  <2>1. \A i \in 1..Len(r) : Ordered(l, Level(r[i]))
    BY <1>3 DEF Over
  <2>2. ASSUME NEW i \in 1..Len(u) PROVE Ordered(l, Level(u[i]))
    <3>1. CASE i = 1
      BY <3>1, <1>1, <1>3
    <3>2. CASE i > 1
      <4>1. i - 1 \in 1..Len(r) /\ (i - 1) + 1 = i
        BY <3>2, <1>1
      <4>2. u[i] = r[i - 1]
        BY <4>1, <1>1
      <4> QED BY <4>1, <4>2, <2>1
    <3> QED BY <3>1, <3>2, <1>1
  <2> QED BY <2>2 DEF Over
<1> QED BY <1>2, <1>3 DEF u

\* The shape of a stack, one call at a time.
LEMMA OnShape ==
  ASSUME NEW x, NEW r, IsStack(r)
  PROVE  Shape(On(x, r)) <=> (Sits(x, r) /\ Shape(r))
<1> DEFINE u == On(x, r)
           n == Len(r)
<1>1. /\ Len(u) = n + 1 /\ u[1] = x /\ (\A i \in 1..n : u[i + 1] = r[i]) /\ n \in Nat
      /\ IsStack(u) /\ (r = <<>> <=> n = 0) /\ (r # <<>> => First(r) = r[1])
  <2>1. r = <<>> <=> n = 0
    <3>1. r \in Seq({r[i] : i \in 1..Len(r)})
      BY StackSeq
    <3> QED BY <3>1
  <2>2. r # <<>> => First(r) = r[1]
    BY <2>1 DEF First
  <2> QED BY <2>1, <2>2, StackOn DEF IsStack
<1> HIDE DEF u, n
<1>2. ASSUME Shape(u) PROVE Sits(x, r) /\ Shape(r)
  <2>1. \A i \in 1..n : i + 1 \in 1..Len(u) /\ u[i + 1] = r[i] /\ (i = n <=> i + 1 = Len(u)) /\ (i < n <=> i + 1 < Len(u))
    BY <1>1
  <2>2. CallOK(x) /\ (n = 0 => MayEnd(x))
    BY <1>1, <1>2 DEF Shape
  <2>3. n # 0 => Below(x, r[1])
    <3>1. SUFFICES ASSUME n # 0 PROVE Below(u[1], u[1 + 1])
      BY <1>1
    <3>2. 1 \in 1..Len(u) /\ 1 < Len(u)
      BY <1>1, <3>1
    <3> QED BY <1>2, <3>2 DEF Shape
  <2>4. Over(Level(x), r)
    <3>1. SUFFICES ASSUME NEW i \in 1..n PROVE Ordered(Level(x), Level(r[i]))
      BY DEF Over, n
    <3>2. 1 \in 1..Len(u) /\ i + 1 \in 1..Len(u) /\ 1 < i + 1
      BY <1>1
    <3>3. Ordered(Level(u[1]), Level(u[i + 1]))
      BY <1>2, <3>2 DEF Shape
    <3> QED BY <3>3, <1>1
  <2>5. \A i \in 1..n : CallOK(r[i]) /\ (i = n => MayEnd(r[i]))
    BY <2>1, <1>2 DEF Shape
  <2>6. ASSUME NEW i \in 1..n, i < n PROVE Below(r[i], r[i + 1])
    <3>1. Below(u[i + 1], u[(i + 1) + 1])
      BY <2>1, <2>6, <1>2 DEF Shape
    <3>2. i + 1 \in 1..n
      BY <2>6, <1>1
    <3> QED BY <3>1, <3>2, <1>1
  <2>7. ASSUME NEW i \in 1..n, NEW j \in 1..n, i < j PROVE Ordered(Level(r[i]), Level(r[j]))
    <3>1. i + 1 < j + 1
      BY <2>7, <1>1
    <3>2. Ordered(Level(u[i + 1]), Level(u[j + 1]))
      BY <2>1, <3>1, <1>2 DEF Shape
    <3> QED BY <3>2, <1>1
  <2>8. Shape(r)
    BY <2>5, <2>6, <2>7 DEF Shape, n
  <2> QED BY <2>2, <2>3, <2>4, <2>8, <1>1 DEF Sits, Bel
<1>3. ASSUME Sits(x, r), Shape(r) PROVE Shape(u)
  <2>1. \A i \in 2..Len(u) : i - 1 \in 1..n /\ u[i] = r[i - 1] /\ (i = Len(u) <=> i - 1 = n) /\ (i < Len(u) <=> i - 1 < n)
    <3>1. \A i \in 2..Len(u) : i - 1 \in 1..n /\ (i - 1) + 1 = i /\ (i = Len(u) <=> i - 1 = n) /\ (i < Len(u) <=> i - 1 < n)
      BY <1>1
    <3>2. \A i \in 2..Len(u) : u[(i - 1) + 1] = r[i - 1]
      BY <3>1, <1>1
    <3> QED BY <3>1, <3>2
  <2>2. ASSUME NEW i \in 1..Len(u) PROVE CallOK(u[i]) /\ (i = Len(u) => MayEnd(u[i]))
    <3>1. CASE i = 1
      BY <3>1, <1>1, <1>3 DEF Sits, Bel
    <3>2. CASE i \in 2..Len(u)
      BY <3>2, <2>1, <1>3 DEF Shape, n
    <3> QED BY <3>1, <3>2, <1>1
  <2>3. ASSUME NEW i \in 1..Len(u), i < Len(u) PROVE Below(u[i], u[i + 1])
    <3>1. CASE i = 1
      <4>1. n # 0 /\ 1 \in 1..n
        BY <3>1, <2>3, <1>1
      <4>2. u[1 + 1] = r[1]
        BY <4>1, <1>1
      <4> QED BY <3>1, <4>1, <4>2, <1>1, <1>3 DEF Sits, Bel
    <3>2. CASE i \in 2..Len(u)
      <4>1. Below(r[i - 1], r[(i - 1) + 1])
        BY <3>2, <2>1, <2>3, <1>3 DEF Shape, n
      <4>2. (i - 1) + 1 = i /\ i \in 1..n
        BY <3>2, <2>3, <1>1
      <4>3. u[i + 1] = r[i]
        BY <4>2, <1>1
      <4> QED BY <4>1, <4>2, <4>3, <3>2, <2>1
    <3> QED BY <3>1, <3>2, <1>1
  <2>4. ASSUME NEW i \in 1..Len(u), NEW j \in 1..Len(u), i < j PROVE Ordered(Level(u[i]), Level(u[j]))
    <3>1. j \in 2..Len(u)
      BY <2>4, <1>1
    <3>2. CASE i = 1
      BY <3>1, <3>2, <2>1, <1>1, <1>3 DEF Sits, Over, n
    <3>3. CASE i \in 2..Len(u)
      <4>1. i - 1 < j - 1
        BY <2>4, <1>1
      <4>2. Ordered(Level(r[i - 1]), Level(r[j - 1]))
        BY <3>1, <3>3, <4>1, <2>1, <1>3 DEF Shape, n
      <4> QED BY <3>1, <3>3, <4>2, <2>1
    <3> QED BY <3>2, <3>3, <1>1
  <2> QED BY <2>2, <2>3, <2>4, <1>1 DEF Shape
<1> QED BY <1>2, <1>3 DEF u

\* Each call fits the copy, one call at a time.
LEMMA OnFit ==
  ASSUME NEW x, NEW r, NEW sr, NEW ds, NEW g, NEW p, NEW q, NEW b, IsStack(r)
  PROVE  AllFit(On(x, r), sr, ds, g, p, q, b) <=> (Fits(x, sr, ds, g, p, q, b) /\ AllFit(r, sr, ds, g, p, q, b))
<1> DEFINE u == On(x, r)
           n == Len(r)
           P(c) == Fits(c, sr, ds, g, p, q, b)
<1>1. /\ Len(u) = n + 1 /\ u[1] = x /\ (\A i \in 1..n : u[i + 1] = r[i]) /\ n \in Nat
  BY StackOn DEF IsStack
<1>2. AllFit(u, sr, ds, g, p, q, b) <=> \A i \in 1..Len(u) : P(u[i])
  BY DEF AllFit
<1>3. AllFit(r, sr, ds, g, p, q, b) <=> \A i \in 1..n : P(r[i])
  BY DEF AllFit
<1> HIDE DEF u, n, P
<1>4. ASSUME \A i \in 1..Len(u) : P(u[i]) PROVE P(x) /\ \A i \in 1..n : P(r[i])
  <2>1. P(u[1])
    BY <1>1, <1>4
  <2>2. ASSUME NEW i \in 1..n PROVE P(r[i])
    <3>1. i + 1 \in 1..Len(u) /\ u[i + 1] = r[i]
      BY <1>1
    <3> QED BY <3>1, <1>4
  <2> QED BY <2>1, <2>2, <1>1
<1>5. ASSUME P(x), \A i \in 1..n : P(r[i]), NEW i \in 1..Len(u) PROVE P(u[i])
  <2>1. CASE i = 1
    BY <2>1, <1>1, <1>5
  <2>2. CASE i > 1
    <3>1. i - 1 \in 1..n /\ (i - 1) + 1 = i
      BY <2>2, <1>1
    <3>2. u[i] = r[i - 1]
      BY <3>1, <1>1
    <3> QED BY <3>1, <3>2, <1>5
  <2> QED BY <2>1, <2>2, <1>1
<1>6. P(x) <=> Fits(x, sr, ds, g, p, q, b)
  BY DEF P
<1> QED BY <1>2, <1>3, <1>4, <1>5, <1>6 DEF u

\* Whether the transfer of the source is still to be started, one call at a time.
LEMMA OnStart ==
  ASSUME NEW x, NEW r, IsStack(r)
  PROVE  HasStart(On(x, r)) <=> (x.call = "ftpfs_linear_start" \/ HasStart(r))
<1> DEFINE u == On(x, r)
           n == Len(r)
<1>1. /\ Len(u) = n + 1 /\ u[1] = x /\ (\A i \in 1..n : u[i + 1] = r[i]) /\ n \in Nat
  BY StackOn DEF IsStack
<1>2. (HasStart(u) <=> \E i \in 1..Len(u) : u[i].call = "ftpfs_linear_start")
      /\ (HasStart(r) <=> \E i \in 1..n : r[i].call = "ftpfs_linear_start")
  BY DEF HasStart
<1> HIDE DEF u, n
<1>3. ASSUME NEW i \in 1..Len(u), u[i].call = "ftpfs_linear_start"
      PROVE  x.call = "ftpfs_linear_start" \/ HasStart(r)
  <2>1. CASE i = 1
    BY <2>1, <1>1, <1>3
  <2>2. CASE i > 1
    <3>1. i - 1 \in 1..n /\ (i - 1) + 1 = i
      BY <2>2, <1>1
    <3>2. u[i] = r[i - 1]
      BY <3>1, <1>1
    <3> QED BY <3>1, <3>2, <1>2, <1>3
  <2> QED BY <2>1, <2>2, <1>1
<1>4. x.call = "ftpfs_linear_start" => HasStart(u)
  BY <1>1, <1>2
<1>5. ASSUME NEW i \in 1..n, r[i].call = "ftpfs_linear_start" PROVE HasStart(u)
  <2>1. i + 1 \in 1..Len(u) /\ u[i + 1] = r[i]
    BY <1>1
  <2> QED BY <2>1, <1>2, <1>5
<1> QED BY <1>2, <1>3, <1>4, <1>5 DEF u

\* The call at the bottom.
LEMMA ShapeBottom ==
  ASSUME NEW t, Shape(t), t # <<>>
  PROVE  /\ CallOK(Bottom(t)) /\ MayEnd(Bottom(t))
         /\ \A l : Over(l, t) => Ordered(l, Level(Bottom(t)))
<1>1. Len(t) \in 1..Len(t)
  <2>1. Len(t) \in Nat /\ t \in Seq({t[i] : i \in 1..Len(t)})
    BY StackSeq DEF Shape, IsStack
  <2> QED BY <2>1
<1>2. Bottom(t) = t[Len(t)]
  BY DEF Bottom
<1> QED BY <1>1, <1>2 DEF Shape, Over

\* These calls are the last ones.
LEMMA Lasts ==
  ASSUME NEW t, Shape(t), NEW i \in 1..Len(t), t[i].call \in Copied \cup {"over"}
  PROVE  i = Len(t) /\ t[i] = Bottom(t) /\ t # <<>>
<1>1. Len(t) \in Nat /\ t \in Seq({t[k] : k \in 1..Len(t)})
  BY StackSeq DEF Shape, IsStack
<1>2. ~ Below(t[i], t[i + 1])
  BY DEF Below
<1>3. i = Len(t)
  <2>1. i < Len(t) => Below(t[i], t[i + 1])
    BY DEF Shape
  <2> QED BY <1>1, <1>2, <2>1
<1> QED BY <1>1, <1>3 DEF Bottom

\* What a level says of the calls that are over it.
LEMMA Levels ==
  ASSUME NEW c
  PROVE  /\ c.call = "get_super" => Level(c) = 0
         /\ IsStop(c) => Level(c) = 1
         /\ IsOn(c) => Level(c) = 2
         /\ c.call = "ftpfs_linear_start" => Level(c) = 3
         /\ c.call = "seek" => Level(c) = 4
         /\ c.call = "again" => Level(c) = 5
         /\ c.call \in {"fh_open", "stor_opened"} => Level(c) = 6
         /\ c.call \in Copied => Level(c) = 7
         /\ c.call = "close_src" => Level(c) = 8
         /\ c.call \in {"close_dst", "file_store", "stored", "store_failed"} => Level(c) = 9
         /\ c.call \in {"chmod", "flush"} => Level(c) = 10
         /\ IsOff(c) \/ c.call = "commanded" => Level(c) = 11
         /\ c.call = "over" => Level(c) = 12
         /\ c.call \in Connects \cup Looks \cup Aborted \cup {"command", "get_reply", "fail"} => Level(c) = 20
         /\ IsOr(c) => Level(c) = 20
  BY DEF Level, IsStop, IsOn, IsOff, IsOr, Switches, Copied, Connects, Looks, Aborted

\* No connection for the source is asked for under a call of the later part of a copy.
LEMMA NoRequest ==
  ASSUME NEW t, NEW l, Shape(t), Over(l, t), l \in 3..12, NEW i \in 1..Len(t)
  PROVE  ~ (t[i].call \in Connects /\ t[i].arg.owner = "src")
<1> SUFFICES ASSUME t[i].call \in Connects, t[i].arg.owner = "src" PROVE FALSE
  OBVIOUS
<1>1. Len(t) \in Nat
  BY DEF Shape, IsStack
<1>2. i < Len(t)
  <2>1. ~ MayEnd(t[i])
    BY DEF MayEnd, Connects, Looks, Copied
  <2> QED BY <2>1, <1>1 DEF Shape
<1>3. i + 1 \in 1..Len(t)
  BY <1>1, <1>2
<1>4. t[i + 1].call = "ftpfs_linear_start"
  <2>1. Below(t[i], t[i + 1])
    BY <1>2 DEF Shape
  <2> QED BY <2>1 DEF Below, Asker
<1>5. Level(t[i + 1]) = 3
  BY <1>4, Levels
<1>6. Ordered(l, 3)
  BY <1>3, <1>5 DEF Over
<1> QED BY <1>6 DEF Ordered


\* Which calls are not under one of this level.
LEMMA Under ==
  ASSUME NEW t, NEW l, Shape(t), Over(l, t), NEW i \in 1..Len(t)
  PROVE  /\ l \in 3..12 => /\ t[i].call # "get_super" /\ ~ IsStop(t[i]) /\ ~ IsOn(t[i])
                           /\ ~ (t[i].call \in Connects /\ t[i].arg.owner = "src")
                           /\ t[i].call # "ftpfs_linear_start"
         /\ l \in 6..12 => t[i].call \notin Early
         /\ l \in 8..12 => t[i].call \notin Copied
         /\ l \in 9..12 => t[i].call # "file_store"
<1>1. Ordered(l, Level(t[i]))
  BY DEF Over
<1>2. l \in 3..12 => ~ (t[i].call \in Connects /\ t[i].arg.owner = "src")
  BY NoRequest
<1>3. l \in 3..12 => /\ t[i].call # "get_super" /\ ~ IsStop(t[i]) /\ ~ IsOn(t[i])
                     /\ t[i].call # "ftpfs_linear_start"
  BY <1>1, Levels DEF Ordered
<1>4. l \in 6..12 => t[i].call \notin Early
  BY <1>1, Levels DEF Ordered, Early
<1>5. l \in 8..12 => t[i].call \notin Copied /\ (l # 8 => t[i].call # "file_store")
  BY <1>1, Levels DEF Ordered
<1> QED BY <1>2, <1>3, <1>4, <1>5

\* The source is opened.
LEMMA FitStart ==
  ASSUME NEW r, Shape(r), Over(3, r), NEW g, NEW p, NEW q, NEW b, AllFit(r, None, None, g, p, q, b),
         b.call = "copy", b.arg.from = "ftp", r # <<>> => Bottom(r) = b
  PROVE  AllFit(r, "open", None, g, p, q, b)
<1> SUFFICES ASSUME NEW i \in 1..Len(r) PROVE Fits(r[i], "open", None, g, p, q, b)
  BY DEF AllFit
<1>1. Fits(r[i], None, None, g, p, q, b)
  BY DEF AllFit
<1>2. /\ r[i].call # "get_super" /\ ~ IsStop(r[i]) /\ ~ IsOn(r[i])
      /\ ~ (r[i].call \in Connects /\ r[i].arg.owner = "src") /\ r[i].call # "ftpfs_linear_start"
  BY Under
<1>3. r[i].call # "read_end"
  BY Lasts DEF Copied
<1>4. r[i].call # "stor_opened"
  BY <1>1 DEF Fits
<1> QED BY <1>1, <1>2, <1>3, <1>4, FtpfsAssumption DEF Fits, Nobody

\* The source is closed.
LEMMA FitGone ==
  ASSUME NEW r, Shape(r), NEW l \in 8..12, Over(l, r), NEW sr, NEW ds, NEW g, NEW p, NEW q, NEW b,
         AllFit(r, sr, ds, g, p, q, b)
  PROVE  AllFit(r, "gone", ds, g, p, q, b)
<1> SUFFICES ASSUME NEW i \in 1..Len(r) PROVE Fits(r[i], "gone", ds, g, p, q, b)
  BY DEF AllFit
<1>1. Fits(r[i], sr, ds, g, p, q, b)
  BY DEF AllFit
<1>2. /\ r[i].call # "get_super" /\ ~ IsStop(r[i]) /\ ~ IsOn(r[i])
      /\ ~ (r[i].call \in Connects /\ r[i].arg.owner = "src") /\ r[i].call # "ftpfs_linear_start"
      /\ r[i].call \notin Early
  BY Under
<1> QED BY <1>1, <1>2, FtpfsAssumption DEF Fits, Nobody, Early

\* The target is opened.
LEMMA FitOpen ==
  ASSUME NEW r, Shape(r), NEW sr, NEW ds, NEW d2, NEW g, NEW p, NEW q, NEW b, Over(6, r),
         AllFit(r, sr, ds, g, p, q, b), ds # "temp"
  PROVE  AllFit(r, sr, d2, g, p, q, b)
<1> SUFFICES ASSUME NEW i \in 1..Len(r) PROVE Fits(r[i], sr, d2, g, p, q, b)
  BY DEF AllFit
<1>1. Fits(r[i], sr, ds, g, p, q, b)
  BY DEF AllFit
<1>2. /\ r[i].call # "get_super" /\ ~ IsStop(r[i]) /\ ~ IsOn(r[i])
      /\ ~ (r[i].call \in Connects /\ r[i].arg.owner = "src") /\ r[i].call # "ftpfs_linear_start"
      /\ r[i].call \notin Early
  BY Under
<1> QED BY <1>1, <1>2 DEF Fits, Early

\* The server takes a block of the target, or another is sent to it.
LEMMA FitPour ==
  ASSUME NEW r, NEW sr, NEW ds, NEW g, NEW p, NEW q \in Nat, NEW q2 \in Nat, NEW b, Shape(r),
         AllFit(r, sr, ds, g, p, q, b), q2 <= q \/ Over(9, r)
  PROVE  AllFit(r, sr, ds, g, p, q2, b)
<1> SUFFICES ASSUME NEW i \in 1..Len(r) PROVE Fits(r[i], sr, ds, g, p, q2, b)
  BY DEF AllFit
<1>1. Fits(r[i], sr, ds, g, p, q, b) /\ CallOK(r[i])
  BY DEF AllFit, Shape
<1>2. Over(9, r) => r[i].call # "file_store"
  BY Under
<1>3. r[i].call = "file_store" => r[i].arg \in Nat
  BY <1>1 DEF CallOK
<1> QED BY <1>1, <1>2, <1>3 DEF Fits

\* What a stack says of its first call and of the rest.
LEMMA Splits ==
  ASSUME NEW t, NEW sr, NEW ds, NEW g, NEW p, NEW q, NEW b, Shape(t), AllFit(t, sr, ds, g, p, q, b), t # <<>>
  PROVE  /\ IsStack(t) /\ t = On(First(t), Rest(t)) /\ Head(t) = First(t) /\ Tail(t) = Rest(t)
         /\ IsStack(Rest(t)) /\ Shape(Rest(t))
         /\ CallOK(First(t)) /\ Bel(First(t), Rest(t)) /\ Over(Level(First(t)), Rest(t))
         /\ Fits(First(t), sr, ds, g, p, q, b) /\ AllFit(Rest(t), sr, ds, g, p, q, b)
         /\ Bottom(t) = IF Rest(t) = <<>> THEN First(t) ELSE Bottom(Rest(t))
<1>1. IsStack(t)
  BY DEF Shape
<1>2. t = On(First(t), Rest(t)) /\ IsStack(Rest(t)) /\ Head(t) = First(t) /\ Tail(t) = Rest(t)
  BY <1>1, StackSplit
<1> DEFINE c == First(t)
           r == Rest(t)
<1> HIDE DEF c, r
<1>3. t = On(c, r) /\ IsStack(r)
  BY <1>2 DEF c, r
<1>4. Sits(c, r) /\ Shape(r)
  BY <1>3, OnShape
<1>5. Fits(c, sr, ds, g, p, q, b) /\ AllFit(r, sr, ds, g, p, q, b)
  BY <1>3, OnFit
<1>6. Bottom(t) = IF r = <<>> THEN c ELSE Bottom(r)
  BY <1>3, OnParts
<1> QED BY <1>1, <1>2, <1>4, <1>5, <1>6 DEF Sits, c, r

\* A stack whose calls fit the copy.
Standing(t, sr, ds, g, p, q) == Shape(t) /\ AllFit(t, sr, ds, g, p, q, Bottom(t))

\* The server is where the call on top expects it, if it is there at all.
TopAt(c, d, s, busy, dir, ok, ans, isb, cw) ==
  s.up => /\ Expected(c, d, s, busy, dir, ok, ans) /\ TypeKnown(c, d, s, isb, ans)
          /\ DirKnown(c, d, s, cw, ans) /\ ReadyKnown(c, d, s, ans)

\* The first call is taken off.
LEMMA Put0 ==
  ASSUME NEW t, NEW sr, NEW ds, NEW g, NEW p, NEW q, Standing(t, sr, ds, g, p, q), t # <<>>
  PROVE  Standing(Rest(t), sr, ds, g, p, q)
<1>1. Shape(t) /\ AllFit(t, sr, ds, g, p, q, Bottom(t))
  BY DEF Standing
<1>2. Shape(Rest(t)) /\ AllFit(Rest(t), sr, ds, g, p, q, Bottom(t))
  BY <1>1, Splits
<1>3. CASE Rest(t) = <<>>
  BY <1>2, <1>3 DEF Standing, AllFit
<1>4. CASE Rest(t) # <<>>
  <2>1. Bottom(Rest(t)) = Bottom(t)
    BY <1>1, <1>4, Splits
  <2> QED BY <2>1, <1>2 DEF Standing
<1> QED BY <1>3, <1>4

\* A call is put on a stack.
LEMMA Put1 ==
  ASSUME NEW r, NEW sr, NEW ds, NEW g, NEW p, NEW q, Standing(r, sr, ds, g, p, q), NEW x,
         CallOK(x), Bel(x, r), Over(Level(x), r),
         Fits(x, sr, ds, g, p, q, IF r = <<>> THEN x ELSE Bottom(r))
  PROVE  /\ Standing(On(x, r), sr, ds, g, p, q)
         /\ First(On(x, r)) = x /\ Rest(On(x, r)) = r /\ Bottom(On(x, r)) = IF r = <<>> THEN x ELSE Bottom(r)
         /\ HasStart(On(x, r)) <=> x.call = "ftpfs_linear_start" \/ HasStart(r)
<1>1. Shape(r) /\ IsStack(r) /\ AllFit(r, sr, ds, g, p, q, Bottom(r))
  BY DEF Standing, Shape
<1>2. Shape(On(x, r))
  BY <1>1, OnShape DEF Sits
<1>3. First(On(x, r)) = x /\ Rest(On(x, r)) = r /\ Bottom(On(x, r)) = IF r = <<>> THEN x ELSE Bottom(r)
  BY <1>1, OnParts
<1>4. AllFit(r, sr, ds, g, p, q, IF r = <<>> THEN x ELSE Bottom(r))
  <2>1. CASE r = <<>>
    <3>1. Len(r) = 0
      BY <2>1
    <3> QED BY <3>1 DEF AllFit
  <2>2. CASE r # <<>>
    BY <2>2, <1>1
  <2> QED BY <2>1, <2>2
<1>5. AllFit(On(x, r), sr, ds, g, p, q, IF r = <<>> THEN x ELSE Bottom(r))
  BY <1>1, <1>4, OnFit
<1>6. AllFit(On(x, r), sr, ds, g, p, q, Bottom(On(x, r)))
  BY <1>3, <1>5
<1>7. HasStart(On(x, r)) <=> x.call = "ftpfs_linear_start" \/ HasStart(r)
  BY <1>1, OnStart
<1> QED BY <1>2, <1>3, <1>6, <1>7 DEF Standing

\* Two calls are put on a stack.
LEMMA Put2 ==
  ASSUME NEW r, NEW sr, NEW ds, NEW g, NEW p, NEW q, Standing(r, sr, ds, g, p, q), NEW x, NEW y,
         CallOK(y), Bel(y, r), Over(Level(y), r),
         Fits(y, sr, ds, g, p, q, IF r = <<>> THEN y ELSE Bottom(r)),
         CallOK(x), Below(x, y), Level(x) = 20,
         Fits(x, sr, ds, g, p, q, IF r = <<>> THEN y ELSE Bottom(r))
  PROVE  /\ Standing(On(x, On(y, r)), sr, ds, g, p, q)
         /\ First(On(x, On(y, r))) = x /\ Rest(On(x, On(y, r))) = On(y, r) /\ First(On(y, r)) = y
         /\ Bottom(On(x, On(y, r))) = IF r = <<>> THEN y ELSE Bottom(r)
         /\ HasStart(On(x, On(y, r))) <=> x.call = "ftpfs_linear_start" \/ y.call = "ftpfs_linear_start" \/ HasStart(r)
<1> DEFINE u == On(y, r)
<1>1. /\ Standing(u, sr, ds, g, p, q)
      /\ First(u) = y /\ Bottom(u) = IF r = <<>> THEN y ELSE Bottom(r)
      /\ HasStart(u) <=> y.call = "ftpfs_linear_start" \/ HasStart(r)
  BY Put1
<1>2. u # <<>>
  BY StackOn DEF Standing, Shape
<1> HIDE DEF u
<1>3. Bel(x, u) /\ Over(Level(x), u)
  BY <1>1, <1>2 DEF Bel, Over, Ordered
<1>4. Fits(x, sr, ds, g, p, q, IF u = <<>> THEN x ELSE Bottom(u))
  BY <1>1, <1>2
<1>5. /\ Standing(On(x, u), sr, ds, g, p, q)
      /\ First(On(x, u)) = x /\ Rest(On(x, u)) = u /\ Bottom(On(x, u)) = IF u = <<>> THEN x ELSE Bottom(u)
      /\ HasStart(On(x, u)) <=> x.call = "ftpfs_linear_start" \/ HasStart(u)
  BY <1>1, <1>3, <1>4, Put1
<1> QED BY <1>1, <1>2, <1>5 DEF u

\* StackOK, in the words of the lemmas.
LEMMA StackSame ==
  StackOK <=> Standing(todo, src, dst, got, put, poured) /\ Ends(todo, src, dst, got, put, direct, okay, super)
  BY DEF StackOK, Standing

\* TopOK, in the words of the lemmas.
LEMMA TopSame ==
  TopOK <=> TopAt(First(todo), First(Rest(todo)), server, ctl_connection_busy, direct, okay, answer, isbinary, cwdir)
  BY DEF TopOK, TopAt

\* What is known when a call is on top.
LEMMA AtTop ==
  ASSUME NEW name, FtpInv, At(name)
  PROVE  /\ Kinds /\ harm = None /\ IsStack(todo) /\ todo # <<>> /\ First(todo).call = name /\ Arg = First(todo).arg
         /\ Standing(todo, src, dst, got, put, poured) /\ Ends(todo, src, dst, got, put, direct, okay, super)
         /\ TopAt(First(todo), First(Rest(todo)), server, ctl_connection_busy, direct, okay, answer, isbinary, cwdir)
         /\ FlowKnown(First(todo), First(Rest(todo)), server, data, okay)
         /\ Standing(Rest(todo), src, dst, got, put, poured)
         /\ CallOK(First(todo)) /\ Bel(First(todo), Rest(todo)) /\ Over(Level(First(todo)), Rest(todo))
         /\ Fits(First(todo), src, dst, got, put, poured, Bottom(todo))
         /\ Bottom(todo) = IF Rest(todo) = <<>> THEN First(todo) ELSE Bottom(Rest(todo))
         /\ HasStart(todo) <=> First(todo).call = "ftpfs_linear_start" \/ HasStart(Rest(todo))
<1>1. Kinds /\ harm = None /\ todo # <<>> /\ Head(todo).call = name /\ Arg = Head(todo).arg
  BY DEF FtpInv, At, Arg
<1>2. StackOK /\ TopOK /\ FlowKnown(First(todo), First(Rest(todo)), server, data, okay)
  BY <1>1 DEF FtpInv
<1>3. Standing(todo, src, dst, got, put, poured) /\ Ends(todo, src, dst, got, put, direct, okay, super)
  BY <1>2, StackSame
<1>4. Shape(todo) /\ AllFit(todo, src, dst, got, put, poured, Bottom(todo)) /\ IsStack(todo)
  BY <1>3 DEF Standing, Shape
<1>5. /\ todo = On(First(todo), Rest(todo)) /\ Head(todo) = First(todo)
      /\ IsStack(Rest(todo)) /\ Shape(Rest(todo))
      /\ CallOK(First(todo)) /\ Bel(First(todo), Rest(todo)) /\ Over(Level(First(todo)), Rest(todo))
      /\ Fits(First(todo), src, dst, got, put, poured, Bottom(todo))
      /\ Bottom(todo) = IF Rest(todo) = <<>> THEN First(todo) ELSE Bottom(Rest(todo))
  BY <1>1, <1>4, Splits
<1>6. HasStart(todo) <=> First(todo).call = "ftpfs_linear_start" \/ HasStart(Rest(todo))
  <2> DEFINE c == First(todo)
             r == Rest(todo)
  <2> HIDE DEF c, r
  <2>1. todo = On(c, r) /\ IsStack(r)
    BY <1>5 DEF c, r
  <2>2. HasStart(todo) <=> c.call = "ftpfs_linear_start" \/ HasStart(r)
    BY <2>1, OnStart
  <2> QED BY <2>2 DEF c, r
<1>7. Standing(Rest(todo), src, dst, got, put, poured)
  BY <1>1, <1>3, Put0
<1>8. TopAt(First(todo), First(Rest(todo)), server, ctl_connection_busy, direct, okay, answer, isbinary, cwdir)
  BY <1>2, TopSame
<1> QED BY <1>1, <1>2, <1>3, <1>4, <1>5, <1>6, <1>7, <1>8

\* What has to be shown of a step.
LEMMA Shown ==
  ASSUME Kinds', harm' # None \/
           (/\ Standing(todo, src, dst, got, put, poured)' /\ Ends(todo, src, dst, got, put, direct, okay, super)'
            /\ TopAt(First(todo), First(Rest(todo)), server, ctl_connection_busy, direct, okay, answer, isbinary, cwdir)'
            /\ FlowKnown(First(todo), First(Rest(todo)), server, data, okay)')
  PROVE  FtpInv'
<1>1. harm' = None => StackOK' /\ TopOK'
  BY DEF StackOK, Standing, TopOK, TopAt
<1> QED BY <1>1 DEF FtpInv

\* What is in a request.
LEMMA Requested ==
  ASSUME NEW r \in Requests
  PROVE  /\ r.owner \in Owner /\ r.binary \in BOOLEAN /\ r.cmd = CmdOf(r.owner) /\ r.arg \in Dirs \cup {None}
<1>1. CASE r \in {Request("list", "LIST", d, FALSE) : d \in Dirs \cup {None}}
  <2>1. PICK d \in Dirs \cup {None} : r = Request("list", "LIST", d, FALSE)
    BY <1>1
  <2>2. r.owner = "list" /\ r.cmd = "LIST" /\ r.arg = d /\ r.binary = FALSE
    BY <2>1 DEF Request
  <2>3. r.binary \in BOOLEAN
    BY <2>2
  <2>4. r.owner \in Owner /\ r.cmd = CmdOf(r.owner) /\ r.arg \in Dirs \cup {None}
    BY <2>2 DEF Owner, CmdOf
  <2> QED BY <2>3, <2>4
<1>2. CASE r \in {Request("src", "RETR", None, TRUE), Request("dst", "STOR", None, TRUE)}
  <2>1. r.binary = TRUE /\ r.arg = None /\ ((r.owner = "src" /\ r.cmd = "RETR") \/ (r.owner = "dst" /\ r.cmd = "STOR"))
    BY <1>2 DEF Request
  <2>2. r.binary \in BOOLEAN
    BY <2>1
  <2>3. r.owner \in Owner /\ r.cmd = CmdOf(r.owner) /\ r.arg \in Dirs \cup {None}
    BY <2>1 DEF Owner, CmdOf
  <2> QED BY <2>2, <2>3
<1> QED BY <1>1, <1>2 DEF Requests

\* A step that leaves the server, the data and the copy alone.
LEMMA KindsKeep ==
  ASSUME Kinds, UNCHANGED <<super, ctl_connection_busy, copyVars, server, data, stored>>,
         harm' \in {None, "astray", "crashed"}, okay' \in BOOLEAN, use_passive_connection' \in BOOLEAN,
         strict' \in {"auto", "strict", "daring"}, isbinary' \in BOOLEAN \cup {None}, super = None => isbinary' = None,
         cwdir' \in Dirs \cup {None, "home"}, lines' \in Dirs \cup {None, "home"}, want_stale' \in BOOLEAN,
         saved' \subseteq Dirs, listing' \in [Dirs -> Dirs \cup {None, "home"}]
  PROVE  Kinds'
<1>1. ServerOK' /\ DataOK' /\ FlowOK'
  BY DEF Kinds, ServerOK, DataOK, FlowOK, copyVars
<1>2. CopyOK'
  BY DEF Kinds, CopyOK, copyVars
<1>3. SuperOK'
  BY DEF Kinds, SuperOK, copyVars
<1> QED BY <1>1, <1>2, <1>3 DEF Kinds

\* The call on top is replaced, and the bottom stays what it was.
LEMMA EndsMove ==
  ASSUME NEW t, NEW u, NEW sr, NEW ds, NEW g, NEW p, NEW dir, NEW ok, NEW ok2, NEW sup,
         Ends(t, sr, ds, g, p, dir, ok, sup), t # <<>>,
         First(t).call \notin {"or", "get_super", "copy", "close_src", "close_dst", "abort"},
         HasStart(t) => HasStart(u),
         \/ Bottom(u) = Bottom(t)
         \/ Bottom(u).call \notin Copied /\ Bottom(t).call \notin Copied \cup {"over"}
  PROVE  Ends(u, sr, ds, g, p, dir, ok2, sup) /\ ~ dir /\ sup # None
<1>1. sup # None /\ ~ dir
  BY DEF Ends, IsStop
<1>2. CASE Bottom(u) = Bottom(t)
  BY <1>1, <1>2 DEF Ends
<1>3. CASE Bottom(u).call \notin Copied /\ Bottom(t).call \notin Copied \cup {"over"}
  BY <1>1, <1>3 DEF Ends, Copied
<1> QED BY <1>1, <1>2, <1>3

\* The calls whose return has more to show than the others'.
Steady == {"or", "get_super", "copy", "close_src", "close_dst", "abort", "ftpfs_linear_start"}

\* The call on top returns.
LEMMA Go0 ==
  ASSUME NEW name, FtpInv, At(name), name \notin Steady,
         todo' = Rest(todo), UNCHANGED <<src, dst, got, put, poured, direct, super>>,
         Rest(todo) = <<>> => name \notin Copied \cup {"over"}
  PROVE  /\ Standing(todo, src, dst, got, put, poured)' /\ Ends(todo, src, dst, got, put, direct, okay, super)'
         /\ ~ direct /\ super # None
<1> DEFINE r == Rest(todo)
<1>1. /\ First(todo).call = name /\ todo # <<>>
      /\ Ends(todo, src, dst, got, put, direct, okay, super)
      /\ Standing(r, src, dst, got, put, poured)
      /\ Bottom(todo) = IF r = <<>> THEN First(todo) ELSE Bottom(r)
      /\ HasStart(todo) <=> First(todo).call = "ftpfs_linear_start" \/ HasStart(r)
  BY AtTop
<1>2. r = <<>> => Bottom(r).call \notin Copied
  BY DEF Bottom, Do, Call, Copied
<1> HIDE DEF r
<1>3. Ends(r, src, dst, got, put, direct, okay', super) /\ ~ direct /\ super # None
  BY <1>1, <1>2, EndsMove DEF Steady, r
<1> QED BY <1>1, <1>3 DEF r

\* It goes on with another.
LEMMA Go1 ==
  ASSUME NEW name, FtpInv, At(name), name \notin Steady, NEW x,
         todo' = On(x, Rest(todo)), UNCHANGED <<src, dst, got, put, poured, direct, super>>,
         CallOK(x), Bel(x, Rest(todo)), Level(x) = 20 \/ Level(x) = Level(First(todo)),
         Fits(x, src, dst, got, put, poured, IF Rest(todo) = <<>> THEN x ELSE Bottom(todo)),
         Rest(todo) = <<>> => x.call \notin Copied /\ name \notin Copied \cup {"over"}
  PROVE  /\ Standing(todo, src, dst, got, put, poured)' /\ Ends(todo, src, dst, got, put, direct, okay, super)'
         /\ First(todo') = x /\ Rest(todo') = Rest(todo)
         /\ ~ direct /\ super # None
<1> DEFINE r == Rest(todo)
           u == On(x, r)
<1>1. /\ First(todo).call = name /\ todo # <<>>
      /\ Ends(todo, src, dst, got, put, direct, okay, super)
      /\ Standing(r, src, dst, got, put, poured)
      /\ Bottom(todo) = IF r = <<>> THEN First(todo) ELSE Bottom(r)
      /\ HasStart(todo) <=> First(todo).call = "ftpfs_linear_start" \/ HasStart(r)
      /\ Over(Level(First(todo)), r)
  BY AtTop
<1>2. Over(Level(x), r)
  BY <1>1 DEF Over, Ordered
<1>3. Fits(x, src, dst, got, put, poured, IF r = <<>> THEN x ELSE Bottom(r))
  BY <1>1
<1>4. /\ Standing(u, src, dst, got, put, poured)
      /\ First(u) = x /\ Rest(u) = r /\ Bottom(u) = IF r = <<>> THEN x ELSE Bottom(r)
      /\ HasStart(u) <=> x.call = "ftpfs_linear_start" \/ HasStart(r)
  BY <1>1, <1>2, <1>3, Put1
<1>5. r = <<>> => x.call \notin Copied /\ name \notin Copied \cup {"over"}
  OBVIOUS
<1>6. todo' = u
  OBVIOUS
<1> HIDE DEF r, u
<1>7. Ends(u, src, dst, got, put, direct, okay', super) /\ ~ direct /\ super # None
  BY <1>1, <1>4, <1>5, EndsMove DEF Steady
<1> QED BY <1>4, <1>6, <1>7 DEF r

\* It calls another.
LEMMA Go2 ==
  ASSUME NEW name, FtpInv, At(name), name \notin Steady, NEW x, NEW y,
         todo' = On(x, On(y, Rest(todo))), UNCHANGED <<src, dst, got, put, poured, direct, super>>,
         CallOK(x), CallOK(y), Below(x, y), Level(x) = 20,
         Bel(y, Rest(todo)), Level(y) = 20 \/ Level(y) = Level(First(todo)),
         Fits(x, src, dst, got, put, poured, IF Rest(todo) = <<>> THEN y ELSE Bottom(todo)),
         Fits(y, src, dst, got, put, poured, IF Rest(todo) = <<>> THEN y ELSE Bottom(todo)),
         Rest(todo) = <<>> => y.call \notin Copied /\ name \notin Copied \cup {"over"}
  PROVE  /\ Standing(todo, src, dst, got, put, poured)' /\ Ends(todo, src, dst, got, put, direct, okay, super)'
         /\ First(todo') = x /\ First(Rest(todo')) = y
         /\ ~ direct /\ super # None
<1> DEFINE r == Rest(todo)
           u == On(x, On(y, r))
<1>1. /\ First(todo).call = name /\ todo # <<>>
      /\ Ends(todo, src, dst, got, put, direct, okay, super)
      /\ Standing(r, src, dst, got, put, poured)
      /\ Bottom(todo) = IF r = <<>> THEN First(todo) ELSE Bottom(r)
      /\ HasStart(todo) <=> First(todo).call = "ftpfs_linear_start" \/ HasStart(r)
      /\ Over(Level(First(todo)), r)
  BY AtTop
<1>2. Over(Level(y), r)
  BY <1>1 DEF Over, Ordered
<1>3. /\ Fits(x, src, dst, got, put, poured, IF r = <<>> THEN y ELSE Bottom(r))
      /\ Fits(y, src, dst, got, put, poured, IF r = <<>> THEN y ELSE Bottom(r))
  BY <1>1
<1>4. /\ Standing(u, src, dst, got, put, poured)
      /\ First(u) = x /\ Rest(u) = On(y, r) /\ First(On(y, r)) = y
      /\ Bottom(u) = IF r = <<>> THEN y ELSE Bottom(r)
      /\ HasStart(u) <=> x.call = "ftpfs_linear_start" \/ y.call = "ftpfs_linear_start" \/ HasStart(r)
  BY <1>1, <1>2, <1>3, Put2
<1>5. r = <<>> => y.call \notin Copied /\ name \notin Copied \cup {"over"}
  OBVIOUS
<1>6. todo' = u
  OBVIOUS
<1> HIDE DEF r, u
<1>7. Ends(u, src, dst, got, put, direct, okay', super) /\ ~ direct /\ super # None
  BY <1>1, <1>4, <1>5, EndsMove DEF Steady
<1> QED BY <1>4, <1>6, <1>7

-----------------------------------------------------------------------------
(* What is expected of the server *)

\* A server that has nothing to do or to say is at rest, and owes nothing more.
LEMMA QuietRests ==
  ASSUME NEW s, NEW busy, NEW dir, Quiet(s)
  PROVE  Rests(s, busy, dir) /\ \A cmd : Owes(s, cmd)
  BY DEF Rests, Owes, Quiet

\* A call that does not wait for anything.
LEMMA PlainTop ==
  ASSUME NEW c, NEW d, NEW s, NEW busy, NEW dir, NEW ok, NEW ans, NEW isb, NEW cw,
         c.call \notin Special, s.up => Rests(s, busy, dir) /\ KnownType(s, isb) /\ KnownDir(s, cw)
  PROVE  TopAt(c, d, s, busy, dir, ok, ans, isb, cw)
  BY DEF TopAt, Expected, TypeKnown, DirKnown, ReadyKnown, Special, Calm

\* A call after one that has failed.
LEMMA FalseTop ==
  ASSUME NEW c, NEW d, NEW s, NEW busy, NEW dir, NEW ans, NEW isb, NEW cw,
         c.call \notin Special \/ c.call \in {"ftpfs_linear_start", "listing", "stor_opened", "file_store"},
         s.up => Rests(s, busy, dir) /\ KnownType(s, isb) /\ KnownDir(s, cw)
  PROVE  TopAt(c, d, s, busy, dir, FALSE, ans, isb, cw)
  BY DEF TopAt, Expected, TypeKnown, DirKnown, ReadyKnown, Special, Calm

\* A command to be sent.
LEMMA CommandTop ==
  ASSUME NEW c, NEW d, NEW s, NEW busy, NEW dir, NEW ok, NEW ans, NEW isb, NEW cw,
         c.call = "command", s.up => /\ IF c.arg.name = "ABOR" THEN Owes(s, "RETR") ELSE Rests(s, busy, dir)
                                     /\ KnownType(s, isb) /\ KnownDir(s, cw)
                                     /\ d.call \in {"typed", "started"} => s.ready \in {None, d.arg.owner}
  PROVE  TopAt(c, d, s, busy, dir, ok, ans, isb, cw)
  BY DEF TopAt, Expected, TypeKnown, DirKnown, ReadyKnown, Special, Calm

\* A reply to be read to the end of a transfer.
LEMMA ReplyTop ==
  ASSUME NEW c, NEW d, NEW s, NEW busy, NEW dir, NEW ok, NEW ans, NEW isb, NEW cw,
         c.call = "get_reply", d.call \notin {"typed", "cwd_done", "port", "started"},
         s.up => Reading(d, s) /\ KnownType(s, isb) /\ KnownDir(s, cw)
  PROVE  TopAt(c, d, s, busy, dir, ok, ans, isb, cw)
  BY DEF TopAt, Expected, TypeKnown, DirKnown, ReadyKnown, Special, Calm

\* What is on top says what is known of the session.
LEMMA TopKnown ==
  ASSUME NEW c, NEW d, NEW s, NEW busy, NEW dir, NEW ok, NEW ans, NEW isb, NEW cw, s.up,
         TopAt(c, d, s, busy, dir, ok, ans, isb, cw)
  PROVE  /\ c.call \notin {"get_reply", "typed"} => KnownType(s, isb)
         /\ c.call \notin {"get_reply", "cwd_done"} => KnownDir(s, cw)
         /\ c.call \notin Special => Rests(s, busy, dir)
         /\ c.call \in Calm => Quiet(s)
  BY DEF TopAt, Expected, TypeKnown, DirKnown

\* A call that says nothing of what is in the data connections.
LEMMA FlowPlain ==
  ASSUME NEW c, NEW d, NEW s, NEW da, NEW ok,
         \/ c.call \notin {"command", "get_reply", "typed", "started", "ftpfs_linear_start", "stor_opened"}
         \/ c.call \in {"command", "get_reply"} /\ d.call \notin {"typed", "started"}
         \/ c.call \in {"ftpfs_linear_start", "stor_opened"} /\ ~ ok
  PROVE  FlowKnown(c, d, s, da, ok)
  BY DEF FlowKnown

-----------------------------------------------------------------------------
(* Data connections *)

\* A call that opens a data connection belongs to the one below it.
LEMMA AtConnects ==
  ASSUME NEW name \in Connects, FtpInv, At(name)
  PROVE  /\ Rest(todo) # <<>> /\ Arg = First(todo).arg /\ Arg \in Requests /\ First(todo).call = name
         /\ Asker(Arg, First(Rest(todo)))
         /\ First(Rest(todo)).call \in {"ftpfs_linear_start", "listing", "stor_opened", "file_store"}
<1> DEFINE c == First(todo)
           r == Rest(todo)
           d == First(r)
<1>1. CallOK(c) /\ Bel(c, r) /\ c.call = name /\ Arg = c.arg
  BY AtTop
<1> HIDE DEF c, r, d
<1>2. r # <<>>
  BY <1>1 DEF Bel, MayEnd, Looks, Copied, Connects
<1>3. c.arg \in Requests
  BY <1>1 DEF CallOK
<1>4. Below(c, d)
  BY <1>1, <1>2 DEF Bel, d
<1>5. Asker(c.arg, d)
  BY <1>1, <1>4 DEF Below
<1>6. d.call \in {"ftpfs_linear_start", "listing", "stor_opened", "file_store"}
  BY <1>3, <1>5, Requested DEF Asker, Owner
<1> QED BY <1>1, <1>2, <1>3, <1>5, <1>6 DEF c, r, d

\* It goes on with a command.
LEMMA GoConnect ==
  ASSUME NEW name \in Connects, FtpInv, At(name), NEW x, NEW y,
         todo' = On(x, On(y, Rest(todo))), UNCHANGED <<src, dst, got, put, poured, direct, super>>,
         x.call = "command", y.call \in Connects, y.arg = Arg, Waiter(x.arg, y)
  PROVE  /\ Standing(todo, src, dst, got, put, poured)' /\ Ends(todo, src, dst, got, put, direct, okay, super)'
         /\ First(todo') = x /\ First(Rest(todo')) = y
         /\ ~ direct /\ super # None
<1> DEFINE c == First(todo)
           r == Rest(todo)
           d == First(r)
           b == Bottom(todo)
<1>1. CallOK(c) /\ Bel(c, r) /\ c.call = name /\ Arg = c.arg /\ Fits(c, src, dst, got, put, poured, b)
  BY AtTop
<1>2. r # <<>> /\ Asker(Arg, d) /\ Arg \in Requests
  BY AtConnects
<1> HIDE DEF c, r, d, b
<1>3. CallOK(x) /\ CallOK(y)
  BY <1>1, <1>2 DEF CallOK, Connects, Looks, Copied, Switches
<1>4. Below(x, y)
  BY DEF Below, Connects, Looks, Copied, Aborted, Switches, IsOr, IsStop, IsOn, IsOff
<1>5. Bel(y, r)
  BY <1>2 DEF Bel, Below, d, Connects, Looks, Copied, Aborted, Switches, IsOr, IsStop, IsOn, IsOff
<1>6. Level(x) = 20 /\ Level(y) = 20
  BY Levels
<1>7. Fits(x, src, dst, got, put, poured, b) /\ Fits(y, src, dst, got, put, poured, b)
  BY <1>1 DEF Fits, Connects, Early, Aborted, Switches, IsOr, IsStop, IsOn
<1>8. name \notin Steady
  BY DEF Steady, Connects
<1> QED BY <1>2, <1>3, <1>4, <1>5, <1>6, <1>7, <1>8, Go2 DEF r, b

\* It fails, or has done what it was to do.
LEMMA GoConnected ==
  ASSUME NEW name \in Connects, FtpInv, At(name),
         todo' = Rest(todo), UNCHANGED <<src, dst, got, put, poured, direct, super>>
  PROVE  /\ Standing(todo, src, dst, got, put, poured)' /\ Ends(todo, src, dst, got, put, direct, okay, super)'
         /\ ~ direct /\ super # None
<1>1. Rest(todo) # <<>>
  BY AtConnects
<1>2. name \notin Steady
  BY DEF Steady, Connects
<1> QED BY <1>1, <1>2, Go0

\* Another of these calls is on top now.
LEMMA GoAgain ==
  ASSUME NEW name \in Connects, FtpInv, At(name), NEW x,
         todo' = On(x, Rest(todo)), UNCHANGED <<src, dst, got, put, poured, direct, super>>,
         x.call \in Connects, x.arg = Arg
  PROVE  /\ Standing(todo, src, dst, got, put, poured)' /\ Ends(todo, src, dst, got, put, direct, okay, super)'
         /\ First(todo') = x /\ ~ direct /\ super # None
<1> DEFINE c == First(todo)
           r == Rest(todo)
           d == First(r)
           b == Bottom(todo)
<1>1. CallOK(c) /\ Bel(c, r) /\ c.call = name /\ Arg = c.arg /\ Fits(c, src, dst, got, put, poured, b)
  BY AtTop
<1>2. r # <<>> /\ Asker(Arg, d) /\ Arg \in Requests
  BY AtConnects
<1> HIDE DEF c, r, d, b
<1>3. CallOK(x)
  BY <1>1, <1>2 DEF CallOK, Connects, Looks, Copied, Switches
<1>4. Bel(x, r)
  BY <1>2 DEF Bel, Below, d, Connects, Looks, Copied, Aborted, Switches, IsOr, IsStop, IsOn, IsOff
<1>5. Level(x) = 20
  BY Levels
<1>6. Fits(x, src, dst, got, put, poured, b)
  BY <1>1 DEF Fits, Connects, Early, Aborted, Switches, IsOr, IsStop, IsOn
<1>7. name \notin Steady
  BY DEF Steady, Connects
<1> QED BY <1>2, <1>3, <1>4, <1>5, <1>6, <1>7, Go1 DEF r, b

\* A data connection is there: the type is set if it has to be, and the transfer asked for.
LEMMA Starts1 ==
  ASSUME NEW name \in {"passive", "port"}, FtpInv, At(name), Then(Start(Arg)), Kinds',
         UNCHANGED <<src, dst, got, put, poured, direct, super, server, answer, ctl_connection_busy, cwdir,
                     isbinary, okay>>,
         server.up => Quiet(server) /\ KnownDir(server, cwdir) /\ KnownType(server, isbinary)
                      /\ server.ready \in {None, Arg.owner},
         data'[Arg.owner].client, data'[Arg.owner].flow = 0
  PROVE  FtpInv'
<1> DEFINE r == Rest(todo)
<1>1. Arg \in Requests /\ IsStack(todo) /\ todo # <<>> /\ name \in Connects
  BY AtConnects, AtTop DEF Connects
<1> HIDE DEF r
<1>2. ASSUME NEW x, NEW y, x.call = "command", y.call \in {"typed", "started"}, y.arg = Arg, Waiter(x.arg, y),
             x.arg.name # "ABOR", todo' = On(x, On(y, r))
      PROVE  FtpInv'
  <2>1. /\ Standing(todo, src, dst, got, put, poured)' /\ Ends(todo, src, dst, got, put, direct, okay, super)'
        /\ First(todo') = x /\ First(Rest(todo')) = y
        /\ ~ direct /\ super # None
    BY <1>1, <1>2, GoConnect DEF r, Connects
  <2>2. TopAt(x, y, server, ctl_connection_busy, direct, okay, answer, isbinary, cwdir)
    BY <1>2, CommandTop, QuietRests
  <2>3. FlowKnown(x, y, server', data', okay')
    BY <1>2, FtpfsAssumption DEF FlowKnown
  <2> QED BY <2>1, <2>2, <2>3, Shown
<1>3. CASE isbinary # Arg.binary
  <2> DEFINE x == Ask("TYPE", Arg.binary)
             y == Call("typed", Arg)
  <2>1. x.call = "command" /\ x.arg = Command("TYPE", Arg.binary) /\ y.call = "typed" /\ y.arg = Arg
    BY DEF Ask, Call, Command
  <2>2. Then(<<x, y>>)
    BY <1>3 DEF Start
  <2> HIDE DEF x, y
  <2>3. todo' = On(x, On(y, r))
    BY <1>1, <2>2, Thens DEF r
  <2>4. Waiter(x.arg, y) /\ x.arg.name # "ABOR"
    BY <2>1 DEF Waiter, Command
  <2> QED BY <1>2, <2>1, <2>3, <2>4
<1>4. CASE isbinary = Arg.binary
  <2> DEFINE x == Ask(Arg.cmd, Arg.arg)
             y == Call("started", Arg)
  <2>1. x.call = "command" /\ x.arg = Command(Arg.cmd, Arg.arg) /\ y.call = "started" /\ y.arg = Arg
    BY DEF Ask, Call, Command
  <2>2. Then(<<x, y>>)
    BY <1>4 DEF Start
  <2> HIDE DEF x, y
  <2>3. todo' = On(x, On(y, r))
    BY <1>1, <2>2, Thens DEF r
  <2>4. Waiter(x.arg, y) /\ x.arg.name # "ABOR"
    BY <1>1, <2>1, Requested DEF Waiter, Command, CmdOf
  <2> QED BY <1>2, <2>1, <2>3, <2>4
<1> QED BY <1>3, <1>4

\* A call that opens a data connection has failed.
LEMMA Fails1 ==
  ASSUME NEW name \in Connects, FtpInv, At(name), Return(FALSE), Kinds',
         UNCHANGED <<src, dst, got, put, poured, direct, super, server, answer, ctl_connection_busy, cwdir>>,
         server.up => Rests(server, ctl_connection_busy, direct) /\ KnownDir(server, cwdir)
                      /\ KnownType(server, isbinary')
  PROVE  FtpInv'
<1> DEFINE r == Rest(todo)
           d == First(r)
<1>1. IsStack(todo) /\ todo # <<>> /\ d.call \in {"ftpfs_linear_start", "listing", "stor_opened", "file_store"}
  BY AtConnects, AtTop
<1>2. todo' = r /\ okay' = FALSE
  BY <1>1, Thens DEF Return
<1>3. /\ Standing(todo, src, dst, got, put, poured)' /\ Ends(todo, src, dst, got, put, direct, okay, super)'
  BY <1>2, GoConnected
<1>4. TopAt(d, First(Rest(r)), server, ctl_connection_busy, direct, FALSE, answer, isbinary', cwdir)
  BY <1>1, FalseTop
<1>5. FlowKnown(d, First(Rest(r)), server, data', FALSE)
  BY <1>1, FlowPlain
<1> QED BY <1>2, <1>3, <1>4, <1>5, Shown

\* ftpfs_changetype remembers the type that the server has agreed to.
LEMMA Typed == FtpInv /\ typed => FtpInv'
<1> SUFFICES ASSUME FtpInv, typed PROVE FtpInv'
  OBVIOUS
<1> DEFINE c == First(todo)
           r == Rest(todo)
           d == First(r)
<1>1. At("typed")
  BY DEF typed
<1>2. /\ Kinds /\ harm = None /\ IsStack(todo) /\ todo # <<>> /\ c.call = "typed" /\ Arg = c.arg
      /\ Ends(todo, src, dst, got, put, direct, okay, super)
      /\ TopAt(c, d, server, ctl_connection_busy, direct, okay, answer, isbinary, cwdir)
      /\ FlowKnown(c, d, server, data, okay)
  BY <1>1, AtTop
<1> HIDE DEF c, r, d
<1>3. Arg \in Requests
  BY <1>1, AtConnects DEF Connects
<1>4. Kinds'
  <2>1. Arg.binary \in BOOLEAN
    BY <1>3, Requested
  <2>2. super # None
    BY <1>2 DEF Ends, IsStop, c
  <2>3. /\ UNCHANGED <<super, ctl_connection_busy, copyVars, server, data, stored>>
        /\ harm' \in {None, "astray", "crashed"} /\ okay' \in BOOLEAN /\ use_passive_connection' \in BOOLEAN
        /\ strict' \in {"auto", "strict", "daring"} /\ isbinary' \in BOOLEAN \cup {None}
        /\ super = None => isbinary' = None
        /\ cwdir' \in Dirs \cup {None, "home"} /\ lines' \in Dirs \cup {None, "home"} /\ want_stale' \in BOOLEAN
        /\ saved' \subseteq Dirs /\ listing' \in [Dirs -> Dirs \cup {None, "home"}]
    BY <1>2, <2>1, <2>2 DEF typed, Quietly, Return, Kinds, SuperOK, CopyOK, cacheVars
  <2> QED BY <1>2, <2>3, KindsKeep
<1>5. UNCHANGED <<src, dst, got, put, poured, direct, super, server, data, answer, ctl_connection_busy, cwdir>>
  BY DEF typed, Quietly, copyVars, poured, direct
<1>6. server.up => Quiet(server) /\ KnownDir(server, cwdir) /\ server.ready \in {None, Arg.owner}
                   /\ IF Complete THEN server.binary = Arg.binary ELSE KnownType(server, isbinary)
  BY <1>2 DEF TopAt, Expected, Calm, TypeKnown, DirKnown, ReadyKnown, Complete
<1>7. CASE Complete
  <2> DEFINE x == Ask(Arg.cmd, Arg.arg)
             y == Call("started", Arg)
  <2>1. x.call = "command" /\ x.arg = Command(Arg.cmd, Arg.arg) /\ y.call = "started" /\ y.arg = Arg
    BY DEF Ask, Call, Command
  <2>2. todo' = On(x, On(y, r)) /\ isbinary' = Arg.binary /\ okay' = okay
    BY <1>2, <1>7, Thens DEF typed, r
  <2> HIDE DEF x, y
  <2>3. Waiter(x.arg, y) /\ x.arg.name # "ABOR"
    BY <2>1, <1>3, Requested DEF Waiter, Command, CmdOf
  <2>4. /\ Standing(todo, src, dst, got, put, poured)' /\ Ends(todo, src, dst, got, put, direct, okay, super)'
        /\ First(todo') = x /\ First(Rest(todo')) = y
        /\ ~ direct /\ super # None
    BY <1>1, <1>5, <2>1, <2>2, <2>3, GoConnect DEF Connects, r
  <2>5. TopAt(x, y, server, ctl_connection_busy, direct, okay, answer, isbinary', cwdir)
    <3>1. server.up => KnownType(server, isbinary')
      BY <1>6, <1>7, <2>2 DEF KnownType
    <3> QED BY <1>6, <2>1, <2>3, <3>1, CommandTop, QuietRests
  <2>6. FlowKnown(x, y, server, data, okay)
    BY <1>2, <2>1, FtpfsAssumption DEF FlowKnown
  <2> QED BY <1>4, <1>5, <2>2, <2>4, <2>5, <2>6, Shown
<1>8. CASE ~ Complete
  <2>1. Return(FALSE) /\ isbinary' = isbinary
    BY <1>8 DEF typed
  <2> QED BY <1>1, <1>4, <1>5, <1>6, <1>8, <2>1, Fails1, QuietRests DEF Connects
<1> QED BY <1>7, <1>8

\* A data connection is asked for, in one way or the other.
LEMMA Initconn == FtpInv /\ initconn => FtpInv'
<1> SUFFICES ASSUME FtpInv, initconn PROVE FtpInv'
  OBVIOUS
<1> DEFINE c == First(todo)
           r == Rest(todo)
           d == First(r)
<1>1. At("initconn")
  BY DEF initconn
<1>2. /\ Kinds /\ harm = None /\ IsStack(todo) /\ todo # <<>> /\ c.call = "initconn"
      /\ TopAt(c, d, server, ctl_connection_busy, direct, okay, answer, isbinary, cwdir)
  BY <1>1, AtTop
<1> HIDE DEF c, r, d
<1>3. Arg \in Requests
  BY <1>1, AtConnects DEF Connects
<1>4. Kinds'
  <2>1. /\ UNCHANGED <<super, ctl_connection_busy, copyVars, server, data, stored>>
        /\ harm' \in {None, "astray", "crashed"} /\ okay' \in BOOLEAN /\ use_passive_connection' \in BOOLEAN
        /\ strict' \in {"auto", "strict", "daring"} /\ isbinary' \in BOOLEAN \cup {None}
        /\ super = None => isbinary' = None
        /\ cwdir' \in Dirs \cup {None, "home"} /\ lines' \in Dirs \cup {None, "home"} /\ want_stale' \in BOOLEAN
        /\ saved' \subseteq Dirs /\ listing' \in [Dirs -> Dirs \cup {None, "home"}]
    BY <1>2 DEF initconn, Quietly, Return, Kinds, SuperOK, CopyOK, cacheVars, superVars
  <2> QED BY <1>2, <2>1, KindsKeep
<1>5. UNCHANGED <<src, dst, got, put, poured, direct, super, server, data, answer, ctl_connection_busy, cwdir, isbinary>>
  BY DEF initconn, Quietly, copyVars, superVars, poured, direct
<1>6. server.up => Rests(server, ctl_connection_busy, direct) /\ KnownDir(server, cwdir) /\ KnownType(server, isbinary)
  BY <1>2, TopKnown DEF Special, Calm
<1>7. CASE Return(FALSE)
  BY <1>1, <1>4, <1>5, <1>6, <1>7, Fails1 DEF Connects
<1>8. ASSUME NEW x, NEW y, NEW name \in {"PASV", "PORT"}, x.call = "command", x.arg = Command(name, Arg.owner),
             y.call = (IF name = "PASV" THEN "passive" ELSE "port"), y.arg = Arg, Then(<<x, y>>), okay' = okay
      PROVE  FtpInv'
  <2>1. todo' = On(x, On(y, r))
    BY <1>2, <1>8, Thens DEF r
  <2>2. Waiter(x.arg, y) /\ x.arg.name # "ABOR" /\ y.call \in {"passive", "port"}
    BY <1>8 DEF Waiter, Command
  <2>3. /\ Standing(todo, src, dst, got, put, poured)' /\ Ends(todo, src, dst, got, put, direct, okay, super)'
        /\ First(todo') = x /\ First(Rest(todo')) = y
        /\ ~ direct /\ super # None
    BY <1>1, <1>5, <1>8, <2>1, <2>2, GoConnect DEF Connects, r
  <2>4. TopAt(x, y, server, ctl_connection_busy, direct, okay, answer, isbinary', cwdir)
    BY <1>5, <1>6, <1>8, <2>2, CommandTop
  <2>5. FlowKnown(x, y, server, data, okay)
    BY <1>8, <2>2, FlowPlain
  <2> QED BY <1>4, <1>5, <1>8, <2>1, <2>3, <2>4, <2>5, Shown
<1>9. CASE Then(<<Ask("PASV", Arg.owner), Call("passive", Arg)>>) /\ okay' = okay
  <2> DEFINE x == Ask("PASV", Arg.owner)
             y == Call("passive", Arg)
  <2>1. x.call = "command" /\ x.arg = Command("PASV", Arg.owner) /\ y.call = "passive" /\ y.arg = Arg
    BY DEF Ask, Call, Command
  <2>2. Then(<<x, y>>) /\ okay' = okay
    BY <1>9
  <2> HIDE DEF x, y
  <2> QED BY <1>8, <2>1, <2>2
<1>10. CASE Then(<<Ask("PORT", Arg.owner), Call("port", Arg)>>) /\ okay' = okay
  <2> DEFINE x == Ask("PORT", Arg.owner)
             y == Call("port", Arg)
  <2>1. x.call = "command" /\ x.arg = Command("PORT", Arg.owner) /\ y.call = "port" /\ y.arg = Arg
    BY DEF Ask, Call, Command
  <2>2. Then(<<x, y>>) /\ okay' = okay
    BY <1>10
  <2> HIDE DEF x, y
  <2> QED BY <1>8, <2>1, <2>2
<1> QED BY <1>7, <1>9, <1>10 DEF initconn

\* Whose connection is opened says how far the copy is.
LEMMA Owned ==
  ASSUME NEW name \in Connects, FtpInv, At(name)
  PROVE  /\ Arg.owner = "dst" => dst # "direct"
         /\ Arg.owner = "src" => Nobody(src, dst, got, put)
<1> DEFINE c == First(todo)
           r == Rest(todo)
           d == First(r)
<1>1. /\ c.call = name /\ Arg = c.arg /\ Fits(c, src, dst, got, put, poured, Bottom(todo))
      /\ Standing(r, src, dst, got, put, poured)
  BY AtTop
<1>2. r # <<>> /\ Asker(Arg, d)
  BY AtConnects
<1>3. Fits(d, src, dst, got, put, poured, Bottom(r))
  BY <1>1, <1>2, Splits DEF Standing
<1> HIDE DEF c, r, d
<1>4. Arg.owner = "src" => Nobody(src, dst, got, put)
  BY <1>1 DEF Fits
<1>5. Arg.owner = "dst" => dst # "direct"
  BY <1>2, <1>3, FtpfsAssumption DEF Asker, Fits, Early
<1> QED BY <1>4, <1>5

\* No transfer goes on where nothing is expected, or no session is there.
LEMMA NoTransfer ==
  ASSUME NEW s, s.up => Quiet(s), ~ s.up => s.xfer = None
  PROVE  s.xfer = None
  BY DEF Quiet

\* A data connection is made anew.
Renews(o, new) == data' = [data EXCEPT ![o] = new]

\* A data connection that was just made is empty.
LEMMA NewPipes ==
  ASSUME NEW new, new \in {[NoData EXCEPT !.client = TRUE, !.link = "open"], [NoData EXCEPT !.client = TRUE]}
  PROVE  new \in Pipes /\ new.client /\ new.flow = 0
<1>1. NoData \in Pipes /\ NoData.flow = 0
  BY FtpfsAssumption DEF NoData, Pipes
<1>2. new \in Pipes /\ new.flow = NoData.flow
  BY <1>1 DEF Pipes
<1>3. new.client
  BY <1>1 DEF Pipes
<1> QED BY <1>1, <1>2, <1>3

\* A data connection is made while no transfer goes on.
LEMMA Renewed ==
  ASSUME NEW name \in {"passive", "port"}, FtpInv, At(name), NEW new \in Pipes, new.client, new.flow = 0,
         new.link = "none" \/ server.up, Renews(Arg.owner, new),
         UNCHANGED <<superVars, cacheVars, copyVars, server, stored, harm>>, okay' \in BOOLEAN
  PROVE  /\ Kinds' /\ UNCHANGED <<poured, direct>> /\ server.xfer = None
         /\ data'[Arg.owner].client /\ data'[Arg.owner].flow = 0
<1> DEFINE c == First(todo)
           d == First(Rest(todo))
           o == Arg.owner
<1>1. /\ Kinds /\ harm = None /\ c.call = name
      /\ TopAt(c, d, server, ctl_connection_busy, direct, okay, answer, isbinary, cwdir)
  BY AtTop
<1>2. Arg \in Requests /\ name \in Connects
  BY AtConnects DEF Connects
<1>3. o \in Owner
  BY <1>2, Requested
<1>4. server.xfer = None
  <2>1. server.up => Quiet(server)
    BY <1>1, TopKnown DEF Calm
  <2> QED BY <1>1, <2>1, NoTransfer DEF Kinds, ServerOK
<1> HIDE DEF o, c, d
<1>5. data \in [Owner -> Pipes] /\ data' = [data EXCEPT ![o] = new]
  BY <1>1 DEF Kinds, DataOK, o, Renews
<1>6. data'[o] = new /\ \A k \in Owner : k # o => data'[k] = data[k]
  BY <1>3, <1>5
<1>7. DataOK'
  <2>1. ~ server.up => \A k \in Owner : data'[k].link # "open"
    BY <1>1, <1>6 DEF Kinds, DataOK
  <2> QED BY <1>1, <1>3, <1>5, <2>1 DEF DataOK, Kinds
<1>8. UNCHANGED <<poured, direct>>
  <2>1. o = "dst" => dst # "direct"
    BY <1>2, Owned DEF o
  <2>2. UNCHANGED direct
    BY <2>1, <1>6 DEF direct, copyVars, Owner
  <2>3. poured = 0 /\ poured' = 0
    BY <1>4, FtpfsAssumption DEF poured
  <2> QED BY <2>2, <2>3
<1>9. FlowOK'
  <2>1. src = "open" => got + data'["src"].flow \in 0..Blocks
    <3>1. CASE o = "src"
      <4>1. data'["src"].flow = 0
        BY <3>1, <1>6
      <4> QED BY <4>1, <1>1, FtpfsAssumption DEF Kinds, CopyOK
    <3>2. CASE o # "src"
      <4>1. data'["src"].flow = data["src"].flow /\ data["src"].flow \in Nat
        <5>1. "src" \in Owner /\ data'["src"] = data["src"]
          BY <3>2, <1>6 DEF Owner
        <5>2. data["src"] \in Pipes
          BY <5>1, <1>5
        <5>3. data["src"].flow \in 0..Cap
          BY <5>2 DEF Pipes
        <5> QED BY <5>1, <5>3, FtpfsAssumption
      <4> QED BY <4>1, <1>1, FtpfsAssumption DEF Kinds, FlowOK, CopyOK
    <3> QED BY <3>1, <3>2
  <2>2. server'.xfer = None /\ src' = src /\ got' = got
    BY <1>4 DEF copyVars
  <2> QED BY <2>1, <2>2, FtpfsAssumption DEF FlowOK, Owner
<1>10. ServerOK' /\ SuperOK' /\ CopyOK'
  BY <1>1 DEF Kinds, ServerOK, SuperOK, CopyOK, superVars, cacheVars, copyVars
<1> QED BY <1>4, <1>6, <1>7, <1>8, <1>9, <1>10 DEF Kinds, o

\* The connection is made to the address that the server has told, or not made.
LEMMA Passive1 == FtpInv /\ ftpfs_setup_passive => FtpInv'
<1> SUFFICES ASSUME FtpInv, ftpfs_setup_passive PROVE FtpInv'
  OBVIOUS
<1> DEFINE c == First(todo)
           r == Rest(todo)
           d == First(r)
<1>1. At("passive")
  BY DEF ftpfs_setup_passive
<1>2. /\ Kinds /\ harm = None /\ IsStack(todo) /\ todo # <<>> /\ c.call = "passive"
      /\ TopAt(c, d, server, ctl_connection_busy, direct, okay, answer, isbinary, cwdir)
  BY <1>1, AtTop
<1> HIDE DEF c, r, d
<1>3. UNCHANGED <<src, dst, got, put, super, server, answer, ctl_connection_busy, cwdir, isbinary, okay>>
  BY DEF ftpfs_setup_passive, Quietly, copyVars
<1>4. server.up => Quiet(server) /\ KnownDir(server, cwdir) /\ KnownType(server, isbinary)
  BY <1>2, TopKnown DEF Calm
<1>5. CASE /\ Complete /\ answer.to = "PASV" /\ server.up /\ server.ready = Arg.owner
           /\ data' = [data EXCEPT ![Arg.owner] = [NoData EXCEPT !.client = TRUE, !.link = "open"]]
           /\ Then(Start(Arg))
           /\ UNCHANGED <<use_passive_connection, faults>>
  <2> DEFINE new == [NoData EXCEPT !.client = TRUE, !.link = "open"]
  <2>1. new \in Pipes /\ new.client /\ new.flow = 0 /\ server.up
    BY <1>5, NewPipes
  <2>2. Renews(Arg.owner, new)
    BY <1>5 DEF Renews
  <2> HIDE DEF new
  <2>3. UNCHANGED <<superVars, cacheVars, copyVars, server, stored, harm>> /\ okay' \in BOOLEAN
    BY <1>2, <1>3, <1>5 DEF ftpfs_setup_passive, Quietly, superVars, Kinds, SuperOK
  <2>4. /\ Kinds' /\ UNCHANGED <<poured, direct>> /\ data'[Arg.owner].client /\ data'[Arg.owner].flow = 0
    BY <1>1, <2>1, <2>2, <2>3, Renewed
  <2> QED BY <1>1, <1>3, <1>4, <1>5, <2>4, Starts1
<1>6. CASE /\ use_passive_connection' = FALSE
           /\ Then(<<Call("initconn", Arg)>>)
           /\ UNCHANGED data
  <2>1. Kinds'
    <3>1. /\ UNCHANGED <<super, ctl_connection_busy, copyVars, server, data, stored>>
          /\ harm' \in {None, "astray", "crashed"} /\ okay' \in BOOLEAN /\ use_passive_connection' \in BOOLEAN
          /\ strict' \in {"auto", "strict", "daring"} /\ isbinary' \in BOOLEAN \cup {None}
          /\ super = None => isbinary' = None
          /\ cwdir' \in Dirs \cup {None, "home"} /\ lines' \in Dirs \cup {None, "home"} /\ want_stale' \in BOOLEAN
          /\ saved' \subseteq Dirs /\ listing' \in [Dirs -> Dirs \cup {None, "home"}]
      BY <1>2, <1>6 DEF ftpfs_setup_passive, Quietly, Kinds, SuperOK, CopyOK, cacheVars
    <3> QED BY <1>2, <3>1, KindsKeep
  <2>2. UNCHANGED <<poured, direct>>
    BY <1>3, <1>6 DEF poured, direct, ftpfs_setup_passive, Quietly
  <2> DEFINE x == Call("initconn", Arg)
  <2>3. x.call = "initconn" /\ x.arg = Arg
    BY DEF Call
  <2>4. Then(<<x>>)
    BY <1>6
  <2> HIDE DEF x
  <2>5. todo' = On(x, r)
    BY <1>2, <2>4, Thens DEF r
  <2>6. /\ Standing(todo, src, dst, got, put, poured)' /\ Ends(todo, src, dst, got, put, direct, okay, super)'
        /\ First(todo') = x
    BY <1>1, <1>3, <2>2, <2>3, <2>5, GoAgain DEF Connects, r
  <2>7. TopAt(x, First(Rest(todo')), server, ctl_connection_busy, direct, okay, answer, isbinary, cwdir)
    BY <1>4, <2>3, PlainTop, QuietRests DEF Special, Calm
  <2>8. FlowKnown(x, First(Rest(todo')), server, data, okay)
    BY <2>3, FlowPlain
  <2> QED BY <1>3, <1>6, <2>1, <2>2, <2>6, <2>7, <2>8, Shown
<1> QED BY <1>5, <1>6 DEF ftpfs_setup_passive

\* The server has been told where to connect to.
LEMMA Port1 == FtpInv /\ port => FtpInv'
<1> SUFFICES ASSUME FtpInv, port PROVE FtpInv'
  OBVIOUS
<1> DEFINE c == First(todo)
           r == Rest(todo)
           d == First(r)
<1>1. At("port")
  BY DEF port
<1>2. /\ Kinds /\ harm = None /\ IsStack(todo) /\ todo # <<>> /\ c.call = "port" /\ c.arg = Arg
      /\ TopAt(c, d, server, ctl_connection_busy, direct, okay, answer, isbinary, cwdir)
  BY <1>1, AtTop
<1> HIDE DEF c, r, d
<1>3. UNCHANGED <<src, dst, got, put, super, server, answer, ctl_connection_busy, cwdir, isbinary>>
  BY DEF port, Quietly, copyVars, superVars
<1>4. server.up => Quiet(server) /\ KnownDir(server, cwdir) /\ KnownType(server, isbinary)
  BY <1>2, TopKnown DEF Calm
<1>5. CASE Complete
  <2> DEFINE new == [NoData EXCEPT !.client = TRUE]
  <2>1. new \in Pipes /\ new.client /\ new.flow = 0
    BY NewPipes
  <2>2. new.link = "none"
    BY DEF NoData
  <2>3. Renews(Arg.owner, new)
    BY <1>5 DEF Renews, port
  <2> HIDE DEF new
  <2>4. UNCHANGED <<superVars, cacheVars, copyVars, server, stored, harm, okay>> /\ Then(Start(Arg))
    BY <1>5 DEF port, Quietly
  <2>5. okay' \in BOOLEAN
    BY <1>2, <2>4 DEF Kinds, SuperOK
  <2>6. /\ Kinds' /\ UNCHANGED <<poured, direct>> /\ data'[Arg.owner].client /\ data'[Arg.owner].flow = 0
    BY <1>1, <2>5, <2>3, <2>4, <2>1, <2>2, Renewed
  <2>7. server.up => server.ready = Arg.owner
    BY <1>2, <1>5 DEF TopAt, ReadyKnown, Complete
  <2> QED BY <1>1, <1>3, <1>4, <2>4, <2>6, <2>7, Starts1
<1>6. CASE ~ Complete
  <2>1. Kinds'
    <3>1. /\ UNCHANGED <<super, ctl_connection_busy, copyVars, server, data, stored>>
          /\ harm' \in {None, "astray", "crashed"} /\ okay' \in BOOLEAN /\ use_passive_connection' \in BOOLEAN
          /\ strict' \in {"auto", "strict", "daring"} /\ isbinary' \in BOOLEAN \cup {None}
          /\ super = None => isbinary' = None
          /\ cwdir' \in Dirs \cup {None, "home"} /\ lines' \in Dirs \cup {None, "home"} /\ want_stale' \in BOOLEAN
          /\ saved' \subseteq Dirs /\ listing' \in [Dirs -> Dirs \cup {None, "home"}]
      BY <1>2, <1>6 DEF port, Return, Quietly, Kinds, SuperOK, CopyOK, cacheVars, superVars
    <3> QED BY <1>2, <3>1, KindsKeep
  <2>2. UNCHANGED <<poured, direct>> /\ Return(FALSE)
    BY <1>3, <1>6 DEF poured, direct, port, Quietly
  <2> QED BY <1>1, <1>3, <1>4, <2>1, <2>2, Fails1, QuietRests DEF Connects
<1> QED BY <1>5, <1>6

\* The transfer has begun, or was refused.
LEMMA Started1 == FtpInv /\ started => FtpInv'
<1> SUFFICES ASSUME FtpInv, started PROVE FtpInv'
  OBVIOUS
<1> DEFINE c == First(todo)
           r == Rest(todo)
           d == First(r)
<1>1. At("started")
  BY DEF started
<1>2. /\ Kinds /\ harm = None /\ IsStack(todo) /\ todo # <<>> /\ c.call = "started" /\ c.arg = Arg
      /\ TopAt(c, d, server, ctl_connection_busy, direct, okay, answer, isbinary, cwdir)
      /\ FlowKnown(c, d, server, data, okay)
  BY <1>1, AtTop
<1>3. Arg \in Requests /\ Asker(Arg, d) /\ d.call \in {"ftpfs_linear_start", "listing", "stor_opened", "file_store"}
  BY <1>1, AtConnects DEF Connects
<1> HIDE DEF c, r, d
<1>4. UNCHANGED <<src, dst, got, put, super, server, answer, ctl_connection_busy, cwdir, isbinary, poured, direct, data>>
  BY DEF started, Quietly, copyVars, superVars, poured, direct
<1>5. server.up => KnownDir(server, cwdir) /\ KnownType(server, isbinary)
  BY <1>2, TopKnown
<1>6. Kinds'
  <3>1. /\ UNCHANGED <<super, ctl_connection_busy, copyVars, server, data, stored>>
        /\ harm' \in {None, "astray", "crashed"} /\ okay' \in BOOLEAN /\ use_passive_connection' \in BOOLEAN
        /\ strict' \in {"auto", "strict", "daring"} /\ isbinary' \in BOOLEAN \cup {None}
        /\ super = None => isbinary' = None
        /\ cwdir' \in Dirs \cup {None, "home"} /\ lines' \in Dirs \cup {None, "home"} /\ want_stale' \in BOOLEAN
        /\ saved' \subseteq Dirs /\ listing' \in [Dirs -> Dirs \cup {None, "home"}]
    BY <1>2 DEF started, Return, Quietly, Kinds, SuperOK, CopyOK, cacheVars, superVars
  <3> QED BY <1>2, <3>1, KindsKeep
<1>7. CASE answer.class # "PRELIM" /\ Return(FALSE)
  <2>1. server.up => Rests(server, ctl_connection_busy, direct)
    BY <1>2, <1>7, QuietRests DEF TopAt, Expected
  <2> QED BY <1>1, <1>4, <1>5, <1>6, <1>7, <2>1, Fails1 DEF Connects
<1>8. CASE answer.class = "PRELIM" /\ Return(TRUE)
  <2>1. todo' = r /\ okay' = TRUE
    BY <1>2, <1>8, Thens DEF Return, r
  <2>2. /\ Standing(todo, src, dst, got, put, poured)' /\ Ends(todo, src, dst, got, put, direct, okay, super)'
    BY <1>1, <1>4, <2>1, GoConnected DEF r, Connects
  <2>3. server.up => Owes(server, Arg.cmd)
    BY <1>2, <1>8 DEF TopAt, Expected
  <2>4. /\ d.call = "ftpfs_linear_start" => Arg.cmd = "RETR" /\ Arg.owner = "src"
        /\ d.call = "listing" => Arg.cmd = "LIST"
        /\ d.call \in {"stor_opened", "file_store"} => Arg.cmd = "STOR" /\ Arg.owner = "dst"
    BY <1>3, Requested DEF Asker, CmdOf, Owner
  <2>5. TopAt(d, First(Rest(r)), server, ctl_connection_busy, direct, TRUE, answer, isbinary, cwdir)
    BY <1>3, <1>5, <2>3, <2>4 DEF TopAt, Expected, TypeKnown, DirKnown, ReadyKnown, Special, Calm
  <2>6. FlowKnown(d, First(Rest(r)), server, data, TRUE)
    BY <1>2, <1>3, <2>4 DEF FlowKnown
  <2> QED BY <1>4, <1>6, <2>1, <2>2, <2>5, <2>6, Shown DEF d
<1> QED BY <1>7, <1>8 DEF started

\* The step is one after which the model stops.
LEMMA Stopped == Kinds' /\ harm' # None => FtpInv'
  BY Shown

\* A data connection is closed.
LEMMA KindsClosed ==
  ASSUME Kinds, NEW o \in Owner, Close(o), UNCHANGED <<superVars, cacheVars, copyVars, server, stored>>,
         harm' \in {None, "astray", "crashed"}, okay' \in BOOLEAN
  PROVE  /\ Kinds' /\ UNCHANGED poured /\ (o # "dst" => UNCHANGED direct)
         /\ \A k \in Owner : data'[k].flow = data[k].flow /\ (k # o => data'[k] = data[k])
         /\ ~ data'[o].client
<1>1. data \in [Owner -> Pipes] /\ data' = [data EXCEPT ![o].client = FALSE]
  BY DEF Kinds, DataOK, Close
<1>2. data[o] \in Pipes
  BY <1>1
<1> DEFINE new == [data[o] EXCEPT !.client = FALSE]
<1>3. new \in Pipes /\ new.flow = data[o].flow /\ new.link = data[o].link
  BY <1>2 DEF Pipes
<1>4. ~ new.client
  BY <1>2 DEF Pipes
<1> HIDE DEF new
<1>5. data' = [data EXCEPT ![o] = new]
  BY <1>1 DEF new
<1>6. data' \in [Owner -> Pipes] /\ data'[o] = new /\ \A k \in Owner : k # o => data'[k] = data[k]
  BY <1>1, <1>3, <1>5
<1>7. \A k \in Owner : data'[k].flow = data[k].flow
  BY <1>3, <1>6
<1>8. data'["src"].flow = data["src"].flow /\ data'["dst"].flow = data["dst"].flow
  BY <1>7 DEF Owner
<1>9. DataOK'
  <2>1. \A k \in Owner : data'[k].link = data[k].link
    BY <1>3, <1>6
  <2> QED BY <1>6, <2>1 DEF DataOK, Kinds
<1>10. FlowOK'
  BY <1>8 DEF Kinds, FlowOK, copyVars
<1>11. ServerOK' /\ SuperOK' /\ CopyOK'
  BY DEF Kinds, ServerOK, SuperOK, CopyOK, superVars, cacheVars, copyVars
<1>12. UNCHANGED poured
  BY <1>8 DEF poured
<1>13. o # "dst" => UNCHANGED direct
  BY <1>6 DEF direct, copyVars, Owner
<1> QED BY <1>4, <1>6, <1>7, <1>9, <1>10, <1>11, <1>12, <1>13 DEF Kinds

\* The user does not wait for the connection, or the server is gone before it is made.
LEMMA GaveUp == FtpInv /\ GiveUp => FtpInv'
<1> SUFFICES ASSUME FtpInv, GiveUp PROVE FtpInv'
  OBVIOUS
<1>1. At("started") /\ Kinds
  BY DEF GiveUp, FtpInv
<1>2. Arg.owner \in Owner
  BY <1>1, AtConnects, Requested DEF Connects
<1>3. /\ Close(Arg.owner) /\ UNCHANGED <<superVars, cacheVars, copyVars, server, stored>> /\ harm' = "astray"
      /\ okay' = FALSE
  BY DEF GiveUp, Close, Quietly, Return
<1>4. okay' \in BOOLEAN
  BY <1>3
<1>5. Kinds' /\ harm' # None
  BY <1>1, <1>2, <1>3, <1>4, KindsClosed, FtpfsAssumption
<1> QED BY <1>5, Stopped

-----------------------------------------------------------------------------
(* Cached directories *)

\* The calls that look at a directory, or have failed to.
LooksOn == Looks \cup {"fail"}

\* What is known when a directory is looked at.
LEMMA AtLooks ==
  ASSUME NEW name \in LooksOn, FtpInv, At(name)
  PROVE  /\ First(todo).call = name /\ Arg = First(todo).arg /\ (name # "fail" => Arg \in Dirs)
         /\ First(Rest(todo)).call \in {"or", "stale", "again", "fh_open", "nothing"}
         /\ name \notin Steady
         /\ \A y : y.call \in LooksOn => Bel(y, Rest(todo))
<1> DEFINE c == First(todo)
           r == Rest(todo)
           d == First(r)
<1>1. CallOK(c) /\ Bel(c, r) /\ c.call = name /\ Arg = c.arg
  BY AtTop
<1>2. d.call \in {"or", "stale", "again", "fh_open", "nothing"}
  <2>1. CASE r = <<>>
    BY <2>1 DEF First, Do, Call
  <2>2. CASE r # <<>>
    <3> HIDE DEF c, r, d
    <3>1. Bel(c, r) => Below(c, d)
      BY <2>2 DEF Bel, d
    <3> QED BY <1>1, <3>1 DEF Below, LooksOn, IsStop, IsOr
  <2> QED BY <2>1, <2>2
<1> HIDE DEF c, r, d
<1>3. ASSUME NEW y, y.call \in LooksOn PROVE Bel(y, r)
  <2>1. CASE r = <<>>
    BY <2>1, <1>3 DEF Bel, MayEnd, LooksOn
  <2>2. CASE r # <<>>
    <3>1. Below(c, d) /\ c.call \in LooksOn
      BY <1>1, <2>2 DEF Bel, d
    <3>2. IsStop(d) \/ IsOr(d) \/ d.call \in {"stale", "again", "fh_open"}
      BY <3>1 DEF Below, LooksOn
    <3>3. Below(y, d)
      BY <1>3, <3>2 DEF Below, LooksOn, Connects, Looks, Copied, Aborted, Switches, IsOr, IsStop, IsOn, IsOff
    <3> QED BY <2>2, <3>3 DEF Bel, d
  <2> QED BY <2>1, <2>2
<1>4. name # "fail" => Arg \in Dirs
  BY <1>1 DEF CallOK, LooksOn
<1>5. name \notin Steady
  BY DEF LooksOn, Looks, Steady
<1> QED BY <1>1, <1>2, <1>3, <1>4, <1>5 DEF c, r, d

\* The directory has been looked at.
LEMMA GoLooked ==
  ASSUME NEW name \in LooksOn, FtpInv, At(name), Return(okay'),
         UNCHANGED <<src, dst, got, put, poured, direct, super, server, ctl_connection_busy>>, Kinds',
         server.up => Rests(server, ctl_connection_busy, direct) /\ KnownDir(server, cwdir')
                      /\ KnownType(server, isbinary')
  PROVE  FtpInv'
<1> DEFINE r == Rest(todo)
           d == First(r)
<1>1. IsStack(todo) /\ todo # <<>> /\ d.call \in {"or", "stale", "again", "fh_open", "nothing"}
  BY AtLooks, AtTop
<1>2. todo' = r
  BY <1>1, Thens DEF Return
<1>3. name \notin Copied \cup {"over"}
  BY DEF LooksOn, Looks, Copied
<1>4. /\ Standing(todo, src, dst, got, put, poured)' /\ Ends(todo, src, dst, got, put, direct, okay, super)'
  BY <1>2, <1>3, Go0, AtLooks
<1>5. TopAt(d, First(Rest(r)), server, ctl_connection_busy, direct, okay', answer', isbinary', cwdir')
  BY <1>1, PlainTop DEF Special, Calm
<1>6. FlowKnown(d, First(Rest(r)), server, data', okay')
  BY <1>1, FlowPlain
<1> QED BY <1>2, <1>4, <1>5, <1>6, Shown

\* It goes on with another call of its kind.
LEMMA GoLook1 ==
  ASSUME NEW name \in LooksOn, FtpInv, At(name), NEW x,
         todo' = On(x, Rest(todo)), UNCHANGED <<src, dst, got, put, poured, direct, super>>,
         x.call \in LooksOn, CallOK(x)
  PROVE  /\ Standing(todo, src, dst, got, put, poured)' /\ Ends(todo, src, dst, got, put, direct, okay, super)'
         /\ First(todo') = x /\ ~ direct /\ super # None
<1> DEFINE r == Rest(todo)
<1>1. Bel(x, r) /\ name \notin Steady
  BY AtLooks
<1>2. Level(x) = 20
  BY Levels DEF LooksOn
<1>3. \A b : Fits(x, src, dst, got, put, poured, b)
  BY DEF Fits, LooksOn, Looks, Connects, Early, Aborted, Switches, IsOr, IsStop, IsOn
<1>4. x.call \notin Copied /\ name \notin Copied \cup {"over"}
  BY DEF LooksOn, Looks, Copied
<1> QED BY <1>1, <1>2, <1>3, <1>4, Go1

\* The server is asked something about the directory.
LEMMA GoLook2 ==
  ASSUME NEW name \in LooksOn, FtpInv, At(name), NEW x, NEW y,
         todo' = On(x, On(y, Rest(todo))), UNCHANGED <<src, dst, got, put, poured, direct, super>>,
         y.call \in LooksOn, CallOK(y), CallOK(x), Below(x, y), x.call \in {"command", "get_reply", "initconn"},
         x.call = "initconn" => x.arg.owner = "list"
  PROVE  /\ Standing(todo, src, dst, got, put, poured)' /\ Ends(todo, src, dst, got, put, direct, okay, super)'
         /\ First(todo') = x /\ First(Rest(todo')) = y
         /\ ~ direct /\ super # None
<1> DEFINE r == Rest(todo)
<1>1. Bel(y, r) /\ name \notin Steady
  BY AtLooks
<1>2. Level(x) = 20 /\ Level(y) = 20
  BY Levels DEF LooksOn, Connects
<1>3. \A b : Fits(x, src, dst, got, put, poured, b) /\ Fits(y, src, dst, got, put, poured, b)
  BY DEF Fits, LooksOn, Looks, Connects, Early, Aborted, Switches, IsOr, IsStop, IsOn
<1>4. y.call \notin Copied /\ name \notin Copied \cup {"over"}
  BY DEF LooksOn, Looks, Copied
<1> QED BY <1>1, <1>2, <1>3, <1>4, Go2

\* The variables that say how the server is talked to, and what is cached.
Options ==
  /\ harm \in {None, "astray", "crashed"} /\ okay \in BOOLEAN /\ use_passive_connection \in BOOLEAN
  /\ strict \in {"auto", "strict", "daring"} /\ isbinary \in BOOLEAN \cup {None} /\ (super = None => isbinary = None)
  /\ cwdir \in Dirs \cup {None, "home"} /\ lines \in Dirs \cup {None, "home"} /\ want_stale \in BOOLEAN
  /\ saved \subseteq Dirs /\ listing \in [Dirs -> Dirs \cup {None, "home"}]

\* What only says how the server is talked to may change within its type.
LEMMA KindsOptions ==
  /\ Kinds => Options
  /\ Kinds /\ UNCHANGED <<super, ctl_connection_busy, copyVars, server, data, stored>> /\ Options' => Kinds'
<1>1. Kinds => Options
  BY DEF Kinds, SuperOK, CopyOK, Options
<1>2. ASSUME Kinds, UNCHANGED <<super, ctl_connection_busy, copyVars, server, data, stored>>, Options' PROVE Kinds'
  BY <1>2, KindsKeep DEF Options
<1> QED BY <1>1, <1>2

\* The cached entries are looked at, or the directory is read.
LEMMA FindEntry == FtpInv /\ vfs_s_find_entry_linear => FtpInv'
<1> SUFFICES ASSUME FtpInv, vfs_s_find_entry_linear PROVE FtpInv'
  OBVIOUS
<1> DEFINE c == First(todo)
           r == Rest(todo)
           d == First(r)
<1>1. At("find") /\ "find" \in LooksOn
  BY DEF vfs_s_find_entry_linear, LooksOn, Looks
<1>2. /\ Kinds /\ harm = None /\ IsStack(todo) /\ todo # <<>> /\ c.call = "find"
      /\ TopAt(c, d, server, ctl_connection_busy, direct, okay, answer, isbinary, cwdir)
  BY <1>1, AtTop
<1>3. Arg \in Dirs
  BY <1>1, AtLooks
<1> HIDE DEF c, r, d
<1>4. UNCHANGED <<src, dst, got, put, poured, direct, superVars, server, data, stored, copyVars, answer, harm>>
  BY DEF vfs_s_find_entry_linear, Quietly, copyVars, superVars, poured, direct
<1>5. server.up => Rests(server, ctl_connection_busy, direct) /\ KnownDir(server, cwdir) /\ KnownType(server, isbinary)
  BY <1>2, TopKnown DEF Special, Calm
<1>6. CASE listing[Arg] # None /\ Return(TRUE) /\ UNCHANGED <<listing, lines, faults>>
  <2>1. Kinds'
    BY <1>2, <1>4, <1>6, KindsOptions DEF Options, vfs_s_find_entry_linear, Return, superVars
  <2>2. okay' = TRUE /\ Return(okay')
    BY <1>6 DEF Return
  <2> QED BY <1>1, <1>4, <1>5, <2>1, <2>2, GoLooked DEF superVars
<1>7. CASE /\ listing' = [listing EXCEPT ![Arg] = None] /\ lines' = None
           /\ Then(<<Call("dir_load", Arg)>>) /\ UNCHANGED okay
  <2>1. Kinds'
    BY <1>2, <1>3, <1>4, <1>7, KindsOptions DEF Options, vfs_s_find_entry_linear, superVars
  <2> DEFINE x == Call("dir_load", Arg)
  <2>2. x.call = "dir_load" /\ x.arg = Arg
    BY DEF Call
  <2>3. Then(<<x>>)
    BY <1>7
  <2> HIDE DEF x
  <2>4. CallOK(x) /\ x.call \in LooksOn
    BY <1>3, <2>2 DEF CallOK, LooksOn, Looks, Connects, Copied, Switches
  <2>5. todo' = On(x, r)
    BY <1>2, <2>3, Thens DEF r
  <2>6. /\ Standing(todo, src, dst, got, put, poured)' /\ Ends(todo, src, dst, got, put, direct, okay, super)'
        /\ First(todo') = x
    BY <1>1, <1>4, <2>4, <2>5, GoLook1 DEF r, superVars
  <2>7. TopAt(x, First(Rest(todo')), server, ctl_connection_busy, direct, okay, answer, isbinary, cwdir)
    BY <1>5, <2>2, PlainTop DEF Special, Calm
  <2>8. FlowKnown(x, First(Rest(todo')), server, data, okay)
    BY <2>2, FlowPlain
  <2> QED BY <1>4, <1>7, <2>1, <2>6, <2>7, <2>8, Shown DEF superVars
<1> QED BY <1>6, <1>7 DEF vfs_s_find_entry_linear

\* The directory is read.
LEMMA Lists1 ==
  ASSUME NEW name \in LooksOn, FtpInv, At(name), Then(List(Arg)), Kinds', name # "fail",
         UNCHANGED <<src, dst, got, put, poured, direct, super, server, data, answer, ctl_connection_busy,
                     isbinary, okay>>,
         server.up => Rests(server, ctl_connection_busy, direct) /\ KnownDir(server, cwdir') /\ KnownType(server, isbinary)
  PROVE  FtpInv'
<1> DEFINE r == Rest(todo)
           q == Request("list", "LIST", IF strict = "strict" THEN None ELSE Arg, FALSE)
           x == Call("initconn", q)
           y == Call("listing", Arg)
<1>1. IsStack(todo) /\ todo # <<>> /\ Arg \in Dirs
  BY AtTop, AtLooks
<1>2. q \in Requests /\ q.owner = "list"
  BY <1>1 DEF Requests, Request
<1>3. x.call = "initconn" /\ x.arg = q /\ y.call = "listing" /\ y.arg = Arg
  BY DEF Call
<1>4. Then(<<x, y>>)
  BY DEF List, ftpfs_open_data_connection
<1> HIDE DEF q, x, y, r
<1>5. todo' = On(x, On(y, r))
  BY <1>1, <1>4, Thens DEF r
<1>6. CallOK(x) /\ CallOK(y) /\ y.call \in LooksOn
  BY <1>1, <1>2, <1>3 DEF CallOK, LooksOn, Looks, Connects, Copied, Switches
<1>7. Below(x, y)
  BY <1>2, <1>3 DEF Below, Asker, Connects, Looks, Copied, Aborted, Switches, IsOr, IsStop, IsOn, IsOff
<1>8. /\ Standing(todo, src, dst, got, put, poured)' /\ Ends(todo, src, dst, got, put, direct, okay, super)'
      /\ First(todo') = x /\ First(Rest(todo')) = y
  BY <1>2, <1>3, <1>5, <1>6, <1>7, GoLook2 DEF r
<1>9. TopAt(x, y, server, ctl_connection_busy, direct, okay, answer, isbinary, cwdir')
  BY <1>3, PlainTop DEF Special, Calm
<1>10. FlowKnown(x, y, server, data, okay)
  BY <1>3, FlowPlain
<1> QED BY <1>8, <1>9, <1>10, Shown

\* The directory is changed first, or listed at once.
LEMMA DirLoad == FtpInv /\ ftpfs_dir_load => FtpInv'
<1> SUFFICES ASSUME FtpInv, ftpfs_dir_load PROVE FtpInv'
  OBVIOUS
<1> DEFINE c == First(todo)
           r == Rest(todo)
           d == First(r)
<1>1. At("dir_load") /\ "dir_load" \in LooksOn
  BY DEF ftpfs_dir_load, LooksOn, Looks
<1>2. /\ Kinds /\ harm = None /\ IsStack(todo) /\ todo # <<>> /\ c.call = "dir_load"
      /\ TopAt(c, d, server, ctl_connection_busy, direct, okay, answer, isbinary, cwdir)
  BY <1>1, AtTop
<1>3. Arg \in Dirs
  BY <1>1, AtLooks
<1> HIDE DEF c, r, d
<1>4. UNCHANGED <<src, dst, got, put, poured, direct, superVars, super, isbinary, cwdir, ctl_connection_busy,
                  server, data, stored, copyVars, cacheVars, answer, harm, okay>>
  BY DEF ftpfs_dir_load, Quietly, copyVars, superVars, poured, direct
<1>5. server.up => Rests(server, ctl_connection_busy, direct) /\ KnownDir(server, cwdir) /\ KnownType(server, isbinary)
  BY <1>2, TopKnown DEF Special, Calm
<1>6. Kinds'
  BY <1>2, <1>4, KindsOptions DEF Options, superVars, cacheVars
<1>7. CASE Then(List(Arg))
  BY <1>1, <1>4, <1>5, <1>6, <1>7, Lists1
<1>8. CASE Then(<<Ask("CWD", Arg), Call("cwd_done", Arg)>>)
  <2> DEFINE x == Ask("CWD", Arg)
             y == Call("cwd_done", Arg)
  <2>1. x.call = "command" /\ x.arg = Command("CWD", Arg) /\ y.call = "cwd_done" /\ y.arg = Arg
    BY DEF Ask, Call, Command
  <2>2. Then(<<x, y>>)
    BY <1>8
  <2> HIDE DEF x, y
  <2>3. todo' = On(x, On(y, r))
    BY <1>2, <2>2, Thens DEF r
  <2>4. CallOK(x) /\ CallOK(y) /\ y.call \in LooksOn
    BY <1>3, <2>1 DEF CallOK, LooksOn, Looks, Connects, Copied, Switches
  <2>5. Below(x, y) /\ x.arg.name # "ABOR"
    BY <2>1 DEF Below, Waiter, Command, Connects, Looks, Copied, Aborted, Switches, IsOr, IsStop, IsOn, IsOff
  <2>6. /\ Standing(todo, src, dst, got, put, poured)' /\ Ends(todo, src, dst, got, put, direct, okay, super)'
        /\ First(todo') = x /\ First(Rest(todo')) = y
    BY <1>1, <1>4, <2>1, <2>3, <2>4, <2>5, GoLook2 DEF r
  <2>7. TopAt(x, y, server, ctl_connection_busy, direct, okay, answer, isbinary, cwdir)
    BY <1>5, <2>1, <2>5, CommandTop
  <2>8. FlowKnown(x, y, server, data, okay)
    BY <2>1, FlowPlain
  <2> QED BY <1>4, <1>6, <2>6, <2>7, <2>8, Shown
<1> QED BY <1>7, <1>8 DEF ftpfs_dir_load

\* The superblock remembers the directory that the server has changed to.
LEMMA CwdDone == FtpInv /\ cwd_done => FtpInv'
<1> SUFFICES ASSUME FtpInv, cwd_done PROVE FtpInv'
  OBVIOUS
<1> DEFINE c == First(todo)
           r == Rest(todo)
           d == First(r)
<1>1. At("cwd_done") /\ "cwd_done" \in LooksOn
  BY DEF cwd_done, LooksOn, Looks
<1>2. /\ Kinds /\ harm = None /\ IsStack(todo) /\ todo # <<>> /\ c.call = "cwd_done" /\ c.arg = Arg
      /\ TopAt(c, d, server, ctl_connection_busy, direct, okay, answer, isbinary, cwdir)
  BY <1>1, AtTop
<1>3. Arg \in Dirs
  BY <1>1, AtLooks
<1> HIDE DEF c, r, d
<1>4. UNCHANGED <<src, dst, got, put, poured, direct, super, isbinary, ctl_connection_busy, use_passive_connection,
                  strict, server, data, stored, copyVars, cacheVars, answer, harm>>
  BY DEF cwd_done, Quietly, copyVars, poured, direct
<1>5. server.up => Quiet(server) /\ KnownType(server, isbinary)
                   /\ IF Complete THEN server.cwd = Arg ELSE KnownDir(server, cwdir)
  BY <1>2, TopKnown DEF TopAt, DirKnown, Complete, Calm
<1>6. Kinds'
  BY <1>2, <1>3, <1>4, KindsOptions DEF Options, cacheVars, cwd_done, Return
<1>7. CASE Complete
  <2>1. Then(List(Arg)) /\ okay' = okay /\ cwdir' = Arg
    BY <1>7 DEF cwd_done
  <2>2. server.up => KnownDir(server, cwdir')
    BY <1>5, <1>7, <2>1 DEF KnownDir
  <2> QED BY <1>1, <1>4, <1>5, <1>6, <2>1, <2>2, Lists1, QuietRests
<1>8. CASE ~ Complete
  <2>1. Return(FALSE) /\ cwdir' = cwdir
    BY <1>8 DEF cwd_done
  <2>2. Return(okay')
    BY <2>1 DEF Return
  <2> QED BY <1>1, <1>4, <1>5, <1>6, <1>8, <2>1, <2>2, GoLooked, QuietRests
<1> QED BY <1>7, <1>8

\* A block is taken off a data connection; if it is of the source it may have been read.
LEMMA KindsTaken ==
  ASSUME Kinds, NEW o \in {"src", "list"}, Take(o), UNCHANGED <<server, stored, src, put, ctl_connection_busy>>,
         Options', SuperOK', CopyOK', got' = got \/ (o = "src" /\ src = "open" /\ got' = got + 1)
  PROVE  /\ Kinds' /\ UNCHANGED poured /\ (dst' = dst => UNCHANGED direct)
         /\ data[o].flow > 0 /\ data'[o].flow = data[o].flow - 1 /\ data'[o].client = data[o].client
         /\ \A k \in Owner : k # o => data'[k] = data[k]
<1> DEFINE new == [data[o] EXCEPT !.flow = @ - 1]
<1>1. data \in [Owner -> Pipes] /\ data' = [data EXCEPT ![o] = new] /\ o \in Owner /\ data[o].flow > 0
  BY DEF Kinds, DataOK, Take, Owner
<1>2. data[o] \in Pipes /\ data[o].flow \in Nat
  BY <1>1, FtpfsAssumption DEF Pipes
<1>3. data[o].flow - 1 \in 0..Cap
  BY <1>1, <1>2, FtpfsAssumption DEF Pipes
<1>4. new \in Pipes /\ new.flow = data[o].flow - 1
  BY <1>2, <1>3 DEF Pipes
<1>5. new.client = data[o].client /\ new.link = data[o].link
  BY <1>2 DEF Pipes
<1> HIDE DEF new
<1>6. data' \in [Owner -> Pipes] /\ data'[o] = new /\ \A k \in Owner : k # o => data'[k] = data[k]
  BY <1>1, <1>4
<1>7. data'["dst"] = data["dst"]
  BY <1>6 DEF Owner
<1>8. DataOK'
  <2>1. \A k \in Owner : data'[k].link = data[k].link
    BY <1>5, <1>6
  <2> QED BY <1>6, <2>1 DEF DataOK, Kinds
<1>9. got' + data'["src"].flow <= got + data["src"].flow
  <2>1. data["src"].flow \in Nat /\ got \in Nat
    <3>1. data["src"] \in Pipes
      BY <1>1 DEF Owner
    <3> QED BY <3>1, FtpfsAssumption DEF Pipes, Kinds, CopyOK
  <2>2. CASE o = "src"
    <3>1. data'["src"].flow = data["src"].flow - 1
      BY <2>2, <1>4, <1>6
    <3> QED BY <3>1, <2>1
  <2>3. CASE o = "list"
    <3>1. data'["src"] = data["src"] /\ got' = got
      BY <2>3, <1>6 DEF Owner
    <3> QED BY <3>1, <2>1
  <2> QED BY <2>2, <2>3
<1>10. FlowOK'
  <2>1. data'["src"].flow \in Nat /\ data["src"].flow \in Nat /\ got \in Nat /\ got' \in Nat /\ server.n \in Nat
    <3>1. data["src"] \in Pipes /\ data'["src"] \in Pipes
      BY <1>1, <1>6 DEF Owner
    <3> QED BY <3>1, FtpfsAssumption DEF Pipes, Kinds, CopyOK, ServerOK
  <2>2. FlowOK
    BY DEF Kinds
  <2>3. src' = src /\ server' = server /\ stored' = stored /\ put' = put
    OBVIOUS
  <2> QED BY <1>7, <1>9, <2>1, <2>2, <2>3, FtpfsAssumption DEF FlowOK
<1>11. ServerOK'
  BY DEF Kinds, ServerOK
<1>12. UNCHANGED poured /\ (dst' = dst => UNCHANGED direct)
  BY <1>7 DEF poured, direct
<1> QED BY <1>1, <1>4, <1>5, <1>6, <1>8, <1>10, <1>11, <1>12 DEF Kinds

\* A listing that fails is tried once more, or has failed.
LEMMA Falls ==
  ASSUME NEW name \in {"listing", "listed"}, FtpInv, At(name), Fallback(Arg), Kinds',
         UNCHANGED <<src, dst, got, put, poured, direct, super, server, data, answer, ctl_connection_busy,
                     isbinary, cwdir>>,
         server.up => Rests(server, ctl_connection_busy, direct) /\ KnownDir(server, cwdir) /\ KnownType(server, isbinary)
  PROVE  FtpInv'
<1> DEFINE r == Rest(todo)
<1>1. name \in LooksOn
  BY DEF LooksOn, Looks
<1>2. IsStack(todo) /\ todo # <<>> /\ Arg \in Dirs
  BY <1>1, AtTop, AtLooks
<1>3. CASE Return(FALSE)
  <2>1. Return(okay')
    BY <1>3 DEF Return
  <2> QED BY <1>1, <2>1, GoLooked
<1>4. CASE Then(<<Call("dir_load", Arg)>>) /\ UNCHANGED okay
  <2> DEFINE x == Call("dir_load", Arg)
  <2>1. x.call = "dir_load" /\ x.arg = Arg
    BY DEF Call
  <2>2. Then(<<x>>)
    BY <1>4
  <2> HIDE DEF x, r
  <2>3. CallOK(x) /\ x.call \in LooksOn
    BY <1>2, <2>1 DEF CallOK, LooksOn, Looks, Connects, Copied, Switches
  <2>4. todo' = On(x, r)
    BY <1>2, <2>2, Thens DEF r
  <2>5. /\ Standing(todo, src, dst, got, put, poured)' /\ Ends(todo, src, dst, got, put, direct, okay, super)'
        /\ First(todo') = x
    BY <1>1, <2>3, <2>4, GoLook1 DEF r
  <2>6. TopAt(x, First(Rest(todo')), server, ctl_connection_busy, direct, okay, answer, isbinary, cwdir)
    BY <2>1, PlainTop DEF Special, Calm
  <2>7. FlowKnown(x, First(Rest(todo')), server, data, okay)
    BY <2>1, FlowPlain
  <2> QED BY <1>4, <2>5, <2>6, <2>7, Shown
<1> QED BY <1>3, <1>4 DEF Fallback

\* The rest of an interrupted or complete listing: the reply is read.
LEMMA Reads1 ==
  ASSUME FtpInv, At("listing"), okay, NEW y, y.call \in {"listed", "fail"}, CallOK(y),
         Then(<<Do("get_reply"), y>>), Kinds',
         UNCHANGED <<src, dst, got, put, poured, direct, super, server, answer, ctl_connection_busy, isbinary,
                     cwdir, okay>>
  PROVE  FtpInv'
<1> DEFINE c == First(todo)
           r == Rest(todo)
           d == First(r)
           x == Do("get_reply")
<1>1. "listing" \in LooksOn /\ y.call \in LooksOn
  BY DEF LooksOn, Looks
<1>2. /\ IsStack(todo) /\ todo # <<>> /\ c.call = "listing"
      /\ TopAt(c, d, server, ctl_connection_busy, direct, okay, answer, isbinary, cwdir)
  BY AtTop
<1>3. x.call = "get_reply"
  BY DEF Do, Call
<1> HIDE DEF c, r, d, x
<1>4. todo' = On(x, On(y, r))
  <2>1. Then(<<x, y>>)
    BY DEF x
  <2> QED BY <1>2, <2>1, Thens DEF r
<1>5. CallOK(x)
  BY <1>3 DEF CallOK, LooksOn, Looks, Connects, Copied, Switches
<1>6. Below(x, y)
  BY <1>3 DEF Below, Readers, Connects, Looks, Copied, Aborted, Switches, IsOr, IsStop, IsOn, IsOff
<1>7. /\ Standing(todo, src, dst, got, put, poured)' /\ Ends(todo, src, dst, got, put, direct, okay, super)'
      /\ First(todo') = x /\ First(Rest(todo')) = y
  BY <1>1, <1>3, <1>4, <1>5, <1>6, GoLook2 DEF r
<1>8. server.up => Reading(y, server) /\ KnownDir(server, cwdir) /\ KnownType(server, isbinary)
  <2>1. server.up => Owes(server, "LIST")
    BY <1>2 DEF TopAt, Expected
  <2>2. server.up => Reading(y, server)
    BY <2>1 DEF Reading
  <2> QED BY <1>2, <2>2, TopKnown
<1>9. TopAt(x, y, server, ctl_connection_busy, direct, okay, answer, isbinary, cwdir)
  BY <1>3, <1>8, ReplyTop
<1>10. FlowKnown(x, y, server, data', okay)
  BY <1>3, FlowPlain
<1> QED BY <1>7, <1>9, <1>10, Shown

\* The lines of a listing are read.
LEMMA ReadListing == FtpInv /\ read_listing => FtpInv'
<1> SUFFICES ASSUME FtpInv, read_listing PROVE FtpInv'
  OBVIOUS
<1> DEFINE c == First(todo)
           r == Rest(todo)
           d == First(r)
<1>1. At("listing") /\ "listing" \in LooksOn
  BY DEF read_listing, LooksOn, Looks
<1>2. /\ Kinds /\ harm = None /\ IsStack(todo) /\ todo # <<>> /\ c.call = "listing" /\ c.arg = Arg
      /\ TopAt(c, d, server, ctl_connection_busy, direct, okay, answer, isbinary, cwdir)
      /\ Standing(todo, src, dst, got, put, poured) /\ Ends(todo, src, dst, got, put, direct, okay, super)
  BY <1>1, AtTop
<1>3. Arg \in Dirs
  BY <1>1, AtLooks
<1>4. UNCHANGED <<src, dst, got, put, super, isbinary, ctl_connection_busy, cwdir, use_passive_connection, want_stale,
                  saved, listing, server, stored, copyVars, answer, harm>>
  BY DEF read_listing, Quietly, copyVars
<1>5. server.up => KnownDir(server, cwdir) /\ KnownType(server, isbinary)
  BY <1>2, TopKnown
<1> HIDE DEF c, r, d
<1>6. CASE ~ okay /\ Fallback(Arg) /\ UNCHANGED <<lines, data>>
  <2>1. Kinds'
    BY <1>2, <1>4, <1>6, KindsOptions DEF Options, Fallback, Return
  <2>2. server.up => Rests(server, ctl_connection_busy, direct)
    BY <1>2, <1>6 DEF TopAt, Expected
  <2>3. UNCHANGED <<poured, direct, data>>
    BY <1>4, <1>6 DEF poured, direct
  <2> QED BY <1>1, <1>4, <1>5, <1>6, <2>1, <2>2, <2>3, Falls
<1>7. CASE okay /\ Take("list") /\ lines' = data["list"].of /\ UNCHANGED <<todo, okay, strict>>
  <2>1. Options' /\ SuperOK' /\ CopyOK'
    <3>1. data["list"].of \in Dirs \cup {None, "home"}
      BY <1>2 DEF Kinds, DataOK, Pipes, Owner
    <3> QED BY <1>2, <1>4, <1>7, <3>1 DEF Options, Kinds, SuperOK, CopyOK, copyVars
  <2>2. Kinds' /\ UNCHANGED <<poured, direct>>
    BY <1>2, <1>4, <1>7, <2>1, KindsTaken
  <2>3. FlowKnown(c, d, server, data', okay)
    BY <1>2, FlowPlain
  <2> QED BY <1>2, <1>4, <1>7, <2>2, <2>3, Shown DEF c, d, r
<1>8. CASE /\ okay /\ Close("list")
           /\ Then(<<Do("get_reply"), Call("listed", Arg)>>)
           /\ UNCHANGED <<okay, strict, lines>>
  <2>1. okay' \in BOOLEAN /\ harm' \in {None, "astray", "crashed"} /\ UNCHANGED <<superVars, cacheVars>> /\ "list" \in Owner
    BY <1>2, <1>4, <1>8 DEF Kinds, SuperOK, CopyOK, superVars, cacheVars, Owner
  <2>2. Kinds' /\ UNCHANGED <<poured, direct>>
    BY <1>2, <1>4, <1>8, <2>1, KindsClosed
  <2> DEFINE y == Call("listed", Arg)
  <2>3. y.call = "listed" /\ y.arg = Arg
    BY DEF Call
  <2>4. Then(<<Do("get_reply"), y>>)
    BY <1>8
  <2> HIDE DEF y
  <2>5. CallOK(y)
    BY <1>3, <2>3 DEF CallOK, LooksOn, Looks, Connects, Copied, Switches
  <2> QED BY <1>1, <1>4, <1>8, <2>2, <2>3, <2>4, <2>5, Reads1
<1> QED BY <1>6, <1>7, <1>8 DEF read_listing

\* The user interrupts a listing: its reply is still read.
LEMMA InterruptListing == FtpInv /\ interrupt_listing => FtpInv'
<1> SUFFICES ASSUME FtpInv, interrupt_listing PROVE FtpInv'
  OBVIOUS
<1>1. At("listing") /\ okay /\ Close("list")
  BY DEF interrupt_listing
<1>2. Kinds /\ harm = None
  BY <1>1, AtTop
<1>3. UNCHANGED <<src, dst, got, put, superVars, super, isbinary, ctl_connection_busy, cwdir, server, stored, copyVars,
                  cacheVars, answer, harm, okay>>
  BY DEF interrupt_listing, Quietly, copyVars, superVars
<1>4. okay' \in BOOLEAN /\ harm' \in {None, "astray", "crashed"} /\ "list" \in Owner
  BY <1>2, <1>3 DEF Kinds, SuperOK, CopyOK, Owner
<1>5. Kinds' /\ UNCHANGED <<poured, direct>>
  BY <1>1, <1>2, <1>3, <1>4, KindsClosed
<1> DEFINE y == Do("fail")
<1>6. y.call = "fail"
  BY DEF Do, Call
<1>7. Then(<<Do("get_reply"), y>>)
  BY DEF interrupt_listing
<1> HIDE DEF y
<1>8. CallOK(y)
  BY <1>6 DEF CallOK, LooksOn, Looks, Connects, Copied, Switches
<1> QED BY <1>1, <1>3, <1>5, <1>6, <1>7, <1>8, Reads1

\* A listing has failed, and its reply was read.
LEMMA Failed1 == FtpInv /\ fail => FtpInv'
<1> SUFFICES ASSUME FtpInv, fail PROVE FtpInv'
  OBVIOUS
<1> DEFINE c == First(todo)
           d == First(Rest(todo))
<1>1. At("fail") /\ "fail" \in LooksOn /\ Return(FALSE)
  BY DEF fail, LooksOn
<1>2. /\ Kinds /\ c.call = "fail"
      /\ TopAt(c, d, server, ctl_connection_busy, direct, okay, answer, isbinary, cwdir)
  BY <1>1, AtTop
<1>3. UNCHANGED <<src, dst, got, put, poured, direct, superVars, super, isbinary, ctl_connection_busy, cwdir, server,
                  data, stored, copyVars, cacheVars, answer, harm>>
  BY DEF fail, Quietly, copyVars, superVars, poured, direct
<1>4. server.up => Quiet(server) /\ KnownDir(server, cwdir) /\ KnownType(server, isbinary)
  BY <1>2, TopKnown DEF Calm
<1>5. Kinds'
  BY <1>1, <1>2, <1>3, KindsOptions DEF Options, Return, superVars, cacheVars
<1>6. Return(okay')
  BY <1>1 DEF Return
<1> QED BY <1>1, <1>3, <1>4, <1>5, <1>6, GoLooked, QuietRests

\* A listing is complete, and its reply was read.
LEMMA Listed1 == FtpInv /\ listed => FtpInv'
<1> SUFFICES ASSUME FtpInv, listed PROVE FtpInv'
  OBVIOUS
<1> DEFINE c == First(todo)
           d == First(Rest(todo))
<1>1. At("listed") /\ "listed" \in LooksOn
  BY DEF listed, LooksOn, Looks
<1>2. /\ Kinds /\ c.call = "listed" /\ harm = None
      /\ TopAt(c, d, server, ctl_connection_busy, direct, okay, answer, isbinary, cwdir)
  BY <1>1, AtTop
<1>3. UNCHANGED <<src, dst, got, put, poured, direct, super, isbinary, ctl_connection_busy, cwdir,
                  use_passive_connection, want_stale, saved, lines, server, data, stored, copyVars, answer, harm>>
  BY DEF listed, Quietly, copyVars, poured, direct
<1>4. server.up => Quiet(server) /\ KnownDir(server, cwdir) /\ KnownType(server, isbinary)
  BY <1>2, TopKnown DEF Calm
<1>5. Kinds'
  <2>1. Arg \in Dirs
    BY <1>1, AtLooks
  <2> QED BY <1>2, <1>3, <2>1, KindsOptions DEF Options, listed, Fallback, Return
<1>6. CASE Return(TRUE)
  <2>1. Return(okay')
    BY <1>6 DEF Return
  <2> QED BY <1>1, <1>3, <1>4, <1>5, <2>1, GoLooked, QuietRests
<1>7. CASE Fallback(Arg)
  BY <1>1, <1>3, <1>4, <1>5, <1>7, Falls, QuietRests
<1> QED BY <1>6, <1>7 DEF listed

-----------------------------------------------------------------------------
(* What a copy and its end are made of *)

\* One stack on another, a stack of one call, and the calls of a switch, if there are any.
Cat(s, t) == s \o t
One(x)    == <<x>>
Switch(where, d, on, t) == IF where = "ftp" THEN On(Call("setctl", [dir |-> d, on |-> on]), t) ELSE t

\* Two stacks, one on the other.
LEMMA Glue ==
  ASSUME NEW x, NEW s, NEW t, IsStack(s), IsStack(t)
  PROVE  /\ Cat(On(x, s), t) = On(x, Cat(s, t)) /\ IsStack(Cat(s, t))
         /\ Cat(<<>>, t) = t /\ Cat(t, <<>>) = t /\ On(x, <<>>) = One(x)
<1> DEFINE S == {s[i] : i \in 1..Len(s)} \cup {t[i] : i \in 1..Len(t)} \cup {x}
<1>1. s \in Seq(S) /\ t \in Seq(S) /\ <<x>> \in Seq(S)
  BY StackSeq
<1> HIDE DEF S
<1>2. (<<x>> \o s) \o t = <<x>> \o (s \o t)
  BY <1>1, ConcatAssociative
<1>3. s \o t \in Seq(S)
  BY <1>1
<1>4. IsStack(s \o t)
  BY <1>3, SeqStack
<1>5. <<>> \o t = t /\ t \o <<>> = t /\ <<x>> \o <<>> = <<x>>
  BY <1>1, ConcatEmptySeq
<1> QED BY <1>2, <1>4, <1>5 DEF Cat, On, One

\* A single call put on a stack.
LEMMA Ones ==
  ASSUME NEW x, NEW t, IsStack(t)
  PROVE  IsStack(One(x)) /\ Cat(One(x), t) = On(x, t)
<1>1. IsStack(On(x, <<>>))
  BY EmptyStack, StackOn
<1>2. One(x) = On(x, <<>>)
  BY EmptyStack, Glue
<1> QED BY <1>1, <1>2, EmptyStack, Glue

\* Three calls as a stack.
LEMMA Triples ==
  ASSUME NEW x, NEW y, NEW z
  PROVE  <<x, y, z>> = On(x, On(y, On(z, <<>>)))
<1> DEFINE e == <<>>
           t == On(z, e)
           u == On(y, t)
           v == On(x, u)
<1>1. IsStack(e) /\ Len(e) = 0
  BY EmptyStack
<1> HIDE DEF e
<1>2. IsStack(t) /\ Len(t) = 1 /\ t[1] = z
  <2>1. IsStack(t) /\ Len(t) = Len(e) + 1 /\ t[1] = z
    BY <1>1, StackOn
  <2> HIDE DEF t
  <2> QED BY <1>1, <2>1
<1> HIDE DEF t
<1>3. IsStack(u) /\ Len(u) = 2 /\ u[1] = y /\ u[2] = z
  <2>1. IsStack(t)
    BY <1>2
  <2>2. IsStack(u) /\ Len(u) = Len(t) + 1 /\ u[1] = y /\ \A i \in 1..Len(t) : u[i + 1] = t[i]
    BY <2>1, StackOn
  <2> HIDE DEF u
  <2>3. u[1 + 1] = t[1]
    BY <1>2, <2>2
  <2> QED BY <1>2, <2>2, <2>3
<1> HIDE DEF u
<1>4. IsStack(v) /\ Len(v) = 3 /\ v[1] = x /\ v[2] = y /\ v[3] = z
  <2>1. IsStack(u)
    BY <1>3
  <2>2. IsStack(v) /\ Len(v) = Len(u) + 1 /\ v[1] = x /\ \A i \in 1..Len(u) : v[i + 1] = u[i]
    BY <2>1, StackOn
  <2> HIDE DEF v
  <2>3. v[1 + 1] = u[1] /\ v[2 + 1] = u[2]
    BY <1>3, <2>2
  <2> QED BY <1>3, <2>2, <2>3
<1> HIDE DEF v
<1>5. v = [i \in 1..3 |-> v[i]]
  BY <1>4 DEF IsStack
<1>6. <<x, y, z>> = [i \in 1..3 |-> v[i]]
  BY <1>4
<1> QED BY <1>5, <1>6 DEF v, u, t, e

\* The calls that switch the expiry of the listings, put on a stack.
LEMMA StaleIs ==
  ASSUME NEW w, NEW d, NEW on
  PROVE  IsStack(Stale(w, d, on)) /\ \A t : IsStack(t) => Cat(Stale(w, d, on), t) = Switch(w, d, on, t)
<1>1. CASE w = "ftp"
  <2> DEFINE m == Call("setctl", [dir |-> d, on |-> on])
  <2>1. Stale(w, d, on) = One(m)
    BY <1>1 DEF Stale, One
  <2>2. \A t : Switch(w, d, on, t) = On(m, t)
    BY <1>1 DEF Switch
  <2> HIDE DEF m
  <2> QED BY <2>1, <2>2, Ones, EmptyStack
<1>2. CASE w # "ftp"
  <2>1. Stale(w, d, on) = <<>>
    BY <1>2 DEF Stale
  <2>2. \A t : Switch(w, d, on, t) = t
    BY <1>2 DEF Switch
  <2> QED BY <2>1, <2>2, EmptyStack, Glue
<1> QED BY <1>1, <1>2

\* The calls that close the files of a copy, as a stack.
LEMMA ClosingIs ==
  ASSUME NEW a
  PROVE  Closing(a) = On(Do("close_src"), On(Do("close_dst"), On(Do("chmod"),
                        Switch(a.from, "from", FALSE, Switch(a.to, "to", FALSE, On(Do("over"), <<>>))))))
<1> DEFINE A == Stale(a.from, "from", FALSE)
           B == Stale(a.to, "to", FALSE)
           C == One(Do("over"))
           x == Do("close_src")
           y == Do("close_dst")
           z == Do("chmod")
<1>1. Closing(a) = Cat(Cat(Cat(<<x, y, z>>, A), B), C)
  BY DEF Cat, One, Closing
<1>2. \A w, d, on : IsStack(Stale(w, d, on)) /\ \A t : IsStack(t) => Cat(Stale(w, d, on), t) = Switch(w, d, on, t)
  BY StaleIs
<1>3. IsStack(A) /\ IsStack(B) /\ IsStack(C)
  BY <1>2, Ones, EmptyStack
<1>4. <<x, y, z>> = On(x, On(y, On(z, <<>>)))
  BY Triples
<1>5. C = On(Do("over"), <<>>)
  BY EmptyStack, Glue
<1>6. IsStack(On(y, On(z, <<>>))) /\ IsStack(On(z, <<>>)) /\ IsStack(On(x, On(y, On(z, <<>>))))
  BY EmptyStack, StackOn
<1>7. Cat(Cat(A, B), C) = Switch(a.from, "from", FALSE, Switch(a.to, "to", FALSE, C))
  <2>1. Cat(A, B) = Switch(a.from, "from", FALSE, B)
    BY <1>2, <1>3
  <2>2. Cat(B, C) = Switch(a.to, "to", FALSE, C)
    BY <1>2, <1>3
  <2>3. Cat(Cat(A, B), C) = Cat(A, Cat(B, C))
    <3>1. CASE a.from = "ftp"
      <4> DEFINE m == Call("setctl", [dir |-> "from", on |-> FALSE])
      <4>1. A = One(m)
        BY <3>1 DEF Stale, One
      <4> HIDE DEF m, A, B, C
      <4>2. Cat(A, B) = On(m, B) /\ IsStack(Cat(B, C))
        BY <1>3, <4>1, Ones, Glue
      <4>3. Cat(A, Cat(B, C)) = On(m, Cat(B, C))
        BY <4>1, <4>2, Ones
      <4> QED BY <1>3, <4>2, <4>3, Glue
    <3>2. CASE a.from # "ftp"
      <4>1. A = <<>>
        BY <3>2 DEF Stale
      <4> HIDE DEF A, B, C
      <4>2. IsStack(Cat(B, C))
        BY <1>3, Glue
      <4> QED BY <1>3, <4>1, <4>2, Glue
    <3> QED BY <3>1, <3>2
  <2>4. IsStack(Cat(B, C))
    BY <1>3, Glue
  <2>5. Cat(A, Cat(B, C)) = Switch(a.from, "from", FALSE, Cat(B, C))
    <3>1. \A t : IsStack(t) => Cat(A, t) = Switch(a.from, "from", FALSE, t)
      BY <1>2
    <3> HIDE DEF A, B, C
    <3> QED BY <2>4, <3>1
  <2> QED
    <3>1. Cat(Cat(A, B), C) = Switch(a.from, "from", FALSE, Cat(B, C))
      BY <2>3, <2>5
    <3> HIDE DEF A, B, C
    <3> QED BY <2>2, <3>1
<1> HIDE DEF A, B, C, x, y, z
<1>8. Cat(Cat(Cat(On(x, On(y, On(z, <<>>))), A), B), C) = On(x, On(y, On(z, Cat(Cat(A, B), C))))
  <2>1. Cat(<<>>, A) = A
    BY <1>3, Glue
  <2>2. Cat(On(z, <<>>), A) = On(z, A) /\ IsStack(On(z, A))
    BY <1>3, <2>1, Glue, EmptyStack, StackOn
  <2>3. Cat(On(y, On(z, <<>>)), A) = On(y, On(z, A)) /\ IsStack(On(y, On(z, A)))
    BY <1>3, <1>6, <2>2, Glue, StackOn
  <2>4. Cat(On(x, On(y, On(z, <<>>))), A) = On(x, On(y, On(z, A))) /\ IsStack(On(x, On(y, On(z, A))))
    BY <1>3, <1>6, <2>3, Glue, StackOn
  <2>5. ASSUME NEW s, NEW t, IsStack(s), IsStack(t) PROVE Cat(On(x, On(y, On(z, s))), t) = On(x, On(y, On(z, Cat(s, t))))
    <3>1. IsStack(On(z, s)) /\ Cat(On(z, s), t) = On(z, Cat(s, t))
      BY <2>5, Glue, StackOn
    <3>2. IsStack(On(y, On(z, s))) /\ Cat(On(y, On(z, s)), t) = On(y, On(z, Cat(s, t)))
      BY <2>5, <3>1, Glue, StackOn
    <3> QED BY <2>5, <3>2, Glue
  <2>6. Cat(On(x, On(y, On(z, A))), B) = On(x, On(y, On(z, Cat(A, B)))) /\ IsStack(Cat(A, B))
    BY <1>3, <2>5, Glue
  <2> QED BY <1>3, <2>4, <2>5, <2>6
<1> QED BY <1>1, <1>4, <1>5, <1>7, <1>8 DEF x, y, z

\* The end of a copy stands whatever the copy has come to.
LEMMA ClosingStands ==
  ASSUME NEW a, NEW sr, NEW ds, NEW g, NEW p, NEW q
  PROVE  /\ Standing(Closing(a), sr, ds, g, p, q) /\ IsStack(Closing(a)) /\ Closing(a) # <<>>
         /\ First(Closing(a)).call = "close_src" /\ First(Rest(Closing(a))).call = "close_dst"
         /\ Bottom(Closing(a)).call = "over"
<1> DEFINE o == Do("over")
           m == Do("chmod")
           y == Do("close_dst")
           x == Do("close_src")
           t0 == On(o, <<>>)
           t1 == Switch(a.to, "to", FALSE, t0)
           t2 == Switch(a.from, "from", FALSE, t1)
           t3 == On(m, t2)
           t4 == On(y, t3)
           t5 == On(x, t4)
<1>1. Closing(a) = t5
  BY ClosingIs
<1>2. o.call = "over" /\ m.call = "chmod" /\ y.call = "close_dst" /\ x.call = "close_src"
  BY DEF Do, Call
<1> HIDE DEF o, m, y, x
<1>3. \A c, b : c.call \in {"over", "chmod", "close_dst", "close_src"} => CallOK(c) /\ Fits(c, sr, ds, g, p, q, b)
  BY DEF CallOK, Fits, Connects, Looks, Copied, Switches, Early, Aborted, IsStop, IsOn, IsOr
<1>4. /\ Standing(t0, sr, ds, g, p, q) /\ First(t0) = o /\ Bottom(t0) = o /\ IsStack(t0) /\ t0 # <<>>
      /\ \A l \in 0..11 : Over(l, t0)
  <2>1. Standing(<<>>, sr, ds, g, p, q)
    BY EmptyShape DEF Standing, AllFit
  <2>2. Bel(o, <<>>) /\ Over(Level(o), <<>>)
    BY <1>2, EmptyShape DEF Bel, MayEnd
  <2>3. Standing(t0, sr, ds, g, p, q) /\ First(t0) = o /\ Bottom(t0) = o
    BY <1>2, <1>3, <2>1, <2>2, Put1
  <2>4. IsStack(t0) /\ t0 # <<>>
    BY EmptyStack, StackOn
  <2>5. Level(o) = 12
    BY <1>2, Levels
  <2>6. ASSUME NEW l \in 0..11 PROVE Over(l, t0)
    BY <2>5, EmptyShape, EmptyStack, OnOver DEF Ordered
  <2> QED BY <2>3, <2>4, <2>6
<1> HIDE DEF t0
\* What is right under chmod, and that a switch may be put on it.
<1> DEFINE Good(t) == /\ Standing(t, sr, ds, g, p, q) /\ IsStack(t) /\ t # <<>> /\ Bottom(t).call = "over"
                      /\ IsOff(First(t)) \/ First(t).call = "over"
                      /\ \A l \in 0..11 : l < 11 \/ First(t).call = "over" \/ IsOff(First(t)) => Over(l, t)
<1>5. Good(t0)
  BY <1>2, <1>4
<1>6. ASSUME NEW w, NEW d \in Dirs, NEW t, Good(t) PROVE Good(Switch(w, d, FALSE, t))
  <2>1. CASE w # "ftp"
    BY <1>6, <2>1 DEF Switch
  <2>2. CASE w = "ftp"
    <3> DEFINE c == Call("setctl", [dir |-> d, on |-> FALSE])
               u == On(c, t)
    <3>1. c.call = "setctl" /\ c.arg.dir = d /\ c.arg.on = FALSE
      BY DEF Call
    <3>2. Switch(w, d, FALSE, t) = u
      BY <2>2 DEF Switch
    <3> HIDE DEF c
    <3>3. IsOff(c) /\ Level(c) = 11
      BY <3>1, Levels DEF IsOff, Switches
    <3>4. CallOK(c) /\ \A b : Fits(c, sr, ds, g, p, q, b)
      <4>1. c.arg.on \in BOOLEAN
        BY <3>1
      <4> QED BY <3>1, <4>1 DEF CallOK, Fits, Connects, Looks, Copied, Switches, Early, Aborted, IsStop, IsOn, IsOr
    <3>5. Bel(c, t)
      BY <1>6, <3>1, <3>3 DEF Bel, Below, Connects, Looks, Copied, Aborted, Switches, IsOr, IsStop, IsOn
    <3>6. \A l \in 0..11 : Over(l, t)
      BY <1>6
    <3>7. /\ Standing(u, sr, ds, g, p, q) /\ First(u) = c /\ Bottom(u) = Bottom(t)
      BY <1>6, <3>3, <3>4, <3>5, <3>6, Put1
    <3>8. IsStack(u) /\ u # <<>>
      BY <1>6, StackOn
    <3>9. ASSUME NEW l \in 0..11 PROVE Over(l, u)
      BY <1>6, <3>3, <3>6, OnOver DEF Ordered
    <3> QED BY <1>6, <3>2, <3>3, <3>7, <3>8, <3>9
  <2> QED BY <2>1, <2>2
<1>7. Good(t1) /\ Good(t2)
  <2>1. Good(t1)
    BY <1>5, <1>6 DEF Dirs
  <2> HIDE DEF t1
  <2>2. Good(t2)
    BY <2>1, <1>6 DEF Dirs
  <2> QED BY <2>1, <2>2 DEF t1
<1> HIDE DEF t2, t1
<1>8. /\ Standing(t3, sr, ds, g, p, q) /\ First(t3) = m /\ Bottom(t3).call = "over" /\ IsStack(t3) /\ t3 # <<>>
      /\ Over(9, t3) /\ Over(8, t3)
  <2>1. Level(m) = 10 /\ Over(10, t2) /\ Over(9, t2) /\ Over(8, t2)
    BY <1>2, <1>7, Levels
  <2>2. Bel(m, t2)
    BY <1>2, <1>7 DEF Bel, Below, Connects, Looks, Copied, Aborted, Switches, IsOr, IsStop, IsOn
  <2>3. Standing(t3, sr, ds, g, p, q) /\ First(t3) = m /\ Bottom(t3) = Bottom(t2)
    BY <1>2, <1>3, <1>7, <2>1, <2>2, Put1
  <2>4. IsStack(t3) /\ t3 # <<>> /\ Over(9, t3) /\ Over(8, t3)
    BY <1>7, <2>1, StackOn, OnOver DEF Ordered
  <2> QED BY <1>7, <2>3, <2>4
<1> HIDE DEF t3
<1>9. /\ Standing(t4, sr, ds, g, p, q) /\ First(t4) = y /\ Bottom(t4).call = "over" /\ IsStack(t4) /\ t4 # <<>>
      /\ Over(8, t4)
  <2>1. Level(y) = 9
    BY <1>2, Levels
  <2>2. Bel(y, t3)
    BY <1>2, <1>8 DEF Bel, Below, Connects, Looks, Copied, Aborted, Switches, IsOr, IsStop, IsOn, IsOff
  <2>3. Standing(t4, sr, ds, g, p, q) /\ First(t4) = y /\ Bottom(t4) = Bottom(t3)
    BY <1>2, <1>3, <1>8, <2>1, <2>2, Put1
  <2>4. IsStack(t4) /\ t4 # <<>> /\ Over(8, t4)
    BY <1>8, <2>1, StackOn, OnOver DEF Ordered
  <2> QED BY <1>8, <2>3, <2>4
<1> HIDE DEF t4
<1>10. /\ Standing(t5, sr, ds, g, p, q) /\ First(t5) = x /\ Rest(t5) = t4 /\ Bottom(t5).call = "over"
       /\ IsStack(t5) /\ t5 # <<>>
  <2>1. Level(x) = 8
    BY <1>2, Levels
  <2>2. Bel(x, t4)
    BY <1>2, <1>9 DEF Bel, Below, Connects, Looks, Copied, Aborted, Switches, IsOr, IsStop, IsOn, IsOff
  <2>3. Standing(t5, sr, ds, g, p, q) /\ First(t5) = x /\ Rest(t5) = t4 /\ Bottom(t5) = Bottom(t4)
    BY <1>2, <1>3, <1>9, <2>1, <2>2, Put1
  <2>4. IsStack(t5) /\ t5 # <<>>
    BY <1>9, StackOn
  <2> QED BY <1>9, <2>3, <2>4
<1> QED BY <1>1, <1>2, <1>9, <1>10

\* They may be all that is left to do.
LEMMA ClosingEnds ==
  ASSUME NEW a, NEW sr, NEW ds, NEW g, NEW p, NEW dir, NEW ok, NEW sup, sup # None, ds = "direct" => sr = None
  PROVE  Ends(Closing(a), sr, ds, g, p, dir, ok, sup)
<1>1. First(Closing(a)).call = "close_src" /\ Bottom(Closing(a)).call = "over"
  BY ClosingStands
<1> QED BY <1>1 DEF Ends, Copied

\* The call on top is the last one, and the copy ends.
LEMMA ThenClosing ==
  ASSUME NEW a, IsStack(todo), todo # <<>>, Rest(todo) = <<>>, Then(Closing(a))
  PROVE  todo' = Closing(a)
<1>1. IsStack(Closing(a))
  BY ClosingStands
<1>2. todo' = Cat(Closing(a), <<>>)
  BY StackSplit DEF Then, Cat
<1> QED BY <1>1, <1>2, EmptyStack, Glue

\* A copy is left, and its files are closed.
LEMMA GoClosing ==
  ASSUME NEW a, todo' = Closing(a), Kinds', super' # None, dst' = "direct" => src' = None,
         server'.up => Rests(server', ctl_connection_busy', direct') /\ KnownDir(server', cwdir')
                       /\ KnownType(server', isbinary')
  PROVE  FtpInv'
<1>1. Standing(todo, src, dst, got, put, poured)' /\ Ends(todo, src, dst, got, put, direct, okay, super)'
  BY ClosingStands, ClosingEnds
<1>2. First(todo').call = "close_src"
  BY ClosingStands
<1>3. TopAt(First(todo), First(Rest(todo)), server, ctl_connection_busy, direct, okay, answer, isbinary, cwdir)'
  BY <1>2, PlainTop DEF Special, Calm
<1>4. FlowKnown(First(todo), First(Rest(todo)), server, data, okay)'
  BY <1>2, FlowPlain
<1> QED BY <1>1, <1>3, <1>4, Shown

\* What is known of the call below the one on top.
LEMMA Second ==
  ASSUME NEW name, FtpInv, At(name), Rest(todo) # <<>>
  PROVE  LET d == First(Rest(todo)) IN
         /\ Below(First(todo), d) /\ CallOK(d) /\ Bel(d, Rest(Rest(todo))) /\ Over(Level(d), Rest(Rest(todo)))
         /\ Fits(d, src, dst, got, put, poured, Bottom(todo)) /\ Bottom(todo) = Bottom(Rest(todo))
         /\ CallOK(Bottom(todo))
<1> DEFINE c == First(todo)
           r == Rest(todo)
<1>1. /\ Bel(c, r) /\ Standing(r, src, dst, got, put, poured) /\ Bottom(todo) = Bottom(r)
  BY AtTop
<1> HIDE DEF c, r
<1>2. r # <<>>
  BY DEF r
<1>3. Below(c, First(r))
  BY <1>1, <1>2 DEF Bel
<1>4. /\ CallOK(First(r)) /\ Bel(First(r), Rest(r)) /\ Over(Level(First(r)), Rest(r))
      /\ Fits(First(r), src, dst, got, put, poured, Bottom(r))
  BY <1>1, <1>2, Splits DEF Standing
<1>5. CallOK(Bottom(r))
  BY <1>1, <1>2, ShapeBottom DEF Standing
<1> QED BY <1>1, <1>3, <1>4, <1>5 DEF c, r

\* A call has succeeded, or what was to follow it is left out.
LEMMA Or1 == FtpInv /\ or => FtpInv'
<1> SUFFICES ASSUME FtpInv, or PROVE FtpInv'
  OBVIOUS
<1> DEFINE c == First(todo)
           r == Rest(todo)
           d == First(r)
           b == Bottom(todo)
<1>1. At("or")
  BY DEF or
<1>2. /\ Kinds /\ harm = None /\ IsStack(todo) /\ todo # <<>> /\ c.call = "or" /\ c.arg = Arg
      /\ TopAt(c, d, server, ctl_connection_busy, direct, okay, answer, isbinary, cwdir)
      /\ Standing(r, src, dst, got, put, poured) /\ Ends(todo, src, dst, got, put, direct, okay, super)
      /\ CallOK(c) /\ Bel(c, r) /\ Fits(c, src, dst, got, put, poured, b)
      /\ (HasStart(todo) <=> c.call = "ftpfs_linear_start" \/ HasStart(r))
  BY <1>1, AtTop
<1>3. r # <<>>
  BY <1>2 DEF Bel, MayEnd, Looks, Copied
<1>4. Below(c, d) /\ Bel(d, Rest(r)) /\ Fits(d, src, dst, got, put, poured, b) /\ b = Bottom(r)
  BY <1>1, <1>3, Second
<1>5. UNCHANGED <<src, dst, got, put, super, isbinary, ctl_connection_busy, cwdir, server, data, stored, answer,
                  harm, okay, superVars, copyVars, cacheVars, poured, direct>>
  BY DEF or, Quietly, copyVars, superVars, poured, direct
<1>6. Kinds'
  BY <1>2, <1>5, KindsOptions DEF Options, superVars, cacheVars
<1>7. server.up => Rests(server, ctl_connection_busy, direct) /\ KnownDir(server, cwdir) /\ KnownType(server, isbinary)
  BY <1>2, TopKnown DEF Special, Calm
<1>8. okay \in BOOLEAN /\ (IsStop(c) \/ IsOr(c))
  <2>1. okay \in BOOLEAN
    BY <1>2 DEF Kinds, SuperOK
  <2>2. IsStop(c) \/ IsOr(c)
    BY <1>2 DEF IsStop, IsOr
  <2> QED BY <2>1, <2>2
<1>9. todo' = IF okay THEN r ELSE Arg
  <2>1. Tail(todo) = r
    BY <1>2, StackSplit
  <2> HIDE DEF r, c, d, b
  <2> QED BY <2>1 DEF or
<1>10. CASE okay
  <2> HIDE DEF c, d, b, r
  <2>1. todo' = r
    BY <1>9, <1>10
  <2>2. c = First(todo)
    BY DEF c
  <2>3. direct => d.call = "copy"
    <3>1. direct => dst = "direct"
      BY DEF direct
    <3>2. IsStop(c) => dst = None
      BY <1>2 DEF Fits, Nobody
    <3>3. IsOr(c) /\ dst # None => d.call = "copy"
      BY <1>4 DEF Below, Fits, Early, Connects, Nobody
    <3> QED BY <1>8, <3>1, <3>2, <3>3, FtpfsAssumption
  <2>4. super # None
    BY <1>2, <1>10, <2>2 DEF Ends
  <2>5. Ends(r, src, dst, got, put, direct, okay, super)
    <3>1. First(todo).call = "or" /\ Bottom(r) = Bottom(todo) /\ (HasStart(todo) => HasStart(r))
      BY <1>2, <1>4, <2>2 DEF b
    <3>2. Ends(todo, src, dst, got, put, direct, okay, super)
      BY <1>2
    <3>3. direct => First(r).call = "copy"
      BY <2>3 DEF d
    <3> QED BY <1>10, <2>4, <3>1, <3>2, <3>3 DEF Ends
  <2>6. \/ d.call \in {"setctl", "stale", "find", "seek", "copy", "initconn"}
        \/ d.call = "command" /\ d.arg = Command("DELE", None)
    BY <1>4, <1>8 DEF Below, IsOn, Switches
  <2>7. CASE d.call \in {"setctl", "stale", "find", "seek", "copy", "initconn"}
    <3>1. TopAt(d, First(Rest(r)), server, ctl_connection_busy, direct, okay, answer, isbinary, cwdir)
      BY <1>7, <2>7, PlainTop DEF Special, Calm
    <3>2. FlowKnown(d, First(Rest(r)), server, data, okay)
      BY <2>7, FlowPlain
    <3> QED BY <1>2, <1>5, <1>6, <2>1, <2>5, <3>1, <3>2, Shown DEF d
  <2>8. CASE d.call = "command" /\ d.arg = Command("DELE", None)
    <3>1. d.arg.name = "DELE"
      BY <2>8 DEF Command
    <3>2. First(Rest(r)).call \notin {"typed", "started"}
      <4>1. CASE Rest(r) = <<>>
        BY <4>1 DEF First, Do, Call
      <4>2. CASE Rest(r) # <<>>
        <5>1. Waiter(d.arg, First(Rest(r)))
          BY <1>4, <4>2, <2>8 DEF Bel, Below
        <5>2. First(Rest(r)).call = "started" \/ First(Rest(r)).call = "typed" => FALSE
          <6>1. ASSUME First(Rest(r)).call = "typed" PROVE FALSE
            BY <3>1, <5>1, <6>1 DEF Waiter, Command
          <6>2. ASSUME First(Rest(r)).call = "started" PROVE FALSE
            <7>1. d.arg = Command(First(Rest(r)).arg.cmd, First(Rest(r)).arg.arg)
              BY <5>1, <6>2 DEF Waiter
            <7>2. First(Rest(r)).arg \in Requests
              <8>1. Standing(Rest(r), src, dst, got, put, poured)
                BY <1>2, <1>3, Put0
              <8>2. CallOK(First(Rest(r)))
                BY <4>2, <8>1, Splits DEF Standing
              <8> QED BY <8>2, <6>2 DEF CallOK, Connects
            <7>3. First(Rest(r)).arg.cmd \in {"RETR", "STOR", "LIST"}
              BY <7>2, Requested DEF CmdOf
            <7> QED BY <3>1, <7>1, <7>3 DEF Command
          <6> QED BY <6>1, <6>2
        <5> QED BY <5>2
      <4> QED BY <4>1, <4>2
    <3>3. TopAt(d, First(Rest(r)), server, ctl_connection_busy, direct, okay, answer, isbinary, cwdir)
      BY <1>7, <2>8, <3>1, <3>2, CommandTop
    <3>4. FlowKnown(d, First(Rest(r)), server, data, okay)
      BY <2>8, <3>2, FlowPlain
    <3> QED BY <1>2, <1>5, <1>6, <2>1, <2>5, <3>3, <3>4, Shown DEF d
  <2> QED BY <2>6, <2>7, <2>8
<1>11. CASE ~ okay /\ IsStop(c)
  <2>1. todo' = <<>>
    BY <1>2, <1>9, <1>11 DEF IsStop
  <2>2. Nobody(src, dst, got, put)
    BY <1>2, <1>11 DEF Fits
  <2>3. Standing(<<>>, src, dst, got, put, poured)
    BY EmptyShape DEF Standing, AllFit
  <2>4. First(<<>>).call = "nothing" /\ Bottom(<<>>).call = "nothing"
    BY DEF First, Bottom, Do, Call
  <2>5. ~ direct /\ src = None /\ dst = None
    BY <2>2, FtpfsAssumption DEF direct, Nobody
  <2>6. Ends(<<>>, src, dst, got, put, direct, okay, super)
    BY <2>2, <2>4, <2>5, FtpfsAssumption DEF Ends, Copied
  <2>7. TopAt(First(<<>>), First(Rest(<<>>)), server, ctl_connection_busy, direct, okay, answer, isbinary, cwdir)
    BY <1>7, <2>4, PlainTop DEF Special, Calm
  <2>8. FlowKnown(First(<<>>), First(Rest(<<>>)), server, data, okay)
    BY <2>4, FlowPlain
  <2> QED BY <1>5, <1>6, <2>1, <2>3, <2>6, <2>7, <2>8, Shown
<1>12. CASE ~ okay /\ IsOr(c)
  <2>1. PICK a \in Copies : Arg = Closing(a)
    BY <1>2, <1>12 DEF CallOK, IsOr
  <2>2. todo' = Closing(a)
    BY <1>9, <1>12, <2>1
  <2>3. super # None /\ (dst = "direct" => src = None)
    BY <1>2, <1>12 DEF Ends, IsStop, IsOr
  <2> QED BY <1>5, <1>6, <1>7, <2>2, <2>3, GoClosing
<1> QED BY <1>8, <1>10, <1>11, <1>12

\* The superblock is there, or is not to be had: what follows does not have to know.
LEMMA Supered ==
  ASSUME FtpInv, At("get_super"), Return(okay'), Kinds', super' = None => ~ okay',
         UNCHANGED <<src, dst, got, put, data, harm, ctl_connection_busy, poured>>,
         server'.up => Quiet(server') /\ KnownDir(server', cwdir') /\ KnownType(server', isbinary')
  PROVE  FtpInv'
<1> DEFINE c == First(todo)
           r == Rest(todo)
           d == First(r)
           b == Bottom(todo)
<1>1. /\ IsStack(todo) /\ todo # <<>> /\ c.call = "get_super"
      /\ Standing(r, src, dst, got, put, poured) /\ Ends(todo, src, dst, got, put, direct, okay, super)
      /\ Bel(c, r) /\ Fits(c, src, dst, got, put, poured, b)
      /\ (HasStart(todo) <=> c.call = "ftpfs_linear_start" \/ HasStart(r))
  BY AtTop
<1>2. r # <<>>
  BY <1>1 DEF Bel, MayEnd, Looks, Copied
<1>3. Below(c, d) /\ b = Bottom(r)
  BY <1>2, Second
<1>4. todo' = r
  <2>1. Then(<<>>)
    BY DEF Return
  <2> QED BY <1>1, <2>1, Thens
<1> HIDE DEF c, r, d, b
<1>5. IsStop(d) /\ Nobody(src, dst, got, put)
  BY <1>1, <1>3 DEF Below, Fits
<1>6. ~ direct /\ direct' = direct
  BY <1>5, FtpfsAssumption DEF direct, Nobody
<1>7. Ends(r, src, dst, got, put, direct, okay', super')
  <2>1. First(todo).call = "get_super" /\ Bottom(r) = Bottom(todo) /\ (HasStart(todo) => HasStart(r))
    BY <1>1, <1>3 DEF c, b
  <2>2. src = None /\ dst = None
    BY <1>5 DEF Nobody
  <2>3. IsStop(First(r)) /\ First(r).call = "or"
    BY <1>5 DEF d, IsStop
  <2>4. Ends(todo, src, dst, got, put, direct, okay, super)
    BY <1>1
  <2> QED BY <1>5, <1>6, <2>1, <2>2, <2>3, <2>4, FtpfsAssumption DEF Ends
<1>8. TopAt(d, First(Rest(r)), server', ctl_connection_busy', direct', okay', answer', isbinary', cwdir')
  BY <1>5, PlainTop, QuietRests DEF Special, Calm, IsStop
<1>9. FlowKnown(d, First(Rest(r)), server', data', okay')
  BY <1>5, FlowPlain DEF IsStop
<1>10. Standing(todo, src, dst, got, put, poured)'
  BY <1>1, <1>4
<1>11. Ends(todo, src, dst, got, put, direct, okay, super)'
  BY <1>4, <1>6, <1>7
<1>12. TopAt(First(todo), First(Rest(todo)), server, ctl_connection_busy, direct, okay, answer, isbinary, cwdir)'
  BY <1>4, <1>8 DEF d
<1>13. FlowKnown(First(todo), First(Rest(todo)), server, data, okay)'
  BY <1>4, <1>9 DEF d
<1> QED BY <1>10, <1>11, <1>12, <1>13, Shown

\* A superblock is there, or is made with a new session, or is not to be had.
LEMMA GetSuper == FtpInv /\ get_super => FtpInv'
<1> SUFFICES ASSUME FtpInv, get_super PROVE FtpInv'
  OBVIOUS
<1> DEFINE c == First(todo)
           d == First(Rest(todo))
<1>1. At("get_super")
  BY DEF get_super
<1>2. /\ Kinds /\ harm = None /\ c.call = "get_super"
      /\ TopAt(c, d, server, ctl_connection_busy, direct, okay, answer, isbinary, cwdir)
      /\ Fits(c, src, dst, got, put, poured, Bottom(todo))
  BY <1>1, AtTop
<1> HIDE DEF c, d
<1>3. UNCHANGED <<src, dst, got, put, data, stored, answer, harm, copyVars, cacheVars>>
  BY DEF get_super, copyVars
<1>4. Nobody(src, dst, got, put) /\ src # "open" /\ ~ ctl_connection_busy /\ ~ direct
  BY <1>2, FtpfsAssumption DEF Fits, Nobody, Kinds, CopyOK, direct
<1>5. server.up => Quiet(server) /\ KnownDir(server, cwdir) /\ KnownType(server, isbinary)
  <2>1. server.up => Rests(server, ctl_connection_busy, direct) /\ KnownDir(server, cwdir) /\ KnownType(server, isbinary)
    BY <1>2, TopKnown DEF Special, Calm
  <2> QED BY <1>4, <2>1 DEF Rests
<1>6. okay' \in BOOLEAN /\ Return(okay')
  BY DEF get_super, Return
<1>7. CASE /\ UNCHANGED <<superVars, server>> /\ (super = None => okay' = FALSE)
  <2>1. Kinds' /\ UNCHANGED <<poured, super, isbinary, cwdir, ctl_connection_busy>>
    BY <1>2, <1>3, <1>6, <1>7, KindsOptions DEF Options, superVars, cacheVars, poured
  <2> QED BY <1>1, <1>3, <1>5, <1>6, <1>7, <2>1, Supered
<1>8. CASE /\ super = None /\ super' = "stale"
            /\ UNCHANGED <<use_passive_connection, strict, isbinary, cwdir, ctl_connection_busy, server>>
  <2>1. ServerOK' /\ CopyOK' /\ DataOK' /\ FlowOK' /\ UNCHANGED poured
    BY <1>2, <1>3, <1>8 DEF Kinds, ServerOK, CopyOK, copyVars, DataOK, FlowOK, poured
  <2>2. SuperOK'
    BY <1>2, <1>3, <1>6, <1>8, FtpfsAssumption DEF Kinds, SuperOK, copyVars, cacheVars
  <2> QED BY <1>1, <1>3, <1>5, <1>6, <1>8, <2>1, <2>2, Supered, FtpfsAssumption DEF Kinds
<1>9. CASE /\ super = None /\ super' = "up" /\ server' = Fresh /\ cwdir' = "home"
            /\ use_passive_connection' \in Passive /\ strict' \in Lists
            /\ UNCHANGED <<isbinary, ctl_connection_busy>>
  <2>1. ~ server.up /\ isbinary = None /\ server.xfer = None
    BY <1>2, <1>9, FtpfsAssumption DEF Kinds, SuperOK, ServerOK
  <2>2. Quiet(server') /\ KnownDir(server', cwdir') /\ KnownType(server', isbinary')
    BY <1>9, <2>1 DEF Fresh, Quiet, KnownDir, KnownType
  <2>3. ServerOK'
    <3>1. DOMAIN Fresh = Fields /\ {Fresh.up, Fresh.logged, Fresh.binary} \subseteq BOOLEAN
      BY DEF Fresh, Fields
    <3>2. Fresh.cwd \in Dirs \cup {"home"} /\ Fresh.ready = None /\ Fresh.xfer = None /\ Fresh.n \in 0..Blocks /\ Fresh.up
      BY FtpfsAssumption DEF Fresh
    <3> QED BY <1>9, <3>1, <3>2 DEF ServerOK
  <2>4. SuperOK'
    <3>1. use_passive_connection' \in BOOLEAN /\ strict' \in {"auto", "strict", "daring"}
      BY <1>9, FtpfsAssumption
    <3>2. server'.up
      BY <1>9 DEF Fresh
    <3> QED BY <1>2, <1>3, <1>6, <1>9, <2>1, <3>1, <3>2, FtpfsAssumption DEF Kinds, SuperOK, copyVars, cacheVars
  <2>5. server'.xfer = None
    BY <1>9 DEF Fresh
  <2>6. CopyOK' /\ DataOK' /\ FlowOK' /\ UNCHANGED poured
    BY <1>2, <1>3, <1>4, <1>9, <2>1, <2>5, FtpfsAssumption DEF Kinds, CopyOK, copyVars, DataOK, FlowOK, poured
  <2> QED BY <1>1, <1>3, <1>6, <1>9, <2>2, <2>3, <2>4, <2>6, Supered, FtpfsAssumption DEF Kinds
<1> QED BY <1>7, <1>8, <1>9 DEF get_super, Return

\* The call on top returns to one that waits for nothing.
LEMMA Returns ==
  ASSUME NEW name, FtpInv, At(name), name \notin Steady \cup Copied \cup {"over"}, Then(<<>>), Kinds',
         UNCHANGED <<src, dst, got, put, poured, direct, super, server, ctl_connection_busy>>,
         First(Rest(todo)).call \notin Special,
         server.up => Rests(server, ctl_connection_busy, direct) /\ KnownDir(server, cwdir')
                      /\ KnownType(server, isbinary')
  PROVE  FtpInv'
<1> DEFINE r == Rest(todo)
           d == First(r)
<1>1. IsStack(todo) /\ todo # <<>>
  BY AtTop
<1>2. todo' = r
  BY <1>1, Thens
<1>3. name \notin Steady /\ name \notin Copied \cup {"over"}
  OBVIOUS
<1>4. /\ Standing(todo, src, dst, got, put, poured)' /\ Ends(todo, src, dst, got, put, direct, okay, super)'
  BY <1>2, <1>3, Go0
<1>5. TopAt(d, First(Rest(r)), server, ctl_connection_busy, direct, okay', answer', isbinary', cwdir')
  BY PlainTop
<1>6. FlowKnown(d, First(Rest(r)), server, data', okay')
  BY FlowPlain DEF Special, Calm
<1> QED BY <1>2, <1>4, <1>5, <1>6, Shown

\* What may be under a switch.
LEMMA AtSwitches ==
  ASSUME NEW name \in Switches, FtpInv, At(name)
  PROVE  /\ Rest(todo) # <<>> /\ First(Rest(todo)).call \in {"setctl", "stale", "find", "over"}
         /\ Arg.dir \in Dirs /\ Arg.on \in BOOLEAN /\ First(todo).arg = Arg /\ First(todo).call = name
         /\ name \notin Steady \cup Copied \cup {"over"}
<1> DEFINE c == First(todo)
           r == Rest(todo)
<1>1. Bel(c, r) /\ CallOK(c) /\ c.call = name /\ Arg = c.arg
  BY AtTop
<1>2. r # <<>>
  BY <1>1 DEF Bel, MayEnd, Looks, Copied, Switches
<1>3. Below(c, First(r))
  BY <1>2, Second
<1>4. Arg.dir \in Dirs /\ Arg.on \in BOOLEAN
  BY <1>1 DEF CallOK
<1>5. IsOn(c) \/ IsOff(c)
  BY <1>1 DEF IsOn, IsOff
<1>6. First(r).call \in {"setctl", "stale", "find", "over"}
  BY <1>3, <1>5 DEF Below, IsOn, IsOff, Switches
<1>7. name \notin Steady \cup Copied \cup {"over"}
  BY DEF Switches, Steady, Copied
<1> QED BY <1>1, <1>2, <1>4, <1>6, <1>7

\* The listings are kept from now on, or no longer, where there is a superblock.
LEMMA Setctl == FtpInv /\ setctl => FtpInv'
<1> SUFFICES ASSUME FtpInv, setctl PROVE FtpInv'
  OBVIOUS
<1> DEFINE c == First(todo)
           r == Rest(todo)
           d == First(r)
           b == Bottom(todo)
<1>1. At("setctl") /\ "setctl" \in Switches
  BY DEF setctl, Switches
<1>2. /\ Kinds /\ harm = None /\ IsStack(todo) /\ todo # <<>> /\ c.call = "setctl"
      /\ TopAt(c, d, server, ctl_connection_busy, direct, okay, answer, isbinary, cwdir)
      /\ Fits(c, src, dst, got, put, poured, b)
  BY <1>1, AtTop
<1>3. r # <<>> /\ d.call \in {"setctl", "stale", "find", "over"} /\ Arg.dir \in Dirs /\ Arg.on \in BOOLEAN
      /\ c.arg = Arg /\ "setctl" \notin Steady \cup Copied \cup {"over"}
  BY <1>1, AtSwitches
<1>4. Below(c, d)
  BY <1>1, <1>3, Second
<1> HIDE DEF c, r, d, b
<1>5. UNCHANGED <<src, dst, got, put, super, isbinary, ctl_connection_busy, cwdir, server, data, stored, answer,
                  harm, okay, superVars, copyVars, cacheVars, poured, direct>>
  BY DEF setctl, Quietly, copyVars, superVars, poured, direct
<1>6. Kinds'
  BY <1>2, <1>5, KindsOptions DEF Options, superVars, cacheVars
<1>7. server.up => Rests(server, ctl_connection_busy, direct) /\ KnownDir(server, cwdir) /\ KnownType(server, isbinary)
  BY <1>2, TopKnown DEF Special, Calm
<1>8. CASE Then(<<>>)
  <2>1. First(Rest(todo)).call \notin Special
    BY <1>3 DEF Special, Calm, r, d
  <2> QED BY <1>1, <1>3, <1>5, <1>6, <1>7, <1>8, <2>1, Returns
<1>9. CASE Then(<<Find(Arg.dir), Call("stale", Arg)>>)
  <2> DEFINE x == Find(Arg.dir)
             y == Call("stale", Arg)
  <2>1. x.call = "find" /\ x.arg = Arg.dir /\ y.call = "stale" /\ y.arg = Arg
    BY DEF Find, Call
  <2>2. Then(<<x, y>>)
    BY <1>9
  <2> HIDE DEF x, y
  <2>3. todo' = On(x, On(y, r))
    BY <1>2, <2>2, Thens DEF r
  <2>4. CallOK(x) /\ CallOK(y)
    BY <1>3, <2>1 DEF CallOK, Looks, Connects, Copied, Switches
  <2>5. Below(x, y) /\ Level(x) = 20
    BY <2>1, Levels DEF Below, Connects, Looks, Copied, Aborted, Switches, IsOr, IsStop, IsOn, IsOff
  <2>6. (IsOn(y) <=> IsOn(c)) /\ (IsOff(y) <=> IsOff(c)) /\ (IsOn(c) \/ IsOff(c))
    BY <1>2, <1>3, <2>1 DEF IsOn, IsOff, Switches
  <2>7. Bel(y, r)
    BY <1>3, <1>4, <2>1, <2>6 DEF Bel, Below, Connects, Looks, Copied, Aborted, IsOr, IsStop, d
  <2>8. Level(y) = Level(c)
    BY <2>6, Levels
  <2>9. Fits(x, src, dst, got, put, poured, b) /\ Fits(y, src, dst, got, put, poured, b)
    BY <1>2, <2>1, <2>6 DEF Fits, Connects, Early, Aborted, IsOr, IsStop, IsOn, Switches
  <2>10. "setctl" \notin Steady
    BY <1>3
  <2>11. /\ Standing(todo, src, dst, got, put, poured)' /\ Ends(todo, src, dst, got, put, direct, okay, super)'
         /\ First(todo') = x /\ First(Rest(todo')) = y
    BY <1>1, <1>3, <1>5, <2>3, <2>4, <2>5, <2>7, <2>8, <2>9, <2>10, Go2 DEF r, c, b
  <2>12. TopAt(x, y, server, ctl_connection_busy, direct, okay, answer, isbinary, cwdir)
    BY <1>7, <2>1, PlainTop DEF Special, Calm
  <2>13. FlowKnown(x, y, server, data, okay)
    BY <2>1, FlowPlain
  <2> QED BY <1>5, <1>6, <2>11, <2>12, <2>13, Shown
<1> QED BY <1>8, <1>9 DEF setctl

\* ... in one directory.
LEMMA Stale1 == FtpInv /\ stale => FtpInv'
<1> SUFFICES ASSUME FtpInv, stale PROVE FtpInv'
  OBVIOUS
<1> DEFINE c == First(todo)
           d == First(Rest(todo))
<1>1. At("stale") /\ "stale" \in Switches
  BY DEF stale, Switches
<1>2. /\ Kinds /\ c.call = "stale"
      /\ TopAt(c, d, server, ctl_connection_busy, direct, okay, answer, isbinary, cwdir)
  BY <1>1, AtTop
<1>3. /\ d.call \in {"setctl", "stale", "find", "over"} /\ Arg.dir \in Dirs /\ Arg.on \in BOOLEAN
      /\ "stale" \notin Steady \cup Copied \cup {"over"}
  BY <1>1, AtSwitches
<1> HIDE DEF c, d
<1>4. UNCHANGED <<src, dst, got, put, super, isbinary, ctl_connection_busy, cwdir, server, data, stored, answer,
                  harm, okay, superVars, copyVars, lines, poured, direct>>
  BY DEF stale, Quietly, copyVars, superVars, poured, direct
<1>5. Kinds'
  <2>1. Options
    BY <1>2, KindsOptions
  <2>2. Unknown \in [Dirs -> Dirs \cup {None, "home"}]
    BY DEF Unknown
  <2>3. listing' \in {listing, Unknown}
    BY DEF stale, vfs_s_invalidate
  <2>4. want_stale' \in BOOLEAN /\ saved' \subseteq Dirs
    BY <1>3, <2>1 DEF stale, Options
  <2>5. Options'
    BY <1>4, <2>1, <2>2, <2>3, <2>4 DEF Options, superVars
  <2> QED BY <1>2, <1>4, <2>5, KindsOptions
<1>6. server.up => Rests(server, ctl_connection_busy, direct) /\ KnownDir(server, cwdir) /\ KnownType(server, isbinary)
  BY <1>2, TopKnown DEF Special, Calm
<1>7. First(Rest(todo)).call \notin Special /\ Then(<<>>)
  BY <1>3 DEF Special, Calm, d, stale
<1> QED BY <1>1, <1>3, <1>4, <1>5, <1>6, <1>7, Returns

\* A reader says where he wants to begin.
LEMMA Lseek == FtpInv /\ vfs_s_lseek => FtpInv'
<1> SUFFICES ASSUME FtpInv, vfs_s_lseek PROVE FtpInv'
  OBVIOUS
<1> DEFINE c == First(todo)
           r == Rest(todo)
           d == First(r)
<1>1. At("seek")
  BY DEF vfs_s_lseek
<1>2. /\ Kinds /\ c.call = "seek" /\ Bel(c, r)
      /\ TopAt(c, d, server, ctl_connection_busy, direct, okay, answer, isbinary, cwdir)
  BY <1>1, AtTop
<1>3. r # <<>>
  BY <1>2 DEF Bel, MayEnd, Looks, Copied
<1>4. Below(c, d)
  BY <1>1, <1>3, Second
<1> HIDE DEF c, d, r
<1>5. UNCHANGED <<src, dst, got, put, super, isbinary, ctl_connection_busy, cwdir, server, data, stored, answer,
                  harm, okay, superVars, cacheVars, poured, direct>>
  BY DEF vfs_s_lseek, Quietly, poured, direct, superVars
<1>6. Kinds'
  <2>1. ServerOK' /\ DataOK' /\ FlowOK'
    BY <1>2, <1>5 DEF Kinds, ServerOK, DataOK, FlowOK
  <2>2. SuperOK' /\ CopyOK'
    BY <1>2, <1>5 DEF Kinds, SuperOK, CopyOK, cacheVars, superVars, vfs_s_lseek
  <2> QED BY <2>1, <2>2 DEF Kinds
<1>7. server.up => Rests(server, ctl_connection_busy, direct) /\ KnownDir(server, cwdir) /\ KnownType(server, isbinary)
  BY <1>2, TopKnown DEF Special, Calm
<1>8. First(Rest(todo)).call \notin Special /\ Then(<<>>)
  BY <1>2, <1>4 DEF Below, Special, Calm, d, r, vfs_s_lseek
<1>9. "seek" \notin Steady \cup Copied \cup {"over"}
  BY DEF Steady, Copied
<1> QED BY <1>1, <1>5, <1>6, <1>7, <1>8, <1>9, Returns

\* The entry is looked for once more.
LEMMA Again == FtpInv /\ again => FtpInv'
<1> SUFFICES ASSUME FtpInv, again PROVE FtpInv'
  OBVIOUS
<1> DEFINE c == First(todo)
           r == Rest(todo)
           d == First(r)
           b == Bottom(todo)
<1>1. At("again")
  BY DEF again
<1>2. /\ Kinds /\ c.call = "again" /\ Bel(c, r) /\ IsStack(todo) /\ todo # <<>>
      /\ TopAt(c, d, server, ctl_connection_busy, direct, okay, answer, isbinary, cwdir)
  BY <1>1, AtTop
<1>3. r # <<>>
  BY <1>2 DEF Bel, MayEnd, Looks, Copied
<1>4. Below(c, d)
  BY <1>1, <1>3, Second
<1> HIDE DEF c, d, r, b
<1>5. UNCHANGED <<src, dst, got, put, super, isbinary, ctl_connection_busy, cwdir, server, data, stored, answer,
                  harm, okay, superVars, copyVars, cacheVars, poured, direct>>
  BY DEF again, Quietly, copyVars, superVars, poured, direct
<1>6. Kinds'
  BY <1>2, <1>5, KindsOptions DEF Options, superVars, cacheVars
<1>7. server.up => Rests(server, ctl_connection_busy, direct) /\ KnownDir(server, cwdir) /\ KnownType(server, isbinary)
  BY <1>2, TopKnown DEF Special, Calm
<1>8. d.call = "fh_open"
  BY <1>2, <1>4 DEF Below
<1>9. "again" \notin Steady \cup Copied \cup {"over"} /\ "again" \notin Steady
  BY DEF Steady, Copied
<1>10. CASE Then(<<>>)
  <2>1. First(Rest(todo)).call \notin Special
    BY <1>8 DEF Special, Calm, d, r
  <2> QED BY <1>1, <1>5, <1>6, <1>7, <1>9, <1>10, <2>1, Returns
<1>11. CASE Then(<<Find("to")>>)
  <2> DEFINE x == Find("to")
  <2>1. x.call = "find" /\ x.arg = "to"
    BY DEF Find, Call
  <2>2. Then(<<x>>)
    BY <1>11
  <2> HIDE DEF x
  <2>3. todo' = On(x, r)
    BY <1>2, <2>2, Thens DEF r
  <2>4. CallOK(x) /\ Level(x) = 20
    BY <2>1, Levels DEF CallOK, Looks, Connects, Copied, Switches, Dirs
  <2>5. Bel(x, r)
    BY <1>3, <1>8, <2>1 DEF Bel, Below, d, Connects, Looks, Copied, Aborted, Switches, IsOr, IsStop, IsOn, IsOff
  <2>6. Fits(x, src, dst, got, put, poured, b)
    BY <2>1 DEF Fits, Connects, Early, Aborted, IsOr, IsStop, IsOn, Switches
  <2>7. /\ Standing(todo, src, dst, got, put, poured)' /\ Ends(todo, src, dst, got, put, direct, okay, super)'
        /\ First(todo') = x
    BY <1>1, <1>3, <1>5, <1>9, <2>3, <2>4, <2>5, <2>6, Go1 DEF r, b
  <2>8. TopAt(x, First(Rest(todo')), server, ctl_connection_busy, direct, okay, answer, isbinary, cwdir)
    BY <1>7, <2>1, PlainTop DEF Special, Calm
  <2>9. FlowKnown(x, First(Rest(todo')), server, data, okay)
    BY <2>1, FlowPlain
  <2> QED BY <1>5, <1>6, <2>7, <2>8, <2>9, Shown
<1> QED BY <1>10, <1>11 DEF again

\* A file of the copy is opened: nothing was copied yet.
LEMMA AtOpens ==
  ASSUME NEW name \in {"ftpfs_linear_start", "fh_open", "stor_opened"}, FtpInv, At(name)
  PROVE  /\ Rest(todo) # <<>> /\ IsOr(First(Rest(todo))) /\ First(Rest(todo)).call = "or"
         /\ dst = None /\ got = 0 /\ put = 0 /\ src # "gone" /\ ~ direct /\ super # None
         /\ Bottom(todo).call = "copy" /\ Bottom(todo).arg \in Copies /\ Bottom(todo) = Bottom(Rest(todo))
<1> DEFINE c == First(todo)
           r == Rest(todo)
           b == Bottom(todo)
<1>1. Bel(c, r) /\ c.call = name /\ Fits(c, src, dst, got, put, poured, b)
      /\ Ends(todo, src, dst, got, put, direct, okay, super) /\ todo # <<>>
  BY AtTop
<1>2. r # <<>>
  BY <1>1 DEF Bel, MayEnd, Looks, Copied
<1>3. Below(c, First(r)) /\ CallOK(b) /\ b = Bottom(r)
  BY <1>2, Second
<1>4. super # None
  BY <1>1 DEF Ends, IsStop
<1> HIDE DEF c, r, b
<1>5. IsOr(First(r)) /\ First(r).call = "or"
  BY <1>1, <1>3 DEF Below, IsOr
<1>6. dst = None /\ got = 0 /\ put = 0 /\ src # "gone" /\ b.call = "copy"
  BY <1>1 DEF Fits, Early
<1>7. b.arg \in Copies
  BY <1>3, <1>6 DEF CallOK, Copied
<1>8. ~ direct
  BY <1>6, FtpfsAssumption DEF direct
<1> QED BY <1>2, <1>3, <1>4, <1>5, <1>6, <1>7, <1>8 DEF c, r, b

\* One that was not opened is given up.
LEMMA OpensNot ==
  ASSUME NEW name \in {"fh_open", "stor_opened"}, FtpInv, At(name), Then(<<>>), Kinds',
         UNCHANGED <<src, dst, got, put, poured, direct, super, server, ctl_connection_busy, cwdir, isbinary>>,
         server.up => Rests(server, ctl_connection_busy, direct)
  PROVE  FtpInv'
<1>1. First(Rest(todo)).call \notin Special
  BY AtOpens DEF Special, Calm
<1>2. name \notin Steady \cup Copied \cup {"over"}
  BY DEF Steady, Copied
<1>3. server.up => KnownDir(server, cwdir) /\ KnownType(server, isbinary)
  <2>1. /\ First(todo).call = name
        /\ TopAt(First(todo), First(Rest(todo)), server, ctl_connection_busy, direct, okay, answer, isbinary, cwdir)
    BY AtTop
  <2> QED BY <2>1, TopKnown
<1> QED BY <1>1, <1>2, <1>3, Returns

\* The source is open, and its transfer has begun.
LEMMA LinearStart == FtpInv /\ ftpfs_linear_start => FtpInv'
<1> SUFFICES ASSUME FtpInv, ftpfs_linear_start PROVE FtpInv'
  OBVIOUS
<1> DEFINE c == First(todo)
           r == Rest(todo)
           d == First(r)
           b == Bottom(todo)
<1>1. At("ftpfs_linear_start")
  BY DEF ftpfs_linear_start
<1>2. /\ Kinds /\ harm = None /\ c.call = "ftpfs_linear_start" /\ IsStack(todo) /\ todo # <<>>
      /\ TopAt(c, d, server, ctl_connection_busy, direct, okay, answer, isbinary, cwdir)
      /\ FlowKnown(c, d, server, data, okay)
      /\ Standing(r, src, dst, got, put, poured)
      /\ Fits(c, src, dst, got, put, poured, b) /\ Over(Level(c), r)
  BY <1>1, AtTop
<1>3. /\ r # <<>> /\ IsOr(d) /\ d.call = "or" /\ dst = None /\ got = 0 /\ put = 0 /\ src # "gone" /\ ~ direct
      /\ super # None /\ b.call = "copy" /\ b.arg \in Copies /\ b = Bottom(r)
  BY <1>1, AtOpens
<1> HIDE DEF c, r, d, b
<1>4. src = None /\ b.arg.from = "ftp"
  BY <1>2 DEF Fits
<1>5. UNCHANGED <<dst, got, put, super, isbinary, cwdir, server, data, stored, answer, harm, okay, cacheVars,
                  use_passive_connection, strict, wanted, exact, ended, told, poured, direct>>
  BY DEF ftpfs_linear_start, Quietly, poured, direct
<1>6. todo' = r
  BY <1>2, Thens DEF ftpfs_linear_start, r
<1>7. server.up => KnownDir(server, cwdir) /\ KnownType(server, isbinary)
  BY <1>2, TopKnown
<1>8. FlowKnown(d, First(Rest(r)), server, data, okay)
  BY <1>3, FlowPlain
<1>9. ~ ctl_connection_busy
  BY <1>2, <1>4, FtpfsAssumption DEF Kinds, CopyOK
<1>10. CASE okay
  <2>1. src' = "open" /\ ctl_connection_busy'
    BY <1>10 DEF ftpfs_linear_start
  <2>2. ctl_connection_busy' \in BOOLEAN
    BY <1>2, <1>10 DEF ftpfs_linear_start, Kinds, SuperOK
  <2>3. data["src"].flow <= Blocks
    BY <1>2, <1>10 DEF FlowKnown
  <2>4. Kinds'
    <3>1. ServerOK' /\ DataOK'
      BY <1>2, <1>5 DEF Kinds, ServerOK, DataOK
    <3>2. FlowOK'
      <4>1. data["src"].flow \in Nat
        BY <1>2, FtpfsAssumption DEF Kinds, DataOK, Pipes, Owner
      <4> QED BY <1>2, <1>3, <1>5, <2>3, <4>1, FtpfsAssumption DEF Kinds, FlowOK
    <3>3. SuperOK'
      BY <1>2, <1>5, <2>2 DEF Kinds, SuperOK, cacheVars
    <3>4. CopyOK'
      BY <1>2, <1>5, <2>1 DEF Kinds, CopyOK
    <3> QED BY <3>1, <3>2, <3>3, <3>4 DEF Kinds
  <2>5. Standing(r, "open", dst, got, put, poured)
    <3>1. Over(3, r) /\ Shape(r) /\ AllFit(r, None, None, got, put, poured, b)
      BY <1>2, <1>3, <1>4, Levels DEF Standing
    <3>2. AllFit(r, "open", None, got, put, poured, b)
      BY <1>3, <1>4, <3>1, FitStart
    <3> QED BY <1>3, <3>1, <3>2 DEF Standing
  <2>6. Ends(r, "open", dst, got, put, direct, okay, super)
    BY <1>3, <1>4, FtpfsAssumption DEF Ends, Copied
  <2>7. server.up => Rests(server, ctl_connection_busy', direct)
    BY <1>2, <1>10, <2>1 DEF TopAt, Expected, Rests
  <2>8. TopAt(d, First(Rest(r)), server, ctl_connection_busy', direct, okay, answer, isbinary, cwdir)
    BY <1>3, <1>7, <2>7, PlainTop DEF Special, Calm
  <2> QED BY <1>5, <1>6, <1>8, <2>1, <2>4, <2>5, <2>6, <2>8, Shown DEF d
<1>11. CASE ~ okay
  <2>1. src' = src
    BY <1>11 DEF ftpfs_linear_start
  <2>2. ctl_connection_busy' = ctl_connection_busy
    BY <1>2, <1>11 DEF ftpfs_linear_start, Kinds, SuperOK
  <2>3. Kinds'
    BY <1>2, <1>5, <2>1, <2>2, KindsOptions DEF Options, cacheVars, copyVars
  <2>4. Standing(r, src, dst, got, put, poured)
    BY <1>2
  <2>5. Ends(r, src, dst, got, put, direct, okay, super)
    BY <1>3, <1>4, <1>11, FtpfsAssumption DEF Ends, d, Copied
  <2>6. server.up => Rests(server, ctl_connection_busy, direct)
    BY <1>2, <1>11 DEF TopAt, Expected
  <2>7. TopAt(d, First(Rest(r)), server, ctl_connection_busy, direct, okay, answer, isbinary, cwdir)
    BY <1>3, <1>7, <2>6, PlainTop DEF Special, Calm
  <2> QED BY <1>5, <1>6, <1>8, <2>1, <2>2, <2>3, <2>4, <2>5, <2>7, Shown DEF d
<1> QED BY <1>10, <1>11

\* The target is opened: straight to the server, or in a local file.
LEMMA FhOpen == FtpInv /\ ftpfs_fh_open => FtpInv'
<1> SUFFICES ASSUME FtpInv, ftpfs_fh_open PROVE FtpInv'
  OBVIOUS
<1> DEFINE c == First(todo)
           r == Rest(todo)
           d == First(r)
           b == Bottom(todo)
<1>1. At("fh_open")
  BY DEF ftpfs_fh_open
<1>2. /\ Kinds /\ harm = None /\ c.call = "fh_open" /\ IsStack(todo) /\ todo # <<>>
      /\ TopAt(c, d, server, ctl_connection_busy, direct, okay, answer, isbinary, cwdir)
      /\ Standing(r, src, dst, got, put, poured) /\ Ends(todo, src, dst, got, put, direct, okay, super)
      /\ Fits(c, src, dst, got, put, poured, b) /\ Over(Level(c), r)
      /\ (HasStart(todo) <=> c.call = "ftpfs_linear_start" \/ HasStart(r))
  BY <1>1, AtTop
<1>3. /\ r # <<>> /\ IsOr(d) /\ d.call = "or" /\ dst = None /\ got = 0 /\ put = 0 /\ src # "gone" /\ ~ direct
      /\ super # None /\ b.call = "copy" /\ b.arg \in Copies /\ b = Bottom(r)
  BY <1>1, AtOpens
<1>4. First(todo).call = "fh_open" /\ Bottom(todo) = b
  BY <1>2
<1> HIDE DEF c, r, d, b
<1>5. UNCHANGED <<src, got, put, super, isbinary, cwdir, server, data, stored, answer, okay, cacheVars,
                  superVars, ctl_connection_busy, use_passive_connection, strict, wanted, exact, ended, told, poured>>
  BY DEF ftpfs_fh_open, Quietly, poured, superVars
<1>6. dst' \in {dst, "temp"} /\ harm' \in {harm, "crashed"}
  BY DEF ftpfs_fh_open
<1>7. ~ direct' /\ direct' = direct
  <2>1. ~ direct'
    BY <1>3, <1>6, FtpfsAssumption DEF direct
  <2>2. direct \in BOOLEAN /\ direct' \in BOOLEAN
    <3>1. data["dst"].client \in BOOLEAN
      BY <1>2 DEF Kinds, DataOK, Pipes, Owner
    <3> QED BY <1>5, <3>1 DEF direct
  <2> QED BY <1>3, <2>1, <2>2
<1>8. Kinds'
  <2>1. ServerOK' /\ DataOK' /\ FlowOK'
    BY <1>2, <1>5 DEF Kinds, ServerOK, DataOK, FlowOK
  <2>2. SuperOK'
    BY <1>2, <1>5 DEF Kinds, SuperOK, cacheVars
  <2>3. CopyOK'
    BY <1>2, <1>5, <1>6 DEF Kinds, CopyOK
  <2> QED BY <2>1, <2>2, <2>3 DEF Kinds
<1>9. server.up => Rests(server, ctl_connection_busy, direct) /\ KnownDir(server, cwdir) /\ KnownType(server, isbinary)
  BY <1>2, TopKnown DEF Special, Calm
<1>10. CASE ~ okay
  <2>1. harm' # None
    BY <1>10, FtpfsAssumption DEF ftpfs_fh_open
  <2> QED BY <1>8, <2>1, Stopped
<1>11. CASE okay /\ ctl_connection_busy
  <2>1. dst' = "temp" /\ harm' = None
    BY <1>2, <1>11 DEF ftpfs_fh_open
  <2>2. todo' = r
    BY <1>2, <1>11, Thens DEF ftpfs_fh_open, r
  <2>3. src = "open"
    BY <1>2, <1>11 DEF Kinds, CopyOK
  <2>4. Standing(r, src, "temp", got, put, poured)
    <3>1. Over(6, r) /\ Shape(r) /\ AllFit(r, src, dst, got, put, poured, b)
      BY <1>2, <1>3, Levels DEF Standing
    <3>2. AllFit(r, src, "temp", got, put, poured, b)
      BY <1>3, <3>1, FitOpen, FtpfsAssumption
    <3> QED BY <1>3, <3>1, <3>2 DEF Standing
  <2>5. Ends(r, src, "temp", got, put, direct, okay, super)
    <3>1. b.arg.from # "local"
      BY <1>2, <1>3, <1>4, <2>3, FtpfsAssumption DEF Ends, Copied
    <3> QED BY <1>3, <2>3, <3>1, FtpfsAssumption DEF Ends, Copied
  <2>6. TopAt(d, First(Rest(r)), server, ctl_connection_busy, direct, okay, answer, isbinary, cwdir)
    BY <1>3, <1>9, PlainTop DEF Special, Calm
  <2>7. FlowKnown(d, First(Rest(r)), server, data, okay)
    BY <1>3, FlowPlain
  <2> QED BY <1>5, <1>7, <1>8, <2>1, <2>2, <2>4, <2>5, <2>6, <2>7, Shown DEF d
<1>12. CASE okay /\ ~ ctl_connection_busy
  <2>1. dst' = dst /\ harm' = None
    BY <1>2, <1>12 DEF ftpfs_fh_open
  <2> DEFINE q == Request("dst", "STOR", None, TRUE)
             x == Call("initconn", q)
             y == Do("stor_opened")
  <2>2. q \in Requests /\ q.owner = "dst" /\ x.call = "initconn" /\ x.arg = q /\ y.call = "stor_opened"
    BY DEF Call, Do, Requests, Request
  <2>3. Then(<<x, y>>)
    BY <1>12 DEF ftpfs_fh_open, ftpfs_open_data_connection
  <2> HIDE DEF x, y, q
  <2>4. todo' = On(x, On(y, r))
    BY <1>2, <2>3, Thens DEF r
  <2>5. CallOK(x) /\ CallOK(y)
    BY <2>2 DEF CallOK, Looks, Connects, Copied, Switches
  <2>6. Below(x, y) /\ Level(x) = 20 /\ Level(y) = Level(c)
    BY <1>2, <2>2, Levels DEF Below, Asker, Connects, Looks, Copied, Aborted, Switches, IsOr, IsStop, IsOn, IsOff
  <2>7. Bel(y, r)
    BY <1>3, <2>2 DEF Bel, Below, Connects, Looks, Copied, Aborted, Switches, IsOr, IsStop, IsOn, IsOff, d
  <2>8. src = None
    BY <1>2, <1>3, <1>12 DEF Kinds, CopyOK
  <2>9. b.arg.from = "local"
    <3>1. b.arg.from \in {"ftp", "local"}
      BY <1>3 DEF Copies
    <3>2. ~ HasStart(r)
      <4>1. Over(6, r) /\ Shape(r)
        BY <1>2, Levels DEF Standing
      <4> QED BY <4>1, Under DEF HasStart
    <3>3. ~ HasStart(todo)
      BY <1>2, <3>2
    <3>4. Ends(todo, src, dst, got, put, direct, okay, super)
      BY <1>2
    <3> QED BY <1>3, <1>4, <2>8, <3>1, <3>3, <3>4 DEF Ends, Copied
  <2>10. Fits(x, src, dst, got, put, poured, b) /\ Fits(y, src, dst, got, put, poured, b)
    BY <1>3, <2>2, <2>8, <2>9 DEF Fits, Connects, Early, Aborted, IsOr, IsStop, IsOn, Switches
  <2>11. "fh_open" \notin Steady
    BY DEF Steady
  <2>12. /\ Standing(todo, src, dst, got, put, poured)' /\ Ends(todo, src, dst, got, put, direct, okay, super)'
         /\ First(todo') = x /\ First(Rest(todo')) = y
    BY <1>1, <1>3, <1>5, <1>7, <2>1, <2>4, <2>5, <2>6, <2>7, <2>10, <2>11, Go2 DEF r, c, b
  <2>13. TopAt(x, y, server, ctl_connection_busy, direct, okay, answer, isbinary, cwdir)
    BY <1>9, <2>2, PlainTop DEF Special, Calm
  <2>14. FlowKnown(x, y, server, data, okay)
    BY <2>2, FlowPlain
  <2> QED BY <1>5, <1>7, <1>8, <2>12, <2>13, <2>14, Shown
<1> QED BY <1>10, <1>11, <1>12

\* The server takes the target.
LEMMA StorOpened == FtpInv /\ stor_opened => FtpInv'
<1> SUFFICES ASSUME FtpInv, stor_opened PROVE FtpInv'
  OBVIOUS
<1> DEFINE c == First(todo)
           r == Rest(todo)
           d == First(r)
           b == Bottom(todo)
<1>1. At("stor_opened")
  BY DEF stor_opened
<1>2. /\ Kinds /\ harm = None /\ c.call = "stor_opened" /\ IsStack(todo) /\ todo # <<>>
      /\ TopAt(c, d, server, ctl_connection_busy, direct, okay, answer, isbinary, cwdir)
      /\ FlowKnown(c, d, server, data, okay)
      /\ Standing(r, src, dst, got, put, poured)
      /\ Fits(c, src, dst, got, put, poured, b) /\ Over(Level(c), r)
  BY <1>1, AtTop
<1>3. /\ r # <<>> /\ IsOr(d) /\ d.call = "or" /\ dst = None /\ got = 0 /\ put = 0 /\ src # "gone" /\ ~ direct
      /\ super # None /\ b.call = "copy" /\ b.arg \in Copies /\ b = Bottom(r)
  BY <1>1, AtOpens
<1> HIDE DEF c, r, d, b
<1>4. src = None /\ b.arg.from = "local"
  BY <1>2 DEF Fits
<1>5. UNCHANGED <<src, got, put, super, isbinary, cwdir, server, data, stored, answer, harm, okay, cacheVars, superVars,
                  ctl_connection_busy, use_passive_connection, strict, wanted, exact, ended, told, poured>>
  BY DEF stor_opened, Quietly, poured, superVars
<1>6. Then(<<>>) /\ dst' \in {dst, "direct"}
  BY DEF stor_opened
<1>7. Kinds'
  <2>1. ServerOK' /\ DataOK' /\ FlowOK'
    BY <1>2, <1>5 DEF Kinds, ServerOK, DataOK, FlowOK
  <2>2. SuperOK'
    BY <1>2, <1>5 DEF Kinds, SuperOK, cacheVars
  <2>3. CopyOK'
    BY <1>2, <1>5, <1>6 DEF Kinds, CopyOK
  <2> QED BY <2>1, <2>2, <2>3 DEF Kinds
<1>8. CASE ~ okay
  <2>1. server.up => Rests(server, ctl_connection_busy, direct)
    BY <1>2, <1>8 DEF TopAt, Expected
  <2>2. dst' = dst /\ UNCHANGED direct
    BY <1>5, <1>8 DEF stor_opened, direct
  <2> QED BY <1>1, <1>5, <1>6, <1>7, <2>1, <2>2, OpensNot
<1>9. CASE okay
  <2>1. dst' = "direct"
    BY <1>9 DEF stor_opened
  <2>2. direct'
    BY <1>2, <1>5, <1>9, <2>1 DEF direct, FlowKnown
  <2>3. todo' = r
    BY <1>2, <1>6, Thens DEF r
  <2>4. Standing(r, src, "direct", got, put, poured)
    <3>1. Over(6, r) /\ Shape(r) /\ AllFit(r, src, dst, got, put, poured, b)
      BY <1>2, <1>3, Levels DEF Standing
    <3>2. AllFit(r, src, "direct", got, put, poured, b)
      BY <1>3, <3>1, FitOpen, FtpfsAssumption
    <3> QED BY <1>3, <3>1, <3>2 DEF Standing
  <2>5. Ends(r, src, "direct", got, put, direct', okay, super)
    BY <1>3, <1>4, FtpfsAssumption DEF Ends, Copied, d
  <2>6. server.up => Rests(server, ctl_connection_busy, direct')
    <3>1. ~ ctl_connection_busy
      BY <1>2, <1>4, FtpfsAssumption DEF Kinds, CopyOK
    <3>2. server.up => Owes(server, "STOR")
      BY <1>2, <1>9 DEF TopAt, Expected
    <3> QED BY <2>2, <3>1, <3>2 DEF Rests
  <2>7. server.up => KnownDir(server, cwdir) /\ KnownType(server, isbinary)
    BY <1>2, TopKnown
  <2>8. TopAt(d, First(Rest(r)), server, ctl_connection_busy, direct', okay, answer, isbinary, cwdir)
    BY <1>3, <2>6, <2>7, PlainTop DEF Special, Calm
  <2>9. FlowKnown(d, First(Rest(r)), server, data, okay)
    BY <1>3, FlowPlain
  <2> QED BY <1>5, <1>7, <2>1, <2>3, <2>4, <2>5, <2>8, <2>9, Shown DEF d
<1> QED BY <1>8, <1>9

-----------------------------------------------------------------------------
(* Copying *)

\* The last call of a copy stands alone.
LEMMA CopyStands ==
  ASSUME NEW x, x.call \in Copied, x.arg \in Copies, NEW sr, NEW ds, NEW g, NEW p, NEW q,
         x.call = "read_end" => sr # "open"
  PROVE  /\ Standing(On(x, <<>>), sr, ds, g, p, q) /\ IsStack(On(x, <<>>)) /\ On(x, <<>>) # <<>>
         /\ First(On(x, <<>>)) = x /\ Rest(On(x, <<>>)) = <<>> /\ Bottom(On(x, <<>>)) = x
         /\ ~ HasStart(On(x, <<>>))
<1>1. Standing(<<>>, sr, ds, g, p, q)
  BY EmptyShape DEF Standing, AllFit
<1>2. CallOK(x) /\ Bel(x, <<>>)
  BY DEF CallOK, Bel, MayEnd, Connects, Looks, Copied, Switches
<1>3. Over(Level(x), <<>>)
  BY EmptyShape
<1>4. Fits(x, sr, ds, g, p, q, x)
  BY DEF Fits, Connects, Copied, Early, Aborted, Switches, IsStop, IsOn, IsOr
<1>5. ~ HasStart(<<>>)
  <2>1. Len(<<>>) = 0
    OBVIOUS
  <2> QED BY <2>1 DEF HasStart
<1>6. x.call # "ftpfs_linear_start"
  BY DEF Copied
<1>7. IsStack(On(x, <<>>)) /\ On(x, <<>>) # <<>>
  BY EmptyStack, StackOn
<1> QED BY <1>1, <1>2, <1>3, <1>4, <1>5, <1>6, <1>7, Put1

\* What is known while a block is copied.
LEMMA AtCopied ==
  ASSUME NEW name \in Copied, FtpInv, At(name)
  PROVE  /\ Rest(todo) = <<>> /\ Arg \in Copies /\ Arg.from \in {"ftp", "local"} /\ First(todo).call = name
         /\ First(todo).arg = Arg /\ todo = On(First(todo), <<>>) /\ super # None
         /\ (src = "open" => name = "copy") /\ (dst = "direct" => src = None) /\ (direct => name = "copy")
         /\ (Arg.from = "ftp" => dst # "direct" /\ src # None) /\ (Arg.from = "local" => src = None)
<1> DEFINE c == First(todo)
           r == Rest(todo)
<1>1. /\ Bel(c, r) /\ c.call = name /\ CallOK(c) /\ Arg = c.arg /\ IsStack(todo) /\ todo # <<>>
      /\ Ends(todo, src, dst, got, put, direct, okay, super) /\ Standing(todo, src, dst, got, put, poured)
      /\ Bottom(todo) = IF r = <<>> THEN c ELSE Bottom(r)
      /\ Fits(c, src, dst, got, put, poured, Bottom(todo))
  BY AtTop
<1>2. todo = On(c, r)
  BY <1>1, StackSplit
<1> HIDE DEF c, r
<1>3. r = <<>>
  BY <1>1 DEF Bel, Below
<1>4. Arg \in Copies /\ Bottom(todo) = c
  BY <1>1, <1>3 DEF CallOK
<1>5. Arg.from \in {"ftp", "local"}
  BY <1>4 DEF Copies
<1>6. ~ HasStart(todo)
  BY <1>1, <1>2, <1>3, <1>4, CopyStands DEF Fits
<1>7. First(todo) = c
  BY DEF c
<1>8. super # None
  BY <1>1, <1>7 DEF Ends, Copied, IsStop
<1>9. src = "open" => name = "copy"
  BY <1>1, <1>4, <1>7 DEF Ends, Copied, Fits
<1>10. (dst = "direct" => src = None) /\ (direct => name = "copy")
  BY <1>1, <1>7 DEF Ends, Copied
<1>11. (Arg.from = "ftp" => dst # "direct" /\ src # None) /\ (Arg.from = "local" => src = None)
  BY <1>1, <1>4, <1>6, <1>7 DEF Ends, Copied
<1> QED BY <1>1, <1>2, <1>3, <1>4, <1>5, <1>8, <1>9, <1>10, <1>11 DEF c, r

\* The copy goes on.
LEMMA GoCopy ==
  ASSUME NEW x, x.call \in {"copy", "read_failed"}, x.arg \in Copies, todo' = On(x, <<>>), Kinds',
         super' # None, src' = "open" => x.call = "copy", dst' = "direct" => src' = None,
         direct' => x.call = "copy", x.arg.from = "ftp" => dst' # "direct" /\ src' # None,
         x.arg.from = "local" => src' = None,
         server'.up => Rests(server', ctl_connection_busy', direct') /\ KnownDir(server', cwdir')
                       /\ KnownType(server', isbinary')
  PROVE  FtpInv'
<1>1. x.call \in Copied
  BY DEF Copied
<1>2. Standing(todo, src, dst, got, put, poured)'
  BY <1>1, CopyStands
<1>3. First(todo') = x /\ Bottom(todo') = x /\ todo' # <<>>
  BY <1>1, CopyStands
<1>4. Ends(todo, src, dst, got, put, direct, okay, super)'
  BY <1>1, <1>3 DEF Ends, Copied
<1>5. TopAt(First(todo), First(Rest(todo)), server, ctl_connection_busy, direct, okay, answer, isbinary, cwdir)'
  BY <1>3, PlainTop DEF Special, Calm
<1>6. FlowKnown(First(todo), First(Rest(todo)), server, data, okay)'
  BY <1>3, FlowPlain
<1> QED BY <1>2, <1>4, <1>5, <1>6, Shown

\* The call on top is replaced by another of its kind.
LEMMA ThenCopy ==
  ASSUME NEW name \in Copied, FtpInv, At(name), NEW x, Then(<<x>>)
  PROVE  todo' = On(x, <<>>)
<1>1. IsStack(todo) /\ todo # <<>> /\ Rest(todo) = <<>>
  BY AtTop, AtCopied
<1> QED BY <1>1, Thens

\* The copy has come to its end.
LEMMA CopyEnds ==
  ASSUME NEW name \in Copied, FtpInv, At(name), Then(Closing(Arg)), Kinds',
         UNCHANGED <<super, src, dst, ctl_connection_busy, server, cwdir, isbinary, direct>>,
         server.up => Rests(server, ctl_connection_busy, direct)
  PROVE  FtpInv'
<1>1. IsStack(todo) /\ todo # <<>> /\ Rest(todo) = <<>>
  BY AtTop, AtCopied
<1>2. todo' = Closing(Arg)
  BY <1>1, ThenClosing
<1>3. super # None /\ (dst = "direct" => src = None)
  BY AtCopied
<1>4. server.up => KnownDir(server, cwdir) /\ KnownType(server, isbinary)
  <2>1. /\ First(todo).call = name
        /\ TopAt(First(todo), First(Rest(todo)), server, ctl_connection_busy, direct, okay, answer, isbinary, cwdir)
    BY AtTop
  <2> QED BY <2>1, TopKnown DEF Copied
<1> QED BY <1>2, <1>3, <1>4, GoClosing

\* The user interrupts a copy.
LEMMA UserAbort == FtpInv /\ user_abort => FtpInv'
<1> SUFFICES ASSUME FtpInv, user_abort PROVE FtpInv'
  OBVIOUS
<1>1. At("copy") /\ "copy" \in Copied
  BY DEF user_abort, Copied
<1>2. /\ Kinds /\ First(todo).call = "copy"
      /\ TopAt(First(todo), First(Rest(todo)), server, ctl_connection_busy, direct, okay, answer, isbinary, cwdir)
  BY <1>1, AtTop
<1>3. UNCHANGED <<src, dst, got, put, super, isbinary, ctl_connection_busy, cwdir, server, data, stored, answer,
                  harm, okay, superVars, copyVars, cacheVars, poured, direct>>
  BY DEF user_abort, Quietly, copyVars, superVars, poured, direct
<1>4. Kinds'
  BY <1>2, <1>3, KindsOptions DEF Options, superVars, cacheVars
<1>5. server.up => Rests(server, ctl_connection_busy, direct)
  BY <1>2, TopKnown DEF Special, Calm
<1>6. Then(Closing(Arg))
  BY DEF user_abort
<1> QED BY <1>1, <1>3, <1>4, <1>5, <1>6, CopyEnds

\* The type or the reply does not matter to the copy.
LEMMA ReadFailed == FtpInv /\ read_failed => FtpInv'
<1> SUFFICES ASSUME FtpInv, read_failed PROVE FtpInv'
  OBVIOUS
<1>1. At("read_failed") /\ "read_failed" \in Copied
  BY DEF read_failed, Copied
<1>2. /\ Kinds /\ First(todo).call = "read_failed"
      /\ TopAt(First(todo), First(Rest(todo)), server, ctl_connection_busy, direct, okay, answer, isbinary, cwdir)
  BY <1>1, AtTop
<1>3. UNCHANGED <<src, dst, got, put, super, isbinary, ctl_connection_busy, cwdir, server, data, stored, answer,
                  harm, okay, superVars, copyVars, cacheVars, poured, direct>>
  BY DEF read_failed, Quietly, copyVars, superVars, poured, direct
<1>4. Kinds'
  BY <1>2, <1>3, KindsOptions DEF Options, superVars, cacheVars
<1>5. server.up => Rests(server, ctl_connection_busy, direct) /\ KnownDir(server, cwdir) /\ KnownType(server, isbinary)
  BY <1>2, TopKnown DEF Special, Calm
<1>6. CASE Then(Closing(Arg))
  BY <1>1, <1>3, <1>4, <1>5, <1>6, CopyEnds
<1>7. CASE Then(<<Call("copy", Arg)>>)
  <2> DEFINE x == Call("copy", Arg)
  <2>1. x.call = "copy" /\ x.arg = Arg
    BY DEF Call
  <2>2. Then(<<x>>)
    BY <1>7
  <2> HIDE DEF x
  <2>3. todo' = On(x, <<>>)
    BY <1>1, <2>2, ThenCopy
  <2>4. /\ Arg \in Copies /\ super # None /\ (dst = "direct" => src = None) /\ (direct => x.call = "copy")
        /\ (Arg.from = "ftp" => dst # "direct" /\ src # None) /\ (Arg.from = "local" => src = None)
    BY <1>1, <2>1, AtCopied
  <2> QED BY <1>3, <1>4, <1>5, <2>1, <2>3, <2>4, GoCopy
<1> QED BY <1>6, <1>7 DEF read_failed

\* The source has been read to its end.
LEMMA ReadEnd == FtpInv /\ read_end => FtpInv'
<1> SUFFICES ASSUME FtpInv, read_end PROVE FtpInv'
  OBVIOUS
<1>1. At("read_end") /\ "read_end" \in Copied
  BY DEF read_end, Copied
<1>2. /\ Kinds /\ First(todo).call = "read_end"
      /\ TopAt(First(todo), First(Rest(todo)), server, ctl_connection_busy, direct, okay, answer, isbinary, cwdir)
  BY <1>1, AtTop
<1>3. UNCHANGED <<src, dst, got, put, super, isbinary, ctl_connection_busy, cwdir, server, data, stored, answer,
                  harm, okay, superVars, cacheVars, poured, direct, wanted, exact, told>>
  BY DEF read_end, Quietly, superVars, poured, direct
<1>4. Kinds'
  <2>1. ServerOK' /\ DataOK' /\ FlowOK' /\ CopyOK'
    BY <1>2, <1>3 DEF Kinds, ServerOK, DataOK, FlowOK, CopyOK
  <2>2. ended' \in BOOLEAN
    BY DEF read_end, Complete
  <2>3. SuperOK'
    BY <1>2, <1>3, <2>2 DEF Kinds, SuperOK, cacheVars, superVars
  <2> QED BY <2>1, <2>3 DEF Kinds
<1>5. server.up => Quiet(server) /\ KnownDir(server, cwdir) /\ KnownType(server, isbinary)
  BY <1>2, TopKnown DEF Calm
<1>6. CASE Then(Closing(Arg))
  BY <1>1, <1>3, <1>4, <1>5, <1>6, QuietRests, CopyEnds
<1>7. CASE Then(<<Call("read_failed", Arg)>>)
  <2> DEFINE x == Call("read_failed", Arg)
  <2>1. x.call = "read_failed" /\ x.arg = Arg
    BY DEF Call
  <2>2. Then(<<x>>)
    BY <1>7
  <2> HIDE DEF x
  <2>3. todo' = On(x, <<>>)
    BY <1>1, <2>2, ThenCopy
  <2>4. /\ Arg \in Copies /\ super # None /\ (dst = "direct" => src = None) /\ ~ direct /\ src # "open"
        /\ (Arg.from = "ftp" => dst # "direct" /\ src # None) /\ (Arg.from = "local" => src = None)
    BY <1>1, AtCopied
  <2> QED BY <1>3, <1>4, <1>5, <2>1, <2>3, <2>4, QuietRests, GoCopy
<1> QED BY <1>6, <1>7 DEF read_end

-----------------------------------------------------------------------------
(* Blocks *)

\* How much the server has, and may yet get, of the target is no more than was written.
LEMMA Pour1 ==
  ASSUME Kinds
  PROVE  /\ poured \in Nat /\ (server.xfer = "dst" => poured = stored.n + data["dst"].flow /\ poured <= put)
         /\ \A o \in Owner : data[o] \in Pipes /\ data[o].flow \in Nat
<1>1. \A o \in Owner : data[o] \in Pipes /\ data[o].flow \in Nat
  BY FtpfsAssumption DEF Kinds, DataOK, Pipes
<1>2. data["dst"].flow \in Nat
  BY <1>1 DEF Owner
<1>3. server.xfer = "dst" => stored.n \in Nat /\ stored.n + data["dst"].flow <= put
  BY FtpfsAssumption DEF Kinds, FlowOK
<1> QED BY <1>1, <1>2, <1>3 DEF poured

\* A block is sent to the server, or put into the local file.
LEMMA KindsWritten ==
  ASSUME Kinds, Write("dst") \/ UNCHANGED data, put' \in {put, put + 1}, put' <= got,
         server.xfer = "dst" => poured < put',
         UNCHANGED <<superVars, cacheVars, src, dst, got, wanted, exact, ended, told, server, stored, harm, okay>>
  PROVE  /\ Kinds' /\ UNCHANGED direct /\ poured' \in Nat /\ poured' <= poured + 1
         /\ (UNCHANGED data => UNCHANGED poured)
<1> DEFINE new == [data["dst"] EXCEPT !.flow = @ + 1]
<1>1. data["dst"] \in Pipes /\ data["dst"].flow \in Nat /\ data["src"].flow \in Nat /\ data \in [Owner -> Pipes]
  BY Pour1 DEF Owner, Kinds, DataOK
<1>2. /\ data' \in [Owner -> Pipes] /\ data'["src"] = data["src"] /\ data'["dst"].client = data["dst"].client
      /\ data'["dst"].flow \in Nat /\ data'["dst"].flow <= data["dst"].flow + 1
      /\ \A k \in Owner : data'[k].link = data[k].link
  <2>1. CASE UNCHANGED data
    BY <2>1, <1>1
  <2>2. CASE data["dst"].flow < Cap /\ data' = [data EXCEPT !["dst"].flow = @ + 1]
    <3>1. data["dst"].flow + 1 \in 0..Cap
      BY <2>2, <1>1, FtpfsAssumption
    <3>2. new \in Pipes /\ new.flow = data["dst"].flow + 1
      BY <3>1, <1>1 DEF Pipes
    <3>3. new.client = data["dst"].client /\ new.link = data["dst"].link
      BY <1>1 DEF Pipes
    <3>4. data' = [data EXCEPT !["dst"] = new]
      BY <2>2
    <3> HIDE DEF new
    <3>5. /\ data' \in [Owner -> Pipes] /\ data'["src"] = data["src"] /\ data'["dst"] = new
          /\ \A k \in Owner : k # "dst" => data'[k] = data[k]
      BY <3>2, <3>4, <1>1 DEF Owner
    <3> QED BY <3>2, <3>3, <3>5, <1>1
  <2> QED BY <2>1, <2>2 DEF Write
<1> HIDE DEF new
<1>3. put \in Nat /\ got \in Nat /\ got <= Blocks /\ Blocks \in Nat /\ server.n \in Nat
  BY FtpfsAssumption DEF Kinds, CopyOK, ServerOK
<1>4. put' \in 0..Blocks
  BY <1>3
<1>5. ServerOK' /\ SuperOK' /\ DataOK'
  BY <1>2 DEF Kinds, ServerOK, SuperOK, DataOK, superVars, cacheVars
<1>6. CopyOK'
  BY <1>4 DEF Kinds, CopyOK, superVars
<1>7. poured \in Nat /\ (server.xfer = "dst" => poured = stored.n + data["dst"].flow)
  BY Pour1
<1>8. server.xfer = "dst" => stored.n \in Nat /\ stored \in [n : 0..Blocks, binary : BOOLEAN]
  BY FtpfsAssumption DEF Kinds, FlowOK
<1>9. poured' \in Nat /\ poured' <= poured + 1 /\ (server.xfer = "dst" => poured' = stored.n + data'["dst"].flow)
  BY <1>1, <1>2, <1>7, <1>8 DEF poured
<1>10. FlowOK'
  <2>1. server.xfer = "dst" => stored.n + data'["dst"].flow <= put'
    BY <1>1, <1>2, <1>3, <1>4, <1>7, <1>8
  <2>2. FlowOK /\ server' = server /\ stored' = stored /\ src' = src /\ got' = got
    BY DEF Kinds
  <2> QED BY <1>2, <1>8, <2>1, <2>2 DEF FlowOK
<1>11. direct' = direct
  BY <1>2 DEF direct
<1>12. UNCHANGED data => UNCHANGED poured
  BY DEF poured
<1> QED BY <1>5, <1>6, <1>9, <1>10, <1>11, <1>12 DEF Kinds

\* A block of a local source is read.
LEMMA LocalRead == FtpInv /\ local_read => FtpInv'
<1> SUFFICES ASSUME FtpInv, local_read PROVE FtpInv'
  OBVIOUS
<1>1. At("copy") /\ "copy" \in Copied /\ Arg.from = "local"
  BY DEF local_read, Copied
<1>2. /\ Kinds /\ First(todo).call = "copy"
      /\ TopAt(First(todo), First(Rest(todo)), server, ctl_connection_busy, direct, okay, answer, isbinary, cwdir)
  BY <1>1, AtTop
<1>3. UNCHANGED <<src, dst, put, super, isbinary, ctl_connection_busy, cwdir, server, data, stored, answer,
                  harm, okay, superVars, cacheVars, poured, direct, wanted, exact, told>>
  BY DEF local_read, Quietly, superVars, poured, direct
<1>4. server.up => Rests(server, ctl_connection_busy, direct) /\ KnownDir(server, cwdir) /\ KnownType(server, isbinary)
  BY <1>2, TopKnown DEF Special, Calm
<1>5. /\ Arg \in Copies /\ super # None /\ (dst = "direct" => src = None) /\ (direct => TRUE)
      /\ src = None
  BY <1>1, AtCopied
<1>6. ~ ctl_connection_busy /\ src # "open"
  BY <1>2, <1>5, FtpfsAssumption DEF Kinds, CopyOK
<1>7. server.xfer # "src"
  <2> SUFFICES ASSUME server.xfer = "src" PROVE FALSE
    OBVIOUS
  <2>1. server.up /\ server.task = "RETR"
    BY <1>2, FtpfsAssumption DEF Kinds, ServerOK, FlowOK, CmdOf
  <2>2. Owes(server, "STOR") \/ Quiet(server)
    BY <1>4, <1>6, <2>1 DEF Rests
  <2> QED BY <2>1, <2>2, FtpfsAssumption DEF Owes, Quiet, Running
<1>8. got' \in 0..Blocks /\ put <= got'
  <2>1. got \in 0..Blocks /\ put <= got /\ put \in 0..Blocks /\ Blocks \in Nat
    BY <1>2, FtpfsAssumption DEF Kinds, CopyOK
  <2> QED BY <2>1 DEF local_read
<1>9. Kinds'
  <2>1. ServerOK' /\ DataOK'
    BY <1>2, <1>3 DEF Kinds, ServerOK, DataOK
  <2>2. FlowOK'
    BY <1>2, <1>3, <1>6, <1>7 DEF Kinds, FlowOK
  <2>3. CopyOK'
    BY <1>2, <1>3, <1>8 DEF Kinds, CopyOK
  <2>4. ended' \in BOOLEAN
    BY DEF local_read
  <2>5. SuperOK'
    BY <1>2, <1>3, <2>4 DEF Kinds, SuperOK, cacheVars, superVars
  <2> QED BY <2>1, <2>2, <2>3, <2>5 DEF Kinds
<1>10. CASE Then(Closing(Arg))
  BY <1>1, <1>3, <1>4, <1>9, <1>10, CopyEnds
<1>11. CASE Then(<<Call("copy", Arg)>>)
  <2> DEFINE x == Call("copy", Arg)
  <2>1. x.call = "copy" /\ x.arg = Arg
    BY DEF Call
  <2>2. Then(<<x>>)
    BY <1>11
  <2> HIDE DEF x
  <2>3. todo' = On(x, <<>>)
    BY <1>1, <2>2, ThenCopy
  <2>4. x.arg.from # "ftp" \/ x.arg.from # "local"
    OBVIOUS
  <2> QED BY <1>1, <1>3, <1>4, <1>5, <1>6, <1>9, <2>1, <2>3, GoCopy
<1>12. Then(Closing(Arg)) \/ Then(<<Call("copy", Arg)>>)
  BY DEF local_read
<1> QED BY <1>10, <1>11, <1>12

\* A block of the target is written.
LEMMA Written1 == FtpInv /\ vfs_s_write => FtpInv'
<1> SUFFICES ASSUME FtpInv, vfs_s_write PROVE FtpInv'
  OBVIOUS
<1>1. At("copy") /\ "copy" \in Copied /\ put < got
  BY DEF vfs_s_write, Copied
<1>2. /\ Kinds /\ First(todo).call = "copy"
      /\ TopAt(First(todo), First(Rest(todo)), server, ctl_connection_busy, direct, okay, answer, isbinary, cwdir)
  BY <1>1, AtTop
<1>3. UNCHANGED <<src, dst, got, super, isbinary, ctl_connection_busy, cwdir, server, stored, answer,
                  harm, okay, superVars, cacheVars, wanted, exact, ended, told>>
  BY DEF vfs_s_write, Quietly, superVars
<1>4. server.up => Rests(server, ctl_connection_busy, direct) /\ KnownDir(server, cwdir) /\ KnownType(server, isbinary)
  BY <1>2, TopKnown DEF Special, Calm
<1>5. put \in Nat /\ got \in Nat
  BY <1>2, FtpfsAssumption DEF Kinds, CopyOK
<1>6. CASE UNCHANGED todo /\ put' = put + 1 /\ (Write("dst") \/ UNCHANGED data)
  <2> DEFINE x == First(todo)
  <2>1. /\ x.arg \in Copies /\ x.call = "copy" /\ todo = On(x, <<>>) /\ super # None
        /\ (src = "open" => x.call = "copy") /\ (dst = "direct" => src = None) /\ (direct => x.call = "copy")
        /\ (x.arg.from = "ftp" => dst # "direct" /\ src # None) /\ (x.arg.from = "local" => src = None)
    BY <1>1, AtCopied
  <2>2. server.xfer = "dst" => poured < put'
    BY <1>2, <1>5, <1>6, Pour1
  <2>3. put' \in {put, put + 1} /\ put' <= got
    BY <1>1, <1>5, <1>6
  <2>4. Kinds' /\ UNCHANGED direct
    BY <1>2, <1>3, <1>6, <2>2, <2>3, KindsWritten
  <2>5. todo' = On(x, <<>>)
    BY <1>6, <2>1
  <2> HIDE DEF x
  <2> QED BY <1>3, <1>4, <2>1, <2>4, <2>5, GoCopy
<1>7. CASE Then(Closing(Arg)) /\ UNCHANGED <<put, data>>
  <2>1. UNCHANGED <<poured, direct, copyVars>>
    BY <1>3, <1>7 DEF poured, direct, copyVars
  <2>2. Kinds'
    BY <1>2, <1>3, <1>7, <2>1, KindsOptions DEF Options, superVars, cacheVars
  <2> QED BY <1>1, <1>3, <1>4, <1>7, <2>1, <2>2, CopyEnds
<1>8. \/ UNCHANGED todo /\ put' = put + 1 /\ (Write("dst") \/ UNCHANGED data)
      \/ Then(Closing(Arg)) /\ UNCHANGED <<put, data>>
  BY DEF vfs_s_write
<1> QED BY <1>6, <1>7, <1>8

\* The source is closed.
LEMMA KindsGone ==
  ASSUME Kinds, src' = "gone", ctl_connection_busy' = FALSE, Close("src") \/ UNCHANGED data,
         server' = server \/ server' = [server EXCEPT !.reset = TRUE],
         UNCHANGED <<super, use_passive_connection, strict, isbinary, cwdir, cacheVars, dst, got, put, wanted, exact,
                     ended, told, stored, harm, okay>>
  PROVE  Kinds' /\ UNCHANGED <<poured, direct>>
<1> DEFINE new == [data["src"] EXCEPT !.client = FALSE]
<1>1. data["src"] \in Pipes /\ data \in [Owner -> Pipes]
  BY Pour1 DEF Owner, Kinds, DataOK
<1>2. /\ data' \in [Owner -> Pipes] /\ data'["src"].flow = data["src"].flow /\ data'["dst"] = data["dst"]
      /\ \A k \in Owner : data'[k].link = data[k].link
  <2>1. CASE UNCHANGED data
    BY <2>1, <1>1
  <2>2. CASE data' = [data EXCEPT !["src"].client = FALSE]
    <3>1. new \in Pipes /\ new.flow = data["src"].flow /\ new.link = data["src"].link
      BY <1>1 DEF Pipes
    <3>2. data' = [data EXCEPT !["src"] = new]
      BY <2>2
    <3> HIDE DEF new
    <3> QED BY <1>1, <3>1, <3>2 DEF Owner
  <2> QED BY <2>1, <2>2 DEF Close
<1> HIDE DEF new
<1>3. /\ DOMAIN server' = Fields /\ server'.up = server.up /\ server'.logged = server.logged
      /\ server'.binary = server.binary /\ server'.cwd = server.cwd /\ server'.ready = server.ready
      /\ server'.xfer = server.xfer /\ server'.n = server.n /\ server'.cmds = server.cmds /\ server'.task = server.task
  <2>1. DOMAIN server = Fields
    BY DEF Kinds, ServerOK
  <2>2. CASE server' = server
    BY <2>1, <2>2
  <2>3. CASE server' = [server EXCEPT !.reset = TRUE]
    BY <2>1, <2>3 DEF Fields
  <2> QED BY <2>2, <2>3
<1>4. ServerOK'
  BY <1>3 DEF Kinds, ServerOK
<1>5. DataOK'
  BY <1>2, <1>3 DEF Kinds, DataOK
<1>6. FlowOK'
  BY <1>2, <1>3 DEF Kinds, FlowOK
<1>7. CopyOK'
  BY DEF Kinds, CopyOK
<1>8. SuperOK'
  <2>1. ctl_connection_busy' \in BOOLEAN
    OBVIOUS
  <2>2. SuperOK /\ server'.up = server.up
    BY <1>3 DEF Kinds
  <2> QED BY <2>1, <2>2 DEF SuperOK, cacheVars
<1>9. poured' = poured
  BY <1>2, <1>3 DEF poured
<1>10. direct' = direct
  BY <1>2 DEF direct
<1> QED BY <1>4, <1>5, <1>6, <1>7, <1>8, <1>9, <1>10 DEF Kinds

\* A call is put on the last one of a copy from the server.
LEMMA CopyCalls ==
  ASSUME NEW x, NEW y, x.call \in {"get_reply", "abort"}, y.call \in {"read_end", "read_failed"}, y.arg \in Copies,
         x.call = "get_reply" <=> y.call = "read_end", NEW sr, NEW ds, NEW g, NEW p, NEW q, sr # None,
         x.call = "get_reply" => sr # "open"
  PROVE  /\ Standing(On(x, On(y, <<>>)), sr, ds, g, p, q)
         /\ First(On(x, On(y, <<>>))) = x /\ First(Rest(On(x, On(y, <<>>)))) = y
         /\ Bottom(On(x, On(y, <<>>))) = y
<1>1. Standing(<<>>, sr, ds, g, p, q)
  BY EmptyShape DEF Standing, AllFit
<1>2. CallOK(y) /\ Bel(y, <<>>)
  BY DEF CallOK, Bel, MayEnd, Connects, Looks, Copied, Switches
<1>3. Over(Level(y), <<>>)
  BY EmptyShape
<1>4. Fits(y, sr, ds, g, p, q, y)
  BY DEF Fits, Connects, Copied, Early, Aborted, Switches, IsStop, IsOn, IsOr
<1>5. CallOK(x)
  BY DEF CallOK, Connects, Looks, Copied, Switches
<1>6. Below(x, y)
  BY DEF Below, Readers, Connects, Looks, Copied, Aborted, Switches, IsOr, IsStop, IsOn, IsOff
<1>7. Level(x) = 20
  BY Levels DEF Aborted
<1>8. Fits(x, sr, ds, g, p, q, y)
  BY DEF Fits, Connects, Copied, Early, Aborted, Switches, IsStop, IsOn, IsOr
<1> QED BY <1>1, <1>2, <1>3, <1>4, <1>5, <1>6, <1>7, <1>8, Put2

\* A block of the source is read, or its end, or a failure.
LEMMA LinearRead == FtpInv /\ ftpfs_linear_read => FtpInv'
<1> SUFFICES ASSUME FtpInv, ftpfs_linear_read PROVE FtpInv'
  OBVIOUS
<1>1. At("copy") /\ "copy" \in Copied /\ Arg.from = "ftp" /\ put = got
  BY DEF ftpfs_linear_read, Copied
<1>2. /\ Kinds /\ First(todo).call = "copy" /\ IsStack(todo) /\ todo # <<>>
      /\ TopAt(First(todo), First(Rest(todo)), server, ctl_connection_busy, direct, okay, answer, isbinary, cwdir)
  BY <1>1, AtTop
<1>3. UNCHANGED <<dst, put, super, isbinary, cwdir, server, stored, answer, use_passive_connection, strict,
                  harm, okay, cacheVars, wanted, ended, told>>
  BY DEF ftpfs_linear_read, Quietly
<1>4. server.up => Rests(server, ctl_connection_busy, direct) /\ KnownDir(server, cwdir) /\ KnownType(server, isbinary)
  BY <1>2, TopKnown DEF Special, Calm
<1>5. /\ Arg \in Copies /\ super # None /\ dst # "direct" /\ src # None /\ Rest(todo) = <<>>
      /\ todo = On(First(todo), <<>>) /\ First(todo).arg = Arg
  BY <1>1, AtCopied
<1>6. got \in 0..Blocks /\ put \in 0..Blocks /\ Blocks \in Nat
  BY <1>2, FtpfsAssumption DEF Kinds, CopyOK
<1>7. CASE src = "open" /\ Take("src") /\ got' = got + 1 /\ exact' = (exact /\ data["src"].binary)
           /\ UNCHANGED <<todo, src, ctl_connection_busy>>
  <2> DEFINE x == First(todo)
  <2>1. data["src"] \in Pipes /\ data["src"].flow \in Nat /\ data["src"].flow > 0
    BY <1>2, <1>7, Pour1 DEF Owner, Take
  <2>2. got' <= Blocks
    BY <1>2, <1>6, <1>7, <2>1 DEF Kinds, FlowOK
  <2>3. CopyOK'
    BY <1>1, <1>2, <1>3, <1>6, <1>7, <2>2 DEF Kinds, CopyOK
  <2>4. exact \in BOOLEAN /\ data["src"].binary \in BOOLEAN
    BY <1>2, <2>1 DEF Kinds, SuperOK, Pipes
  <2>5. exact' \in BOOLEAN
    BY <1>7, <2>4
  <2>6. SuperOK'
    BY <1>2, <1>3, <1>7, <2>5 DEF Kinds, SuperOK, cacheVars
  <2>7. Options'
    BY <1>2, <1>3, <1>7, KindsOptions DEF Options, cacheVars
  <2>8. Kinds' /\ UNCHANGED direct
    BY <1>2, <1>3, <1>7, <2>3, <2>6, <2>7, KindsTaken
  <2>9. x.call = "copy" /\ x.arg = Arg /\ todo' = On(x, <<>>)
    BY <1>2, <1>5, <1>7
  <2> HIDE DEF x
  <2> QED BY <1>1, <1>3, <1>4, <1>5, <1>7, <2>8, <2>9, GoCopy
<1>8. CASE src = "open" /\ Close("src") /\ src' = "gone" /\ ctl_connection_busy' = FALSE
           /\ Then(<<Do("get_reply"), Call("read_end", Arg)>>) /\ UNCHANGED <<got, exact>>
  <2> DEFINE x == Do("get_reply")
             y == Call("read_end", Arg)
  <2>1. x.call = "get_reply" /\ y.call = "read_end" /\ y.arg = Arg
    BY DEF Call, Do
  <2>2. Then(<<x, y>>)
    BY <1>8
  <2> HIDE DEF x, y
  <2>3. todo' = On(x, On(y, <<>>))
    BY <1>2, <1>5, <2>2, Thens
  <2>4. Kinds' /\ UNCHANGED <<poured, direct>>
    BY <1>2, <1>3, <1>8, KindsGone
  <2>5. src' # None /\ src' # "open"
    BY <1>8, FtpfsAssumption
  <2>6. /\ Standing(todo, src, dst, got, put, poured)'
        /\ First(todo') = x /\ First(Rest(todo')) = y /\ Bottom(todo') = y /\ todo' # <<>>
    <3>1. /\ Standing(todo', src', dst', got', put', poured')
          /\ First(todo') = x /\ First(Rest(todo')) = y /\ Bottom(todo') = y
      BY <1>5, <2>1, <2>3, <2>5, CopyCalls
    <3>2. First(<<>>).call = "nothing"
      BY DEF First, Do, Call
    <3> QED BY <2>1, <3>1, <3>2
  <2>7. dst' # "direct" /\ ~ direct'
    BY <1>3, <1>5, <2>4 DEF direct
  <2>8. Ends(todo, src, dst, got, put, direct, okay, super)'
    BY <1>1, <1>3, <1>5, <2>1, <2>5, <2>6, <2>7 DEF Ends, Copied
  <2>9. ctl_connection_busy
    BY <1>2, <1>8 DEF Kinds, CopyOK
  <2>10. server.up => Reading(y, server)
    BY <1>4, <2>1, <2>9 DEF Reading, Rests
  <2>11. TopAt(x, y, server, ctl_connection_busy', direct, okay, answer, isbinary, cwdir)
    BY <1>4, <2>1, <2>10, ReplyTop
  <2>12. FlowKnown(x, y, server, data', okay)
    BY <2>1, FlowPlain
  <2> QED BY <1>3, <2>4, <2>6, <2>8, <2>11, <2>12, Shown
<1>9. CASE Then(<<Do("abort"), Call("read_failed", Arg)>>) /\ UNCHANGED <<src, got, exact, ctl_connection_busy, data>>
  <2> DEFINE x == Do("abort")
             y == Call("read_failed", Arg)
  <2>1. x.call = "abort" /\ y.call = "read_failed" /\ y.arg = Arg
    BY DEF Call, Do
  <2>2. Then(<<x, y>>)
    BY <1>9
  <2> HIDE DEF x, y
  <2>3. todo' = On(x, On(y, <<>>))
    BY <1>2, <1>5, <2>2, Thens
  <2>4. UNCHANGED <<poured, direct, copyVars>>
    BY <1>3, <1>9 DEF poured, direct, copyVars
  <2>5. Kinds'
    BY <1>2, <1>3, <1>9, <2>4, KindsOptions DEF Options, cacheVars
  <2>6. /\ Standing(todo, src, dst, got, put, poured)'
        /\ First(todo') = x /\ First(Rest(todo')) = y /\ Bottom(todo') = y /\ todo' # <<>>
    <3>1. /\ Standing(todo', src', dst', got', put', poured')
          /\ First(todo') = x /\ First(Rest(todo')) = y /\ Bottom(todo') = y
      BY <1>5, <1>9, <2>1, <2>3, CopyCalls
    <3>2. First(<<>>).call = "nothing"
      BY DEF First, Do, Call
    <3> QED BY <2>1, <3>1, <3>2
  <2>7. dst' # "direct" /\ ~ direct' /\ src' # None
    BY <1>3, <1>5, <1>9, <2>4 DEF direct
  <2>8. Ends(todo, src, dst, got, put, direct, okay, super)'
    BY <1>1, <1>3, <1>5, <2>1, <2>6, <2>7 DEF Ends, Copied
  <2>9. TopAt(x, y, server, ctl_connection_busy, direct, okay, answer, isbinary, cwdir)
    BY <1>4, <2>1, PlainTop DEF Special, Calm
  <2>10. FlowKnown(x, y, server, data', okay)
    BY <2>1, FlowPlain
  <2> QED BY <1>3, <1>9, <2>4, <2>5, <2>6, <2>8, <2>9, <2>10, Shown
<1> QED BY <1>7, <1>8, <1>9 DEF ftpfs_linear_read

-----------------------------------------------------------------------------
(* The end of a transfer *)

\* The calls that end a copy are over no block of it.
LEMMA AtEnding ==
  ASSUME NEW name \in {"close_src", "close_dst", "file_store", "stored", "store_failed", "chmod", "flush"}, FtpInv, At(name)
  PROVE  /\ Rest(todo) # <<>> /\ Below(First(todo), First(Rest(todo))) /\ CallOK(First(Rest(todo)))
         /\ Bottom(todo).call \notin Copied /\ Bottom(todo) = Bottom(Rest(todo)) /\ ~ HasStart(Rest(todo))
         /\ Over(Level(First(todo)), Rest(todo)) /\ First(todo).call = name /\ Arg = First(todo).arg
         /\ Level(First(todo)) \in 8..11 /\ super # None /\ (src = "open" => name = "close_src")
<1> DEFINE c == First(todo)
           r == Rest(todo)
<1>1. /\ todo # <<>> /\ Bel(c, r) /\ CallOK(c) /\ c.call = name /\ Arg = c.arg /\ Over(Level(c), r)
      /\ Ends(todo, src, dst, got, put, direct, okay, super) /\ Standing(r, src, dst, got, put, poured)
  BY AtTop
<1>2. r # <<>>
  BY <1>1 DEF Bel, MayEnd, Looks, Copied, Switches
<1>3. Below(c, First(r)) /\ CallOK(First(r)) /\ Bottom(todo) = Bottom(r)
  BY <1>2, Second
<1>4. Level(c) \in 8..11
  BY <1>1, Levels
<1> HIDE DEF c, r
<1>5. Shape(r)
  BY <1>1 DEF Standing
<1>6. \A i \in 1..Len(r) : r[i].call # "ftpfs_linear_start" /\ r[i].call \notin Copied
  BY <1>1, <1>4, <1>5, Under
<1>7. ~ HasStart(r)
  BY <1>6 DEF HasStart
<1>8. Len(r) \in 1..Len(r) /\ Bottom(r) = r[Len(r)]
  <2>1. r = On(First(r), Rest(r)) /\ IsStack(Rest(r)) /\ Len(r) \in Nat
    BY <1>2, <1>5, StackSplit DEF Shape, IsStack
  <2>2. Len(r) = Len(Rest(r)) + 1 /\ Len(Rest(r)) \in Nat
    BY <2>1, StackOn DEF IsStack
  <2> QED BY <1>2, <2>1, <2>2 DEF Bottom
<1>9. Bottom(r).call \notin Copied
  BY <1>6, <1>8
<1>10. super # None
  BY <1>1 DEF Ends, IsStop, c
<1>11. src = "open" => name = "close_src"
  BY <1>1, <1>3, <1>9 DEF Ends, Copied, c
<1> QED BY <1>1, <1>2, <1>3, <1>4, <1>7, <1>9, <1>10, <1>11 DEF c, r

\* The source is closed: a transfer that goes on is aborted.
LEMMA CloseSrc == FtpInv /\ close_src => FtpInv'
<1> SUFFICES ASSUME FtpInv, close_src PROVE FtpInv'
  OBVIOUS
<1> DEFINE r == Rest(todo)
           d == First(r)
<1>1. At("close_src")
  BY DEF close_src
<1>2. /\ Kinds /\ First(todo).call = "close_src" /\ IsStack(todo) /\ todo # <<>>
      /\ TopAt(First(todo), d, server, ctl_connection_busy, direct, okay, answer, isbinary, cwdir)
      /\ Standing(r, src, dst, got, put, poured) /\ Ends(todo, src, dst, got, put, direct, okay, super)
  BY <1>1, AtTop
<1>3. /\ r # <<>> /\ Below(First(todo), d) /\ Bottom(todo).call \notin Copied /\ Bottom(todo) = Bottom(r)
      /\ super # None
  BY <1>1, AtEnding
<1>4. d.call = "close_dst"
  BY <1>2, <1>3 DEF Below
<1> HIDE DEF r, d
<1>5. UNCHANGED <<src, dst, got, put, super, isbinary, ctl_connection_busy, cwdir, server, data, stored, answer,
                  harm, okay, superVars, copyVars, cacheVars, poured, direct>>
  BY DEF close_src, Quietly, copyVars, superVars, poured, direct
<1>6. Kinds'
  BY <1>2, <1>5, KindsOptions DEF Options, superVars, cacheVars
<1>7. server.up => Rests(server, ctl_connection_busy, direct) /\ KnownDir(server, cwdir) /\ KnownType(server, isbinary)
  BY <1>2, TopKnown DEF Special, Calm
<1>8. CASE src # "open" /\ Then(<<>>)
  <2>1. todo' = r
    BY <1>2, <1>8, Thens DEF r
  <2>2. Ends(r, src, dst, got, put, direct, okay, super)
    BY <1>2, <1>3, <1>4, <1>8 DEF Ends, d
  <2>3. TopAt(d, First(Rest(r)), server, ctl_connection_busy, direct, okay, answer, isbinary, cwdir)
    BY <1>4, <1>7, PlainTop DEF Special, Calm
  <2>4. FlowKnown(d, First(Rest(r)), server, data, okay)
    BY <1>4, FlowPlain
  <2> QED BY <1>2, <1>5, <1>6, <2>1, <2>2, <2>3, <2>4, Shown DEF d
<1>9. CASE src = "open" /\ Then(<<Do("abort")>>)
  <2> DEFINE x == Do("abort")
  <2>1. x.call = "abort"
    BY DEF Do, Call
  <2>2. Then(<<x>>)
    BY <1>9
  <2> HIDE DEF x
  <2>3. todo' = On(x, r)
    BY <1>2, <2>2, Thens DEF r
  <2>4. CallOK(x) /\ Level(x) = 20
    BY <2>1, Levels DEF CallOK, Connects, Looks, Copied, Switches, Aborted
  <2>5. Bel(x, r)
    <3>1. Below(x, d)
      BY <1>4, <2>1 DEF Below, Readers, Connects, Looks, Copied, Aborted, Switches, IsOr, IsStop, IsOn, IsOff
    <3> QED BY <1>3, <3>1 DEF Bel, d
  <2>6. Over(Level(x), r)
    BY <2>4 DEF Over, Ordered
  <2>7. Fits(x, src, dst, got, put, poured, Bottom(r))
    BY <1>9, <2>1, FtpfsAssumption DEF Fits, Connects, Copied, Early, Aborted, Switches, IsStop, IsOn, IsOr
  <2>8. /\ Standing(On(x, r), src, dst, got, put, poured) /\ First(On(x, r)) = x /\ Bottom(On(x, r)) = Bottom(r)
        /\ Rest(On(x, r)) = r
    BY <1>2, <1>3, <2>4, <2>5, <2>6, <2>7, Put1
  <2>9. ~ direct /\ dst # "direct"
    BY <1>2, <1>9, FtpfsAssumption DEF Ends, direct
  <2>10. Ends(On(x, r), src, dst, got, put, direct, okay, super)
    BY <1>2, <1>3, <2>1, <2>8, <2>9 DEF Ends
  <2>11. TopAt(x, d, server, ctl_connection_busy, direct, okay, answer, isbinary, cwdir)
    BY <1>7, <2>1, PlainTop DEF Special, Calm
  <2>12. FlowKnown(x, d, server, data, okay)
    BY <2>1, FlowPlain
  <2> QED BY <1>5, <1>6, <2>3, <2>8, <2>10, <2>11, <2>12, Shown DEF d
<1> QED BY <1>8, <1>9 DEF close_src

\* What is under an abort stands also when the source is closed.
LEMMA AtAbort ==
  ASSUME NEW name \in Aborted, FtpInv, At(name)
  PROVE  /\ Rest(todo) # <<>> /\ First(todo).call = name /\ Arg = First(todo).arg
         /\ First(Rest(todo)).call \in {"read_failed", "close_dst"}
         /\ Standing(Rest(todo), "gone", dst, got, put, poured) /\ Standing(Rest(todo), src, dst, got, put, poured)
         /\ ~ direct /\ super # None /\ dst # "direct" /\ Bottom(todo) = Bottom(Rest(todo)) /\ src # None
         /\ Bottom(todo).call \in Copied \cup {"over"} /\ ~ HasStart(Rest(todo))
         /\ (Bottom(todo).call \in Copied => Bottom(todo).arg.from # "local")
<1> DEFINE c == First(todo)
           r == Rest(todo)
           d == First(r)
           rr == Rest(r)
<1>1. /\ todo # <<>> /\ Bel(c, r) /\ CallOK(c) /\ c.call = name /\ Arg = c.arg /\ Over(Level(c), r)
      /\ Ends(todo, src, dst, got, put, direct, okay, super) /\ Standing(r, src, dst, got, put, poured)
      /\ Fits(c, src, dst, got, put, poured, Bottom(todo))
  BY AtTop
<1>2. r # <<>>
  BY <1>1 DEF Bel, MayEnd, Looks, Copied, Aborted
<1>3. /\ Below(c, d) /\ CallOK(d) /\ Bottom(todo) = Bottom(r) /\ Bel(d, rr) /\ Over(Level(d), rr)
      /\ Fits(d, src, dst, got, put, poured, Bottom(r))
  BY <1>2, Second
<1>4. d.call \in {"read_failed", "close_dst"}
  BY <1>1, <1>3 DEF Below, Aborted
<1>5. src # None
  BY <1>1 DEF Fits
<1>6. ~ direct /\ super # None
  BY <1>1 DEF Ends, Aborted, IsStop
<1>7. dst # "direct" /\ Bottom(todo).call \in Copied \cup {"over"}
      /\ (Bottom(todo).call \in Copied => Bottom(todo).arg.from # "local")
  BY <1>1, <1>5, FtpfsAssumption DEF Ends, Nobody
<1>8. /\ Standing(rr, src, dst, got, put, poured) /\ r = On(d, rr) /\ IsStack(rr)
      /\ Bottom(r) = IF rr = <<>> THEN d ELSE Bottom(rr)
  BY <1>1, <1>2, Put0, Splits DEF Standing
<1> HIDE DEF c, d, r, rr
<1>9. CASE d.call = "read_failed"
  <2>1. rr = <<>>
    BY <1>3, <1>9 DEF Bel, Below, Copied
  <2>2. d.arg \in Copies /\ d.call \in Copied
    BY <1>3, <1>9 DEF CallOK, Copied
  <2>3. Standing(r, "gone", dst, got, put, poured) /\ ~ HasStart(r)
    BY <1>8, <1>9, <2>1, <2>2, CopyStands
  <2> QED BY <1>1, <1>2, <1>3, <1>4, <1>5, <1>6, <1>7, <2>3 DEF c, d, r
<1>10. CASE d.call = "close_dst"
  <2>1. Level(d) = 9 /\ 9 \in 8..12 /\ 9 \in 3..12
    BY <1>10, Levels
  <2>2. Shape(rr) /\ AllFit(rr, src, dst, got, put, poured, Bottom(rr))
    BY <1>8 DEF Standing
  <2>3. Over(9, rr)
    BY <1>3, <2>1
  <2>4. AllFit(rr, "gone", dst, got, put, poured, Bottom(rr))
    BY <2>1, <2>2, <2>3, FitGone
  <2>5. Standing(rr, "gone", dst, got, put, poured)
    BY <2>2, <2>4 DEF Standing
  <2>6. Fits(d, "gone", dst, got, put, poured, IF rr = <<>> THEN d ELSE Bottom(rr))
    BY <1>10 DEF Fits, Connects, Copied, Early, Aborted, Switches, IsStop, IsOn, IsOr
  <2>7. Standing(r, "gone", dst, got, put, poured)
    BY <1>3, <1>8, <2>5, <2>6, Put1
  <2>8. ~ HasStart(rr)
    <3>1. \A i \in 1..Len(rr) : rr[i].call # "ftpfs_linear_start"
      BY <2>1, <2>2, <2>3, Under
    <3> QED BY <3>1 DEF HasStart
  <2>9. ~ HasStart(r)
    BY <1>8, <1>10, <2>8, OnStart
  <2> QED BY <1>1, <1>2, <1>3, <1>4, <1>5, <1>6, <1>7, <2>7, <2>9 DEF c, d, r
<1> QED BY <1>4, <1>9, <1>10

\* ABOR is to be sent, or the connection is closed at once.
LEMMA Abort1 == FtpInv /\ abort => FtpInv'
<1> SUFFICES ASSUME FtpInv, abort PROVE FtpInv'
  OBVIOUS
<1> DEFINE r == Rest(todo)
           d == First(r)
<1>1. At("abort") /\ "abort" \in Aborted
  BY DEF abort, Aborted
<1>2. /\ Kinds /\ First(todo).call = "abort" /\ IsStack(todo) /\ todo # <<>>
      /\ TopAt(First(todo), d, server, ctl_connection_busy, direct, okay, answer, isbinary, cwdir)
      /\ Ends(todo, src, dst, got, put, direct, okay, super)
  BY <1>1, AtTop
<1>3. /\ r # <<>> /\ d.call \in {"read_failed", "close_dst"} /\ Standing(r, "gone", dst, got, put, poured)
      /\ ~ direct /\ super # None /\ dst # "direct" /\ Bottom(todo) = Bottom(r) /\ src # None
      /\ Bottom(r).call \in Copied \cup {"over"} /\ ~ HasStart(r)
      /\ (Bottom(r).call \in Copied => Bottom(r).arg.from # "local")
  BY <1>1, AtAbort
<1> HIDE DEF r, d
<1>4. UNCHANGED <<dst, got, put, super, isbinary, cwdir, stored, answer, use_passive_connection, strict,
                  harm, okay, cacheVars, wanted, exact, ended, told>> /\ src' = "gone" /\ ctl_connection_busy' = FALSE
  BY DEF abort, Quietly
<1>5. Kinds' /\ UNCHANGED <<poured, direct>>
  <2>1. Close("src") \/ UNCHANGED data
    BY DEF abort
  <2>2. server' = server \/ server' = [server EXCEPT !.reset = TRUE]
    BY DEF abort
  <2> QED BY <1>2, <1>4, <2>1, <2>2, KindsGone
<1>6. src' # None /\ src' # "open"
  BY <1>4, FtpfsAssumption
<1>7. server.up => Rests(server, ctl_connection_busy, direct) /\ KnownDir(server, cwdir) /\ KnownType(server, isbinary)
  BY <1>2, TopKnown DEF Special, Calm
<1>8. CASE (super = "stale" \/ ~ server.up) /\ server' = [server EXCEPT !.reset = TRUE] /\ Then(<<>>)
  <2>1. todo' = r
    BY <1>2, <1>8, Thens DEF r
  <2>2. Ends(r, src', dst, got, put, direct, okay, super)
    BY <1>3, <1>6 DEF Ends
  <2>3. ~ server.up
    BY <1>2, <1>8 DEF Kinds, SuperOK
  <2>4. ~ server'.up
    BY <1>2, <1>8, <2>3 DEF Kinds, ServerOK, Fields
  <2>5. TopAt(d, First(Rest(r)), server', ctl_connection_busy', direct, okay, answer, isbinary, cwdir)
    BY <2>4 DEF TopAt
  <2>6. FlowKnown(d, First(Rest(r)), server', data', okay)
    BY <1>3, FlowPlain
  <2> QED BY <1>3, <1>4, <1>5, <2>1, <2>2, <2>5, <2>6, Shown DEF d
<1>9. CASE super = "up" /\ UNCHANGED <<server, data>>
           /\ Then(<<Ask("ABOR", None), Call("aborting", src = "open")>>)
  <2> DEFINE x == Ask("ABOR", None)
             y == Call("aborting", src = "open")
  <2>1. x.call = "command" /\ x.arg = Command("ABOR", None) /\ x.arg.name = "ABOR" /\ y.call = "aborting"
    BY DEF Call, Ask, Command
  <2>2. y.arg \in BOOLEAN
    BY DEF Call
  <2>3. Then(<<x, y>>)
    BY <1>9
  <2> HIDE DEF x, y
  <2>4. todo' = On(x, On(y, r))
    BY <1>2, <2>3, Thens DEF r
  <2>5. CallOK(x) /\ CallOK(y)
    BY <2>1, <2>2 DEF CallOK, Connects, Looks, Copied, Switches
  <2>6. Below(x, y)
    BY <2>1 DEF Below, Waiter, Connects, Looks, Copied, Aborted, Switches, IsOr, IsStop, IsOn, IsOff
  <2>7. Bel(y, r)
    <3>1. Below(y, d)
      BY <1>3, <2>1 DEF Below, Readers, Connects, Looks, Copied, Aborted, Switches, IsOr, IsStop, IsOn, IsOff
    <3> QED BY <1>3, <3>1 DEF Bel, d
  <2>8. Level(x) = 20 /\ Level(y) = 20
    BY <2>1, Levels DEF Aborted
  <2>9. Over(Level(y), r)
    BY <2>8 DEF Over, Ordered
  <2>10. Fits(x, src', dst, got, put, poured, Bottom(r)) /\ Fits(y, src', dst, got, put, poured, Bottom(r))
    BY <1>6, <2>1 DEF Fits, Connects, Copied, Early, Aborted, Switches, IsStop, IsOn, IsOr
  <2>11. /\ Standing(On(x, On(y, r)), src', dst, got, put, poured)
         /\ First(On(x, On(y, r))) = x /\ Rest(On(x, On(y, r))) = On(y, r) /\ First(On(y, r)) = y
         /\ Bottom(On(x, On(y, r))) = Bottom(r)
    BY <1>3, <1>4, <2>5, <2>6, <2>7, <2>8, <2>9, <2>10, Put2
  <2>12. Ends(On(x, On(y, r)), src', dst, got, put, direct, okay, super)
    BY <1>3, <1>6, <2>11 DEF Ends
  <2>13. server.up => Owes(server, "RETR")
    BY <1>3, <1>7, QuietRests DEF Rests
  <2>14. TopAt(x, y, server, ctl_connection_busy', direct, okay, answer, isbinary, cwdir)
    BY <1>7, <2>1, <2>13, CommandTop
  <2>15. FlowKnown(x, y, server, data, okay)
    BY <2>1, FlowPlain
  <2> QED BY <1>4, <1>5, <1>9, <2>4, <2>11, <2>12, <2>14, <2>15, Shown
<1> QED BY <1>8, <1>9 DEF abort

\* The replies to the transfer and to ABOR are read.
LEMMA AbortReads ==
  ASSUME FtpInv, At("aborting"), Complete, Then(<<Do("get_reply"), Do("aborted")>>), Kinds',
         UNCHANGED <<src, dst, got, put, poured, direct, super, server, answer, ctl_connection_busy, isbinary,
                     cwdir, okay>>
  PROVE  FtpInv'
<1> DEFINE r == Rest(todo)
           d == First(r)
           x == Do("get_reply")
           y == Do("aborted")
<1>1. "aborting" \in Aborted /\ "aborting" \notin Steady /\ "aborting" \notin Copied \cup {"over"}
  BY DEF Aborted, Steady, Copied
<1>2. /\ First(todo).call = "aborting" /\ IsStack(todo) /\ todo # <<>>
      /\ TopAt(First(todo), d, server, ctl_connection_busy, direct, okay, answer, isbinary, cwdir)
  BY AtTop
<1>3. r # <<>> /\ d.call \in {"read_failed", "close_dst"} /\ src # None
  BY <1>1, AtAbort
<1>4. x.call = "get_reply" /\ y.call = "aborted"
  BY DEF Do, Call
<1>5. Then(<<x, y>>)
  OBVIOUS
<1> HIDE DEF r, d, x, y
<1>6. todo' = On(x, On(y, r))
  BY <1>2, <1>5, Thens DEF r
<1>7. CallOK(x) /\ CallOK(y) /\ Level(x) = 20 /\ Level(y) = 20
  BY <1>4, Levels DEF CallOK, Connects, Looks, Copied, Switches, Aborted
<1>8. Below(x, y)
  BY <1>4 DEF Below, Readers, Connects, Looks, Copied, Aborted, Switches, IsOr, IsStop, IsOn, IsOff
<1>9. Bel(y, r)
  <2>1. Below(y, d)
    BY <1>3, <1>4 DEF Below, Readers, Connects, Looks, Copied, Aborted, Switches, IsOr, IsStop, IsOn, IsOff
  <2> QED BY <1>3, <2>1 DEF Bel, d
<1>10. Fits(x, src, dst, got, put, poured, Bottom(todo)) /\ Fits(y, src, dst, got, put, poured, Bottom(todo))
  BY <1>3, <1>4 DEF Fits, Connects, Copied, Early, Aborted, Switches, IsStop, IsOn, IsOr
<1>11. /\ Standing(todo, src, dst, got, put, poured)' /\ Ends(todo, src, dst, got, put, direct, okay, super)'
       /\ First(todo') = x /\ First(Rest(todo')) = y
  BY <1>1, <1>3, <1>6, <1>7, <1>8, <1>9, <1>10, Go2 DEF r
<1>12. server.up => Reading(y, server) /\ KnownDir(server, cwdir) /\ KnownType(server, isbinary)
  <2>1. server.up => Aborts(server)
    BY <1>2 DEF TopAt, Expected, Complete
  <2>2. server.up => Reading(y, server)
    BY <1>4, <2>1 DEF Reading
  <2> QED BY <1>2, <2>2, TopKnown
<1>13. TopAt(x, y, server, ctl_connection_busy, direct, okay, answer, isbinary, cwdir)
  BY <1>4, <1>12, ReplyTop
<1>14. FlowKnown(x, y, server, data', okay)
  BY <1>4, FlowPlain
<1> QED BY <1>11, <1>13, <1>14, Shown

\* What still comes of the source is read and dropped.
LEMMA Aborting1 == FtpInv /\ aborting => FtpInv'
<1> SUFFICES ASSUME FtpInv, aborting PROVE FtpInv'
  OBVIOUS
<1> DEFINE r == Rest(todo)
           d == First(r)
<1>1. At("aborting") /\ "aborting" \in Aborted /\ "aborting" \notin Steady \cup Copied \cup {"over"}
  BY DEF aborting, Aborted, Steady, Copied
<1>2. /\ Kinds /\ First(todo).call = "aborting" /\ IsStack(todo) /\ todo # <<>> /\ harm = None
      /\ TopAt(First(todo), d, server, ctl_connection_busy, direct, okay, answer, isbinary, cwdir)
      /\ Standing(todo, src, dst, got, put, poured) /\ Ends(todo, src, dst, got, put, direct, okay, super)
  BY <1>1, AtTop
<1>3. r # <<>> /\ d.call \in {"read_failed", "close_dst"} /\ src # None
  BY <1>1, AtAbort
<1> HIDE DEF r, d
<1>4. UNCHANGED <<src, dst, got, put, super, isbinary, ctl_connection_busy, cwdir, server, stored, answer,
                  harm, okay, superVars, copyVars, cacheVars>>
  BY DEF aborting, Quietly, copyVars, superVars
<1>5. harm' \in {None, "astray", "crashed"} /\ okay' \in BOOLEAN
  BY <1>2, <1>4 DEF Kinds, SuperOK
<1>6. "src" \in Owner /\ "src" # "dst"
  BY DEF Owner
<1>7. Close("src") => Kinds' /\ UNCHANGED <<poured, direct>>
  BY <1>2, <1>4, <1>5, <1>6, KindsClosed
<1>8. UNCHANGED data => Kinds' /\ UNCHANGED <<poured, direct>>
  <2>1. UNCHANGED data => Kinds'
    BY <1>2, <1>4, KindsOptions DEF Options, superVars, cacheVars
  <2> QED BY <1>4, <2>1 DEF poured, direct
<1>9. server.up => KnownDir(server, cwdir) /\ KnownType(server, isbinary)
  BY <1>2, TopKnown
<1>10. CASE ~ Complete /\ Close("src") /\ Then(<<>>)
  <2>1. server.up => Quiet(server)
    BY <1>2, <1>10 DEF TopAt, Expected, Complete
  <2>2. d.call \notin Special
    BY <1>3 DEF Special, Calm
  <2> QED BY <1>1, <1>4, <1>7, <1>9, <1>10, <2>1, <2>2, QuietRests, Returns DEF d, r
<1>11. CASE Complete /\ Then(<<Do("get_reply"), Do("aborted")>>) /\ (UNCHANGED data \/ Close("src"))
  BY <1>1, <1>4, <1>7, <1>8, <1>11, AbortReads
<1>12. CASE Take("src") /\ UNCHANGED todo
  <2>1. SuperOK' /\ CopyOK' /\ Options'
    <3>1. SuperOK' /\ CopyOK'
      BY <1>2, <1>4 DEF Kinds, SuperOK, CopyOK, superVars, copyVars, cacheVars
    <3>2. Options'
      BY <1>2, <1>4, KindsOptions DEF Options, superVars, cacheVars
    <3> QED BY <3>1, <3>2
  <2>2. Kinds' /\ UNCHANGED <<poured, direct>>
    BY <1>2, <1>4, <1>12, <2>1, KindsTaken
  <2>3. Standing(todo, src, dst, got, put, poured)' /\ Ends(todo, src, dst, got, put, direct, okay, super)'
    BY <1>2, <1>4, <1>12, <2>2
  <2>4. TopAt(First(todo), d, server, ctl_connection_busy, direct, okay, answer, isbinary, cwdir)'
    BY <1>2, <1>4, <1>12, <2>2 DEF d, r
  <2>5. FlowKnown(First(todo), d, server, data, okay)'
    BY <1>2, <1>12, FlowPlain DEF d, r
  <2> QED BY <2>2, <2>3, <2>4, <2>5, Shown DEF d, r
<1> QED BY <1>10, <1>11, <1>12 DEF aborting

\* A reply was read after ABOR: it may be the one to ABOR, or there is another.
LEMMA Aborted1 == FtpInv /\ aborted => FtpInv'
<1> SUFFICES ASSUME FtpInv, aborted PROVE FtpInv'
  OBVIOUS
<1> DEFINE r == Rest(todo)
           d == First(r)
<1>1. At("aborted") /\ "aborted" \in Aborted /\ "aborted" \notin Steady /\ "aborted" \notin Copied \cup {"over"}
  BY DEF aborted, Aborted, Steady, Copied
<1>2. /\ Kinds /\ First(todo).call = "aborted" /\ IsStack(todo) /\ todo # <<>> /\ harm = None
      /\ TopAt(First(todo), d, server, ctl_connection_busy, direct, okay, answer, isbinary, cwdir)
  BY <1>1, AtTop
<1>3. r # <<>> /\ d.call \in {"read_failed", "close_dst"} /\ src # None
  BY <1>1, AtAbort
<1> HIDE DEF r, d
<1>4. UNCHANGED <<src, dst, got, put, super, isbinary, ctl_connection_busy, cwdir, server, data, stored, answer,
                  okay, superVars, copyVars, cacheVars, poured, direct>>
  BY DEF aborted, Quietly, copyVars, superVars, poured, direct
<1>5. harm' \in {None, "astray", "crashed"}
  BY <1>2 DEF aborted
<1>6. Kinds'
  BY <1>2, <1>4, <1>5, KindsOptions DEF Options, superVars, cacheVars
<1>7. server.up => KnownDir(server, cwdir) /\ KnownType(server, isbinary)
  BY <1>2, TopKnown
<1>8. server.up => \/ answer.to = "RETR" /\ answer.class \in Finals /\ Asked(server, "ABOR", None)
                   \/ answer.to = "ABOR" /\ answer.class \in {"COMPLETE", "FAILED"} /\ Quiet(server)
  BY <1>2 DEF TopAt, Expected
<1>9. CASE answer.to = "RETR" /\ answer.class # "ABORTED"
  <2>1. harm' # None
    BY <1>9, FtpfsAssumption DEF aborted
  <2> QED BY <1>6, <2>1, Stopped
<1>10. CASE answer.class = "ABORTED"
  <2> DEFINE x == Do("get_reply")
  <2>1. x.call = "get_reply"
    BY DEF Do, Call
  <2>2. Then(<<x>>)
    BY <1>10 DEF aborted
  <2> HIDE DEF x
  <2>3. todo' = On(x, r)
    BY <1>2, <2>2, Thens DEF r
  <2>4. CallOK(x) /\ Level(x) = 20
    BY <2>1, Levels DEF CallOK, Connects, Looks, Copied, Switches
  <2>5. Bel(x, r)
    <3>1. Below(x, d)
      BY <1>3, <2>1 DEF Below, Readers, Connects, Looks, Copied, Aborted, Switches, IsOr, IsStop, IsOn, IsOff
    <3> QED BY <1>3, <3>1 DEF Bel, d
  <2>6. Fits(x, src, dst, got, put, poured, Bottom(todo))
    BY <2>1 DEF Fits, Connects, Copied, Early, Aborted, Switches, IsStop, IsOn, IsOr
  <2>7. /\ Standing(todo, src, dst, got, put, poured)' /\ Ends(todo, src, dst, got, put, direct, okay, super)'
        /\ First(todo') = x /\ Rest(todo') = r
    BY <1>1, <1>3, <1>4, <2>3, <2>4, <2>5, <2>6, Go1 DEF r
  <2>8. server.up => Reading(d, server)
    BY <1>3, <1>8, <1>10 DEF Reading
  <2>9. TopAt(x, d, server, ctl_connection_busy, direct, okay, answer, isbinary, cwdir)
    BY <1>3, <1>7, <2>1, <2>8, ReplyTop
  <2>10. FlowKnown(x, d, server, data, okay)
    BY <1>3, <2>1, FlowPlain
  <2> QED BY <1>4, <1>6, <2>7, <2>9, <2>10, Shown DEF d
<1>11. CASE answer.class # "ABORTED" /\ answer.to # "RETR"
  <2>1. Then(<<>>)
    BY <1>11 DEF aborted
  <2>2. server.up => Quiet(server)
    BY <1>8, <1>11
  <2>3. d.call \notin Special
    BY <1>3 DEF Special, Calm
  <2>4. "aborted" \notin Steady \cup Copied \cup {"over"}
    BY <1>1
  <2> QED BY <1>1, <1>4, <1>6, <1>7, <2>1, <2>2, <2>3, <2>4, QuietRests, Returns DEF d, r
<1> QED BY <1>9, <1>10, <1>11

-----------------------------------------------------------------------------
(* A new session *)

\* A session that has just begun, in the directory that is remembered.
Anew(s, cw) ==
  /\ DOMAIN s = Fields /\ s.up /\ s.logged \in BOOLEAN /\ s.binary \in BOOLEAN /\ s.cwd \in Dirs \cup {"home"}
  /\ s.ready = None /\ s.xfer = None /\ s.n = 0 /\ s.replies = <<>> /\ KnownDir(s, cw)
  /\ cw \in Dirs \cup {None, "home"}

\* What is known of a session that has just begun.
LEMMA FreshIs ==
  ASSUME NEW w \in Dirs \cup {"home"}
  PROVE  /\ Anew([Fresh EXCEPT !.cwd = w], w) /\ [Fresh EXCEPT !.cwd = w].cmds = <<>>
         /\ Anew([Fresh EXCEPT !.cwd = w], None)
         /\ Anew([Fresh EXCEPT !.logged = FALSE], w) /\ [Fresh EXCEPT !.logged = FALSE].cmds = <<>>
         /\ Anew([Fresh EXCEPT !.logged = FALSE], None)
         /\ Anew(Fresh, None) /\ Fresh.cmds = <<>>
<1>1. [Fresh EXCEPT !.cwd = w].cwd = w /\ w # None
  BY FtpfsAssumption DEF Fresh, Dirs
<1> QED BY <1>1 DEF Anew, Fresh, Fields, KnownDir

\* What ftpfs_reconnect may come to.
LEMMA Reconnected ==
  ASSUME Kinds, NEW r \in Reconnections
  PROVE  /\ r.done \in BOOLEAN /\ r.new \in BOOLEAN /\ (r.done => r.new)
         /\ (~ r.new => r.server = server /\ r.cwdir = cwdir)
         /\ (r.new => Anew(r.server, r.cwdir) /\ r.server.cmds = <<>>)
<1> DEFINE w == IF cwdir = None THEN "home" ELSE cwdir
<1>1. cwdir \in Dirs \cup {None, "home"}
  BY DEF Kinds, SuperOK
<1>2. w \in Dirs \cup {"home"} /\ (cwdir = None \/ cwdir = w)
  BY <1>1
<1> HIDE DEF w
<1>3. CASE r = [done |-> TRUE, new |-> TRUE, cwdir |-> cwdir, server |-> [Fresh EXCEPT !.cwd = w]]
  <2>1. Anew([Fresh EXCEPT !.cwd = w], cwdir) /\ [Fresh EXCEPT !.cwd = w].cmds = <<>>
    BY <1>2, FreshIs
  <2> QED BY <1>3, <2>1
<1>4. CASE r = [done |-> FALSE, new |-> FALSE, cwdir |-> cwdir, server |-> server]
  BY <1>4
<1>5. CASE r = [done |-> FALSE, new |-> TRUE, cwdir |-> cwdir, server |-> [Fresh EXCEPT !.logged = FALSE]]
  <2>1. Anew([Fresh EXCEPT !.logged = FALSE], cwdir) /\ [Fresh EXCEPT !.logged = FALSE].cmds = <<>>
    BY <1>2, FreshIs
  <2> QED BY <1>5, <2>1
<1>6. CASE r = [done |-> FALSE, new |-> TRUE, cwdir |-> None, server |-> Fresh]
  <2>1. Anew(Fresh, None) /\ Fresh.cmds = <<>>
    BY <1>2, FreshIs
  <2> QED BY <1>6, <2>1
<1> QED BY <1>3, <1>4, <1>5, <1>6 DEF Reconnections, w

\* The server's ends of the data connections are closed.
LEMMA Hung ==
  ASSUME NEW e \in [Owner -> Pipes]
  PROVE  /\ HangUp(e) \in [Owner -> Pipes]
         /\ \A o \in Owner : /\ HangUp(e)[o].client = e[o].client /\ HangUp(e)[o].flow = e[o].flow
                             /\ HangUp(e)[o].link # "open"
<1> DEFINE new(o) == [e[o] EXCEPT !.link = IF @ = "open" THEN "closed" ELSE @]
<1>1. ASSUME NEW o \in Owner
      PROVE  new(o) \in Pipes /\ new(o).client = e[o].client /\ new(o).flow = e[o].flow /\ new(o).link # "open"
  <2>1. e[o] \in Pipes
    OBVIOUS
  <2>2. new(o) \in Pipes /\ new(o).flow = e[o].flow /\ new(o).link # "open"
    BY <2>1 DEF Pipes
  <2>3. new(o).client = e[o].client
    BY <2>1 DEF Pipes
  <2> QED BY <2>2, <2>3
<1>2. HangUp(e) = [o \in Owner |-> new(o)]
  BY DEF HangUp
<1> HIDE DEF new
<1> QED BY <1>1, <1>2

\* There is another session.
LEMMA KindsAnew ==
  ASSUME Kinds, super = "up", data' = HangUp(data), NEW cw, cwdir' = cw, Anew(server', cw), isbinary' = None,
         UNCHANGED <<super, use_passive_connection, strict, ctl_connection_busy, cacheVars, copyVars, stored, okay>>,
         harm' \in {None, "astray", "crashed"}
  PROVE  /\ Kinds' /\ UNCHANGED direct /\ poured' = 0 /\ KnownType(server', isbinary')
         /\ \A o \in Owner : data'[o].client = data[o].client /\ data'[o].flow = data[o].flow
<1>1. data \in [Owner -> Pipes]
  BY DEF Kinds, DataOK
<1>2. data' \in [Owner -> Pipes]
      /\ \A o \in Owner : /\ data'[o].client = data[o].client /\ data'[o].flow = data[o].flow
                          /\ data'[o].link # "open"
  BY <1>1, Hung
<1>3. ServerOK'
  BY FtpfsAssumption DEF Anew, ServerOK
<1>4. SuperOK'
  BY FtpfsAssumption DEF Kinds, Anew, SuperOK, cacheVars, copyVars
<1>5. CopyOK'
  BY DEF Kinds, CopyOK, copyVars
<1>6. DataOK'
  BY <1>2 DEF Kinds, DataOK
<1>7. FlowOK'
  <2>1. server'.xfer = None /\ data'["src"].flow = data["src"].flow
    BY <1>2 DEF Anew, Owner
  <2>2. src' = src /\ got' = got
    BY DEF copyVars
  <2> QED BY <2>1, <2>2, FtpfsAssumption DEF Kinds, FlowOK
<1>8. poured' = 0
  BY FtpfsAssumption DEF poured, Anew
<1>9. data'["dst"].client = data["dst"].client /\ dst' = dst
  BY <1>2 DEF Owner, copyVars
<1>10. direct' = direct
  BY <1>9 DEF direct
<1>11. KnownType(server', isbinary')
  BY DEF KnownType
<1> QED BY <1>2, <1>3, <1>4, <1>5, <1>6, <1>7, <1>8, <1>10, <1>11 DEF Kinds

\* A server that keeps sending is left for another session.
LEMMA AbortTimeout == FtpInv /\ abort_timeout => FtpInv'
<1> SUFFICES ASSUME FtpInv, abort_timeout PROVE FtpInv'
  OBVIOUS
<1> DEFINE t == Rest(todo)
           d == First(t)
<1>1. /\ At("aborting") /\ "aborting" \in Aborted /\ "aborting" \notin Steady /\ "aborting" \notin Copied \cup {"over"}
      /\ data["src"].link = "open"
  BY DEF abort_timeout, Aborted, Steady, Copied
<1>2. /\ Kinds /\ First(todo).call = "aborting" /\ IsStack(todo) /\ todo # <<>> /\ harm = None
      /\ Ends(todo, src, dst, got, put, direct, okay, super)
  BY <1>1, AtTop
<1>3. /\ t # <<>> /\ d.call \in {"read_failed", "close_dst"} /\ src # None /\ ~ direct /\ super # None
      /\ Standing(t, src, dst, got, put, poured) /\ dst # "direct" /\ Bottom(todo) = Bottom(t)
      /\ Bottom(todo).call \in Copied \cup {"over"} /\ ~ HasStart(t)
      /\ (Bottom(todo).call \in Copied => Bottom(todo).arg.from # "local")
  BY <1>1, AtAbort
<1>4. super = "up" /\ server.up
  BY <1>1, <1>2 DEF Kinds, SuperOK, DataOK, Owner
<1>5. PICK rc \in Reconnections : /\ ftpfs_reconnect(rc) /\ server' = rc.server
                                  /\ harm' = IF rc.new THEN harm ELSE "astray"
  BY DEF abort_timeout
<1>6. /\ rc.new \in BOOLEAN
      /\ (~ rc.new => rc.server = server /\ rc.cwdir = cwdir)
      /\ (rc.new => Anew(rc.server, rc.cwdir) /\ rc.server.cmds = <<>>)
  BY <1>2, Reconnected
<1>7. UNCHANGED <<super, use_passive_connection, strict, ctl_connection_busy, cacheVars, copyVars, stored, okay,
                  answer>> /\ Then(<<>>)
  BY DEF abort_timeout, Quietly
<1> HIDE DEF t, d
<1>8. CASE ~ rc.new
  <2>1. UNCHANGED <<server, data, cwdir, isbinary>> /\ harm' = "astray"
    BY <1>5, <1>6, <1>8 DEF ftpfs_reconnect
  <2>2. Kinds'
    BY <1>2, <1>7, <2>1, KindsOptions DEF Options, cacheVars
  <2> QED BY <2>1, <2>2, FtpfsAssumption, Stopped
<1>9. CASE rc.new
  <2>1. data' = HangUp(data) /\ cwdir' = rc.cwdir /\ isbinary' = None /\ server' = rc.server /\ harm' = harm
    BY <1>5, <1>9 DEF ftpfs_reconnect
  <2>2. Anew(server', rc.cwdir) /\ server'.cmds = <<>>
    BY <1>6, <1>9, <2>1
  <2>3. harm' \in {None, "astray", "crashed"}
    BY <1>2, <2>1
  <2>4. Kinds' /\ UNCHANGED direct /\ poured' = 0 /\ KnownType(server', isbinary')
    BY <1>2, <1>4, <1>7, <2>1, <2>2, <2>3, KindsAnew
  <2>5. todo' = t
    BY <1>2, <1>7, Thens DEF t
  <2>6. Standing(t, src, dst, got, put, 0)
    <3>1. Shape(t) /\ AllFit(t, src, dst, got, put, poured, Bottom(t)) /\ poured \in Nat
      BY <1>2, <1>3, Pour1 DEF Standing
    <3>2. 0 <= poured /\ 0 \in Nat
      BY <3>1
    <3>3. AllFit(t, src, dst, got, put, 0, Bottom(t))
      BY <3>1, <3>2, FitPour
    <3> QED BY <3>1, <3>3 DEF Standing
  <2>7. src = "open" => Bottom(t).call = "copy" \/ First(t).call \in {"close_src", "abort"}
    <3>1. src = "open" => Bottom(t).call = "copy"
      BY <1>2, <1>3 DEF Ends
    <3> QED BY <3>1
  <2>8. Ends(t, src, dst, got, put, direct, okay, super)
    BY <1>3, <2>7 DEF Ends, d
  <2>9. ctl_connection_busy' = ctl_connection_busy /\ copyVars' = copyVars
    BY <1>7
  <2>10. Rests(server', ctl_connection_busy, direct) /\ KnownDir(server', cwdir')
    <3>1. Quiet(server')
      BY <2>2 DEF Anew, Quiet
    <3> QED BY <2>1, <2>2, <3>1, QuietRests DEF Anew
  <2>11. TopAt(d, First(Rest(t)), server', ctl_connection_busy, direct, okay, answer, isbinary', cwdir')
    BY <1>3, <2>4, <2>10, PlainTop DEF Special, Calm
  <2>12. FlowKnown(d, First(Rest(t)), server', data', okay)
    BY <1>3, FlowPlain
  <2>13. Standing(todo, src, dst, got, put, poured)' /\ Ends(todo, src, dst, got, put, direct, okay, super)'
    BY <1>7, <2>4, <2>5, <2>6, <2>8 DEF copyVars
  <2> QED BY <1>7, <2>4, <2>5, <2>9, <2>11, <2>12, <2>13, Shown DEF d
<1> QED BY <1>6, <1>8, <1>9

-----------------------------------------------------------------------------
(* Closing the target *)

\* The target is closed, and stored if it is in a local file.
LEMMA CloseDst == FtpInv /\ close_dst => FtpInv'
<1> SUFFICES ASSUME FtpInv, close_dst PROVE FtpInv'
  OBVIOUS
<1> DEFINE r == Rest(todo)
           d == First(r)
<1>1. At("close_dst")
  BY DEF close_dst
<1>2. /\ Kinds /\ First(todo).call = "close_dst" /\ IsStack(todo) /\ todo # <<>> /\ harm = None
      /\ TopAt(First(todo), d, server, ctl_connection_busy, direct, okay, answer, isbinary, cwdir)
      /\ Standing(r, src, dst, got, put, poured) /\ Ends(todo, src, dst, got, put, direct, okay, super)
  BY <1>1, AtTop
<1>3. /\ r # <<>> /\ Below(First(todo), d) /\ Bottom(todo).call \notin Copied /\ Bottom(todo) = Bottom(r)
      /\ super # None /\ src # "open" /\ ~ HasStart(r) /\ Over(Level(First(todo)), r)
  BY <1>1, AtEnding
<1>4. d.call = "chmod" /\ Over(9, r)
  BY <1>2, <1>3, Levels DEF Below
<1> HIDE DEF r, d
<1>5. UNCHANGED <<src, dst, got, put, super, isbinary, ctl_connection_busy, cwdir, server, stored, answer,
                  harm, okay, superVars, copyVars, cacheVars>>
  BY DEF close_dst, Quietly, copyVars, superVars
<1>6. server.up => Rests(server, ctl_connection_busy, direct) /\ KnownDir(server, cwdir) /\ KnownType(server, isbinary)
  BY <1>2, TopKnown DEF Special, Calm
<1>7. ~ ctl_connection_busy
  BY <1>2, <1>3 DEF Kinds, CopyOK
\* What the calls that are put there have in common.
<1>8. ASSUME NEW u, Bottom(u) = Bottom(r), ~ direct', u # <<>>
      PROVE  Ends(u, src, dst, got, put, direct', okay, super)
  BY <1>2, <1>3, <1>8 DEF Ends
<1>9. CASE dst = "direct" /\ Close("dst") /\ Then(<<Do("get_reply"), Do("stored")>>)
  <2> DEFINE x == Do("get_reply")
             y == Do("stored")
  <2>1. x.call = "get_reply" /\ y.call = "stored"
    BY DEF Do, Call
  <2>2. Then(<<x, y>>)
    BY <1>9
  <2> HIDE DEF x, y
  <2>3. todo' = On(x, On(y, r))
    BY <1>2, <2>2, Thens DEF r
  <2>4. harm' \in {None, "astray", "crashed"} /\ okay' \in BOOLEAN
    BY <1>2, <1>5 DEF Kinds, SuperOK
  <2>5. "dst" \in Owner
    BY DEF Owner
  <2>6. Kinds' /\ UNCHANGED poured /\ ~ data'["dst"].client
    BY <1>2, <1>5, <1>9, <2>4, <2>5, KindsClosed
  <2>7. ~ direct'
    BY <2>6 DEF direct
  <2>8. CallOK(x) /\ CallOK(y) /\ Level(x) = 20 /\ Level(y) = 9
    BY <2>1, Levels DEF CallOK, Connects, Looks, Copied, Switches, Aborted
  <2>9. Below(x, y)
    BY <2>1 DEF Below, Readers, Connects, Looks, Copied, Aborted, Switches, IsOr, IsStop, IsOn, IsOff
  <2>10. Bel(y, r)
    <3>1. Below(y, d)
      BY <1>4, <2>1 DEF Below, Readers, Connects, Looks, Copied, Aborted, Switches, IsOr, IsStop, IsOn, IsOff
    <3> QED BY <1>3, <3>1 DEF Bel, d
  <2>11. Fits(x, src, dst, got, put, poured, Bottom(r)) /\ Fits(y, src, dst, got, put, poured, Bottom(r))
    BY <2>1 DEF Fits, Connects, Copied, Early, Aborted, Switches, IsStop, IsOn, IsOr
  <2>12. Over(Level(y), r)
    BY <1>4, <2>8
  <2>13. /\ Standing(On(x, On(y, r)), src, dst, got, put, poured)
         /\ First(On(x, On(y, r))) = x /\ Rest(On(x, On(y, r))) = On(y, r) /\ First(On(y, r)) = y
         /\ Bottom(On(x, On(y, r))) = Bottom(r)
    BY <1>2, <1>3, <2>8, <2>9, <2>10, <2>11, <2>12, Put2
  <2>14. todo' # <<>> /\ Bottom(todo') = Bottom(r)
    <3>1. First(todo') = x /\ First(<<>>).call = "nothing"
      BY <2>3, <2>13 DEF First, Do, Call
    <3> QED BY <2>1, <2>3, <2>13, <3>1
  <2>15. Ends(todo', src, dst, got, put, direct', okay, super)
    BY <1>8, <2>7, <2>14
  <2>16. server.up => Reading(y, server)
    <3>1. server.up => Owes(server, "STOR")
      BY <1>6, <1>7, QuietRests DEF Rests
    <3> QED BY <2>1, <3>1 DEF Reading
  <2>17. TopAt(x, y, server, ctl_connection_busy, direct', okay, answer, isbinary, cwdir)
    BY <1>6, <2>1, <2>16, ReplyTop
  <2>18. FlowKnown(x, y, server, data', okay)
    BY <2>1, FlowPlain
  <2> QED BY <1>5, <2>3, <2>6, <2>13, <2>15, <2>17, <2>18, Shown
<1>10. UNCHANGED data => Kinds' /\ UNCHANGED <<poured, direct>>
  <2>1. UNCHANGED data => Kinds'
    BY <1>2, <1>5, KindsOptions DEF Options, superVars, cacheVars
  <2> QED BY <1>5, <2>1 DEF poured, direct
<1>11. CASE dst = "temp" /\ UNCHANGED data
            /\ Then(<<ftpfs_open_data_connection("dst", "STOR", None, TRUE), Call("file_store", 0)>>)
  <2> DEFINE x == ftpfs_open_data_connection("dst", "STOR", None, TRUE)
             y == Call("file_store", 0)
  <2>1. /\ x.call = "initconn" /\ x.arg = Request("dst", "STOR", None, TRUE) /\ x.arg.owner = "dst"
        /\ y.call = "file_store" /\ y.arg = 0
    BY DEF Call, ftpfs_open_data_connection, Request
  <2>2. Then(<<x, y>>)
    BY <1>11
  <2> HIDE DEF x, y
  <2>3. todo' = On(x, On(y, r))
    BY <1>2, <2>2, Thens DEF r
  <2>4. ~ direct /\ (server.up => Quiet(server))
    BY <1>6, <1>7, <1>11 DEF direct, Rests
  <2>5. poured = 0
    BY <1>2, <2>4, FtpfsAssumption DEF poured, Quiet, Kinds, ServerOK
  <2>6. CallOK(x) /\ CallOK(y) /\ Level(x) = 20 /\ Level(y) = 9
    BY <2>1, Levels DEF CallOK, Connects, Looks, Copied, Switches, Aborted, Requests
  <2>7. Below(x, y)
    BY <2>1 DEF Below, Asker, Readers, Connects, Looks, Copied, Aborted, Switches, IsOr, IsStop, IsOn, IsOff
  <2>8. Bel(y, r)
    <3>1. Below(y, d)
      BY <1>4, <2>1 DEF Below, Readers, Connects, Looks, Copied, Aborted, Switches, IsOr, IsStop, IsOn, IsOff
    <3> QED BY <1>3, <3>1 DEF Bel, d
  <2>9. Fits(x, src, dst, got, put, poured, Bottom(r))
    BY <2>1 DEF Fits, Connects, Copied, Early, Aborted, Switches, IsStop, IsOn, IsOr
  <2>10. Fits(y, src, dst, got, put, poured, Bottom(r))
    <3>1. poured <= y.arg /\ y.arg <= put
      BY <1>2, <2>1, <2>5, FtpfsAssumption DEF Kinds, CopyOK
    <3> QED BY <1>11, <2>1, <3>1 DEF Fits, Connects, Copied, Early, Aborted, Switches, IsStop, IsOn, IsOr
  <2>11. Over(Level(y), r)
    BY <1>4, <2>6
  <2>12. /\ Standing(On(x, On(y, r)), src, dst, got, put, poured)
         /\ First(On(x, On(y, r))) = x /\ Rest(On(x, On(y, r))) = On(y, r) /\ First(On(y, r)) = y
         /\ Bottom(On(x, On(y, r))) = Bottom(r)
    BY <1>2, <1>3, <2>6, <2>7, <2>8, <2>9, <2>10, <2>11, Put2
  <2>13. todo' # <<>> /\ Bottom(todo') = Bottom(r)
    <3>1. First(todo') = x /\ First(<<>>).call = "nothing"
      BY <2>3, <2>12 DEF First, Do, Call
    <3> QED BY <2>1, <2>3, <2>12, <3>1
  <2>14. direct' = direct
    BY <1>10, <1>11
  <2>15. Ends(todo', src, dst, got, put, direct', okay, super)
    BY <1>8, <2>4, <2>13, <2>14
  <2>16. TopAt(x, y, server, ctl_connection_busy, direct, okay, answer, isbinary, cwdir)
    BY <1>6, <2>1, PlainTop DEF Special, Calm
  <2>17. FlowKnown(x, y, server, data, okay)
    BY <2>1, FlowPlain
  <2> QED BY <1>5, <1>10, <1>11, <2>3, <2>12, <2>14, <2>15, <2>16, <2>17, Shown
<1>12. CASE dst # "direct" /\ UNCHANGED data /\ Then(<<>>)
  <2>1. todo' = r
    BY <1>2, <1>12, Thens DEF r
  <2>2. direct' = direct /\ ~ direct
    BY <1>10, <1>12 DEF direct
  <2>3. Ends(r, src, dst, got, put, direct', okay, super)
    BY <1>3, <1>8, <2>2
  <2>4. TopAt(d, First(Rest(r)), server, ctl_connection_busy, direct, okay, answer, isbinary, cwdir)
    BY <1>4, <1>6, PlainTop DEF Special, Calm
  <2>5. FlowKnown(d, First(Rest(r)), server, data, okay)
    BY <1>4, FlowPlain
  <2> QED BY <1>2, <1>5, <1>10, <1>12, <2>1, <2>2, <2>3, <2>4, <2>5, Shown DEF d
<1> QED BY <1>9, <1>11, <1>12 DEF close_dst

\* The local file is written, or not any more: the reply to the transfer is read.
LEMMA StoreReads ==
  ASSUME FtpInv, At("file_store"), okay, NEW y, y.call \in {"stored", "store_failed"}, Close("dst"),
         Then(<<Do("get_reply"), y>>), UNCHANGED <<superVars, cacheVars, copyVars, server, stored, harm, okay, answer>>
  PROVE  FtpInv'
<1> DEFINE r == Rest(todo)
           d == First(r)
           x == Do("get_reply")
<1>1. "file_store" \notin Steady /\ "file_store" \notin Copied \cup {"over"}
  BY DEF Steady, Copied
<1>2. /\ Kinds /\ First(todo).call = "file_store" /\ IsStack(todo) /\ todo # <<>> /\ harm = None
      /\ TopAt(First(todo), d, server, ctl_connection_busy, direct, okay, answer, isbinary, cwdir)
      /\ Fits(First(todo), src, dst, got, put, poured, Bottom(todo))
  BY AtTop
<1>3. /\ r # <<>> /\ Below(First(todo), d)
  BY AtEnding
<1>4. d.call = "chmod" /\ Level(First(todo)) = 9
  BY <1>2, <1>3, Levels DEF Below
<1>5. x.call = "get_reply"
  BY DEF Do, Call
<1>6. Then(<<x, y>>)
  OBVIOUS
<1> HIDE DEF r, d, x
<1>7. harm' \in {None, "astray", "crashed"} /\ okay' \in BOOLEAN
  BY <1>2 DEF Kinds, SuperOK
<1>8. "dst" \in Owner
  BY DEF Owner
<1>9. Kinds' /\ UNCHANGED poured
  BY <1>2, <1>7, <1>8, KindsClosed
<1>10. UNCHANGED <<src, dst, got, put, super, direct>>
  <2>1. dst # "direct" /\ dst' = dst
    BY <1>2, FtpfsAssumption DEF Fits, copyVars
  <2> QED BY <2>1 DEF copyVars, superVars, direct
<1>11. todo' = On(x, On(y, r))
  BY <1>2, <1>6, Thens DEF r
<1>12. CallOK(x) /\ CallOK(y) /\ Level(x) = 20 /\ Level(y) = 9
  BY <1>5, Levels DEF CallOK, Connects, Looks, Copied, Switches, Aborted
<1>13. Below(x, y)
  BY <1>5 DEF Below, Readers, Connects, Looks, Copied, Aborted, Switches, IsOr, IsStop, IsOn, IsOff
<1>14. Bel(y, r)
  <2>1. Below(y, d)
    BY <1>4 DEF Below, Readers, Connects, Looks, Copied, Aborted, Switches, IsOr, IsStop, IsOn, IsOff
  <2> QED BY <1>3, <2>1 DEF Bel, d
<1>15. Fits(x, src, dst, got, put, poured, Bottom(todo)) /\ Fits(y, src, dst, got, put, poured, Bottom(todo))
  BY <1>5 DEF Fits, Connects, Copied, Early, Aborted, Switches, IsStop, IsOn, IsOr
<1>16. /\ Standing(todo, src, dst, got, put, poured)' /\ Ends(todo, src, dst, got, put, direct, okay, super)'
       /\ First(todo') = x /\ First(Rest(todo')) = y
  BY <1>1, <1>3, <1>4, <1>9, <1>10, <1>11, <1>12, <1>13, <1>14, <1>15, Go2 DEF r
<1>17. server.up => Reading(y, server) /\ KnownDir(server, cwdir) /\ KnownType(server, isbinary)
  <2>1. server.up => Owes(server, "STOR")
    BY <1>2 DEF TopAt, Expected
  <2>2. server.up => Reading(y, server)
    BY <2>1 DEF Reading
  <2> QED BY <1>2, <2>2, TopKnown
<1>18. TopAt(x, y, server, ctl_connection_busy, direct, okay, answer, isbinary, cwdir)
  BY <1>5, <1>17, ReplyTop
<1>19. FlowKnown(x, y, server, data', okay)
  BY <1>5, FlowPlain
<1>20. UNCHANGED <<ctl_connection_busy, direct, okay, answer, isbinary, cwdir, server>>
  BY <1>10 DEF superVars
<1> QED BY <1>9, <1>16, <1>18, <1>19, <1>20, Shown

\* The user interrupts the storing: the reply of the server is still read.
LEMMA InterruptStore == FtpInv /\ interrupt_store => FtpInv'
<1> SUFFICES ASSUME FtpInv, interrupt_store PROVE FtpInv'
  OBVIOUS
<1> DEFINE y == Do("store_failed")
<1>1. y.call = "store_failed"
  BY DEF Do, Call
<1>2. Then(<<Do("get_reply"), y>>)
  BY DEF interrupt_store
<1> HIDE DEF y
<1>3. /\ At("file_store") /\ okay /\ Close("dst")
      /\ UNCHANGED <<superVars, cacheVars, copyVars, server, stored, harm, okay, answer>>
  BY DEF interrupt_store, Quietly
<1> QED BY <1>1, <1>2, <1>3, StoreReads

\* The local file is sent to the server, block by block.
LEMMA FileStore == FtpInv /\ ftpfs_file_store => FtpInv'
<1> SUFFICES ASSUME FtpInv, ftpfs_file_store PROVE FtpInv'
  OBVIOUS
<1> DEFINE c == First(todo)
           r == Rest(todo)
           d == First(r)
<1>1. At("file_store") /\ "file_store" \notin Steady /\ "file_store" \notin Copied \cup {"over"}
  BY DEF ftpfs_file_store, Steady, Copied
<1>2. /\ Kinds /\ c.call = "file_store" /\ IsStack(todo) /\ todo # <<>> /\ harm = None /\ c.arg = Arg
      /\ TopAt(c, d, server, ctl_connection_busy, direct, okay, answer, isbinary, cwdir)
      /\ Fits(c, src, dst, got, put, poured, Bottom(todo)) /\ CallOK(c)
      /\ Standing(r, src, dst, got, put, poured) /\ Ends(todo, src, dst, got, put, direct, okay, super)
  BY <1>1, AtTop
<1>3. /\ r # <<>> /\ Below(c, d) /\ Bottom(todo) = Bottom(r) /\ Bottom(todo).call \notin Copied
      /\ super # None /\ src # "open" /\ ~ HasStart(r) /\ Over(Level(c), r)
  BY <1>1, AtEnding
<1>4. d.call = "chmod" /\ Level(c) = 9
  BY <1>2, <1>3, Levels DEF Below
<1>5. dst = "temp" /\ Arg \in Nat /\ poured <= Arg /\ ~ direct
  <2>1. dst = "temp" /\ c.arg \in Nat /\ poured <= c.arg
    BY <1>2 DEF Fits, CallOK
  <2> QED BY <1>2, <2>1 DEF direct
<1> HIDE DEF c, r, d
<1>6. UNCHANGED <<super, isbinary, ctl_connection_busy, cwdir, server, stored, answer,
                  harm, okay, superVars, copyVars, cacheVars>>
  BY DEF ftpfs_file_store, Quietly, superVars
<1>7. server.up => KnownDir(server, cwdir) /\ KnownType(server, isbinary)
  BY <1>2, TopKnown
<1>8. CASE ~ okay /\ Then(<<Do("store_failed")>>) /\ UNCHANGED data
  <2> DEFINE x == Do("store_failed")
  <2>1. x.call = "store_failed"
    BY DEF Do, Call
  <2>2. Then(<<x>>)
    BY <1>8
  <2> HIDE DEF x
  <2>3. todo' = On(x, r)
    BY <1>2, <2>2, Thens DEF r
  <2>4. CallOK(x) /\ Level(x) = 9
    BY <2>1, Levels DEF CallOK, Connects, Looks, Copied, Switches
  <2>5. Bel(x, r)
    <3>1. Below(x, d)
      BY <1>4, <2>1 DEF Below, Readers, Connects, Looks, Copied, Aborted, Switches, IsOr, IsStop, IsOn, IsOff
    <3> QED BY <1>3, <3>1 DEF Bel, d
  <2>6. Fits(x, src, dst, got, put, poured, Bottom(todo))
    BY <2>1 DEF Fits, Connects, Copied, Early, Aborted, Switches, IsStop, IsOn, IsOr
  <2>7. UNCHANGED <<src, dst, got, put, poured, direct>>
    BY <1>6, <1>8 DEF copyVars, poured, direct
  <2>8. Level(x) = Level(First(todo))
    BY <1>4, <2>4 DEF c
  <2>9. /\ Standing(todo, src, dst, got, put, poured)' /\ Ends(todo, src, dst, got, put, direct, okay, super)'
        /\ First(todo') = x /\ Rest(todo') = r
    BY <1>1, <1>3, <1>6, <2>3, <2>4, <2>5, <2>6, <2>7, <2>8, Go1 DEF r
  <2>10. Kinds'
    BY <1>2, <1>6, <1>8, KindsOptions DEF Options, superVars, cacheVars
  <2>11. server.up => Quiet(server)
    <3>1. ~ ctl_connection_busy
      BY <1>2, <1>3 DEF Kinds, CopyOK
    <3>2. server.up => Rests(server, ctl_connection_busy, direct)
      BY <1>2, <1>8 DEF TopAt, Expected
    <3> QED BY <1>5, <3>1, <3>2 DEF Rests
  <2>12. TopAt(x, d, server, ctl_connection_busy, direct, okay, answer, isbinary, cwdir)
    BY <1>7, <2>1, <2>11 DEF TopAt, Expected, TypeKnown, DirKnown, ReadyKnown, Special, Calm
  <2>13. FlowKnown(x, d, server, data, okay)
    BY <2>1, FlowPlain
  <2> QED BY <1>6, <1>8, <2>7, <2>9, <2>10, <2>12, <2>13, Shown DEF d
<1>9. CASE okay /\ Arg < put /\ Write("dst") /\ Then(<<Call("file_store", Arg + 1)>>)
  <2> DEFINE x == Call("file_store", Arg + 1)
  <2>1. x.call = "file_store" /\ x.arg = Arg + 1
    BY DEF Call
  <2>2. Then(<<x>>)
    BY <1>9
  <2> HIDE DEF x
  <2>3. todo' = On(x, r)
    BY <1>2, <2>2, Thens DEF r
  <2>4. put \in Nat /\ put <= got /\ poured \in Nat
    BY <1>2, Pour1, FtpfsAssumption DEF Kinds, CopyOK
  <2>5. put' = put /\ UNCHANGED <<src, dst, got, wanted, exact, ended, told>>
    BY <1>6 DEF copyVars
  <2>6. server.xfer = "dst" => poured < put'
    BY <1>5, <1>9, <2>4, <2>5
  <2>7. put' \in {put, put + 1} /\ put' <= got
    BY <2>4, <2>5
  <2>8. Kinds' /\ UNCHANGED direct /\ poured' \in Nat /\ poured' <= poured + 1
    BY <1>2, <1>6, <1>9, <2>5, <2>6, <2>7, KindsWritten
  <2>9. Standing(r, src, dst, got, put, poured')
    <3>1. Shape(r) /\ AllFit(r, src, dst, got, put, poured, Bottom(r)) /\ Over(9, r)
      BY <1>2, <1>3, <1>4 DEF Standing
    <3>2. AllFit(r, src, dst, got, put, poured', Bottom(r))
      BY <2>4, <2>8, <3>1, FitPour
    <3> QED BY <3>1, <3>2 DEF Standing
  <2>10. CallOK(x) /\ Level(x) = 9
    BY <1>5, <2>1, Levels DEF CallOK, Connects, Looks, Copied, Switches
  <2>11. Bel(x, r)
    <3>1. Below(x, d)
      BY <1>4, <2>1 DEF Below, Readers, Connects, Looks, Copied, Aborted, Switches, IsOr, IsStop, IsOn, IsOff
    <3> QED BY <1>3, <3>1 DEF Bel, d
  <2>12. Fits(x, src, dst, got, put, poured', Bottom(r))
    <3>1. poured' <= x.arg /\ x.arg <= put
      BY <1>5, <1>9, <2>1, <2>4, <2>8
    <3> QED BY <1>5, <2>1, <3>1 DEF Fits, Connects, Copied, Early, Aborted, Switches, IsStop, IsOn, IsOr
  <2>13. Over(Level(x), r)
    BY <1>3, <1>4, <2>10
  <2>14. /\ Standing(On(x, r), src, dst, got, put, poured') /\ First(On(x, r)) = x /\ Bottom(On(x, r)) = Bottom(r)
         /\ Rest(On(x, r)) = r /\ (HasStart(On(x, r)) <=> x.call = "ftpfs_linear_start" \/ HasStart(r))
    BY <1>3, <2>9, <2>10, <2>11, <2>12, <2>13, Put1
  <2>15. Ends(On(x, r), src, dst, got, put, direct, okay, super)
    BY <1>2, <1>3, <1>5, <2>1, <2>14 DEF Ends
  <2>16. server.up => Owes(server, "STOR")
    BY <1>2, <1>9 DEF TopAt, Expected
  <2>17. TopAt(x, d, server, ctl_connection_busy, direct, okay, answer, isbinary, cwdir)
    BY <1>7, <1>9, <2>1, <2>16 DEF TopAt, Expected, TypeKnown, DirKnown, ReadyKnown, Special, Calm
  <2>18. FlowKnown(x, d, server, data', okay)
    BY <2>1, FlowPlain
  <2> QED BY <1>6, <2>3, <2>5, <2>8, <2>14, <2>15, <2>17, <2>18, Shown DEF d
<1>10. CASE okay /\ Close("dst") /\ \E y \in {Do("stored"), Do("store_failed")} : Then(<<Do("get_reply"), y>>)
  <2>1. PICK y \in {Do("stored"), Do("store_failed")} : Then(<<Do("get_reply"), y>>)
    BY <1>10
  <2>2. y.call \in {"stored", "store_failed"}
    BY DEF Do, Call
  <2> QED BY <1>1, <1>6, <1>10, <2>1, <2>2, StoreReads
<1> QED BY <1>8, <1>9, <1>10 DEF ftpfs_file_store

\* The listings are dropped, or kept.
LEMMA Invalidated ==
  ASSUME Kinds, (want_stale' = want_stale /\ vfs_s_invalidate) \/ UNCHANGED listing
  PROVE  listing' \in [Dirs -> Dirs \cup {None, "home"}]
<1>1. listing \in [Dirs -> Dirs \cup {None, "home"}] /\ Unknown \in [Dirs -> Dirs \cup {None, "home"}]
  BY DEF Kinds, SuperOK, Unknown
<1> QED BY <1>1 DEF vfs_s_invalidate

\* The copy or the command is told of.
LEMMA KindsTold ==
  ASSUME Kinds, told' \in {None, "stored", "deleted", "failed"}, listing' \in [Dirs -> Dirs \cup {None, "home"}],
         UNCHANGED <<superVars, src, dst, got, put, wanted, exact, ended, want_stale, saved, lines, server, data,
                     stored, okay, harm>>
  PROVE  Kinds' /\ UNCHANGED <<poured, direct>>
<1>1. ServerOK' /\ DataOK' /\ FlowOK' /\ UNCHANGED poured
  BY DEF Kinds, ServerOK, DataOK, FlowOK, poured
<1>2. CopyOK'
  BY DEF Kinds, CopyOK, superVars
<1>3. SuperOK'
  BY DEF Kinds, SuperOK, superVars
<1>4. direct' = direct
  BY DEF direct
<1> QED BY <1>1, <1>2, <1>3, <1>4 DEF Kinds

\* A call that only tells of what was done, or drops the listings.
LEMMA Tells1 ==
  ASSUME NEW name \in {"stored", "store_failed", "flush", "commanded"}, FtpInv, At(name), Then(<<>>),
         told' \in {None, "stored", "deleted", "failed"}, listing' \in [Dirs -> Dirs \cup {None, "home"}],
         UNCHANGED <<superVars, src, dst, got, put, wanted, exact, ended, want_stale, saved, lines, server, data,
                     stored, okay, harm>>
  PROVE  FtpInv'
<1> DEFINE c == First(todo)
           r == Rest(todo)
           d == First(r)
<1>1. /\ Kinds /\ c.call = name /\ Bel(c, r) /\ CallOK(c)
      /\ TopAt(c, d, server, ctl_connection_busy, direct, okay, answer, isbinary, cwdir)
  BY AtTop
<1>2. r # <<>>
  BY <1>1 DEF Bel, MayEnd, Looks, Copied
<1>3. Below(c, d)
  BY <1>2, Second
<1> HIDE DEF c, r, d
<1>4. d.call \in {"chmod", "over", "setctl", "stale"}
  BY <1>1, <1>3 DEF Below, IsOff, Switches
<1>5. d.call \notin Special
  BY <1>4 DEF Special, Calm
<1>6. Kinds' /\ UNCHANGED <<poured, direct>>
  BY <1>1, KindsTold
<1>7. server.up => Quiet(server) /\ KnownDir(server, cwdir) /\ KnownType(server, isbinary)
  BY <1>1, TopKnown DEF Calm
<1>8. name \notin Steady \cup Copied \cup {"over"}
  BY DEF Steady, Copied
<1>9. UNCHANGED <<super, ctl_connection_busy, cwdir, isbinary>>
  BY DEF superVars
<1> QED BY <1>5, <1>6, <1>7, <1>8, <1>9, QuietRests, Returns DEF d, r

\* The user is told what has become of the target.
LEMMA StoredOrNot == FtpInv /\ stored_or_not => FtpInv'
<1> SUFFICES ASSUME FtpInv, stored_or_not PROVE FtpInv'
  OBVIOUS
<1>1. Kinds
  BY DEF FtpInv
<1>2. /\ At("stored") \/ At("store_failed")
      /\ told' \in {"stored", "failed"} /\ UNCHANGED <<src, dst, got, put, wanted, exact, ended>>
  BY DEF stored_or_not, Tell
<1>3. /\ Then(<<>>)
      /\ UNCHANGED <<superVars, want_stale, saved, lines, server, data, stored, okay, harm>>
  BY DEF stored_or_not, Quietly
<1>4. listing' \in [Dirs -> Dirs \cup {None, "home"}]
  BY <1>1, <1>3, Invalidated DEF stored_or_not
<1> QED BY <1>2, <1>3, <1>4, Tells1

\* The user is told what has become of his command.
LEMMA Commanded1 == FtpInv /\ commanded => FtpInv'
<1> SUFFICES ASSUME FtpInv, commanded PROVE FtpInv'
  OBVIOUS
<1>1. Kinds
  BY DEF FtpInv
<1>2. /\ At("commanded") /\ told' \in {"deleted", "failed"}
      /\ UNCHANGED <<src, dst, got, put, wanted, exact, ended>>
  BY DEF commanded, Tell
<1>3. /\ Then(<<>>)
      /\ UNCHANGED <<superVars, want_stale, saved, lines, server, data, stored, okay, harm>>
  BY DEF commanded, Quietly
<1>4. listing' \in [Dirs -> Dirs \cup {None, "home"}]
  BY <1>1, <1>3, Invalidated DEF commanded
<1> QED BY <1>2, <1>3, <1>4, Tells1

\* A command that changes files has been answered.
LEMMA Flush1 == FtpInv /\ flush => FtpInv'
<1> SUFFICES ASSUME FtpInv, flush PROVE FtpInv'
  OBVIOUS
<1>1. Kinds
  BY DEF FtpInv
<1>2. /\ At("flush") /\ Then(<<>>)
      /\ UNCHANGED <<superVars, want_stale, saved, lines, server, data, stored, okay, harm, copyVars>>
  BY DEF flush, Quietly
<1>3. listing' \in [Dirs -> Dirs \cup {None, "home"}]
  BY <1>1, <1>2, Invalidated DEF flush
<1>4. told' \in {None, "stored", "deleted", "failed"} /\ UNCHANGED <<src, dst, got, put, wanted, exact, ended>>
  BY <1>1, <1>2 DEF Kinds, CopyOK, copyVars
<1> QED BY <1>2, <1>3, <1>4, Tells1

\* The target's mode is set, or what there is of it deleted.
LEMMA ChmodAsks ==
  ASSUME FtpInv, At("chmod"), NEW cmd \in {"SITE", "DELE"}, Then(<<Ask(cmd, None), Do("flush")>>), Kinds',
         UNCHANGED <<src, dst, got, put, poured, direct, super, server, answer, ctl_connection_busy, isbinary,
                     cwdir, okay>>
  PROVE  FtpInv'
<1> DEFINE c == First(todo)
           r == Rest(todo)
           d == First(r)
           x == Ask(cmd, None)
           y == Do("flush")
<1>1. "chmod" \notin Steady /\ "chmod" \notin Copied \cup {"over"}
  BY DEF Steady, Copied
<1>2. /\ c.call = "chmod" /\ IsStack(todo) /\ todo # <<>>
      /\ TopAt(c, d, server, ctl_connection_busy, direct, okay, answer, isbinary, cwdir)
  BY AtTop
<1>3. /\ r # <<>> /\ Below(c, d)
  BY AtEnding
<1>4. (IsOff(d) \/ d.call = "over") /\ Level(c) = 10
  BY <1>2, <1>3, Levels DEF Below
<1>5. x.call = "command" /\ x.arg = Command(cmd, None) /\ x.arg.name # "ABOR" /\ y.call = "flush"
  BY DEF Do, Call, Ask, Command
<1>6. Then(<<x, y>>)
  OBVIOUS
<1> HIDE DEF c, r, d, x, y
<1>7. todo' = On(x, On(y, r))
  BY <1>2, <1>6, Thens DEF r
<1>8. CallOK(x) /\ CallOK(y) /\ Level(x) = 20 /\ Level(y) = 10
  BY <1>5, Levels DEF CallOK, Connects, Looks, Copied, Switches, Aborted
<1>9. Below(x, y)
  BY <1>5 DEF Below, Waiter, Readers, Connects, Looks, Copied, Aborted, Switches, IsOr, IsStop, IsOn, IsOff
<1>10. Bel(y, r)
  <2>1. Below(y, d)
    BY <1>4, <1>5 DEF Below, Readers, Connects, Looks, Copied, Aborted, Switches, IsOr, IsStop, IsOn, IsOff
  <2> QED BY <1>3, <2>1 DEF Bel, d
<1>11. Fits(x, src, dst, got, put, poured, Bottom(todo)) /\ Fits(y, src, dst, got, put, poured, Bottom(todo))
  BY <1>5 DEF Fits, Connects, Copied, Early, Aborted, Switches, IsStop, IsOn, IsOr
<1>12. Level(y) = Level(First(todo))
  BY <1>4, <1>8 DEF c
<1>13. /\ Standing(todo, src, dst, got, put, poured)' /\ Ends(todo, src, dst, got, put, direct, okay, super)'
       /\ First(todo') = x /\ First(Rest(todo')) = y
  BY <1>1, <1>3, <1>7, <1>8, <1>9, <1>10, <1>11, <1>12, Go2 DEF r
<1>14. server.up => Rests(server, ctl_connection_busy, direct) /\ KnownDir(server, cwdir) /\ KnownType(server, isbinary)
  BY <1>2, TopKnown DEF Special, Calm
<1>15. TopAt(x, y, server, ctl_connection_busy, direct, okay, answer, isbinary, cwdir)
  BY <1>5, <1>14, CommandTop
<1>16. FlowKnown(x, y, server, data', okay)
  BY <1>5, FlowPlain
<1> QED BY <1>13, <1>15, <1>16, Shown

\* The target gets its mode, or is deleted when it is short.
LEMMA Chmod1 == FtpInv /\ chmod => FtpInv'
<1> SUFFICES ASSUME FtpInv, chmod PROVE FtpInv'
  OBVIOUS
<1> DEFINE c == First(todo)
           r == Rest(todo)
           d == First(r)
<1>1. At("chmod") /\ "chmod" \notin Steady \cup Copied \cup {"over"}
  BY DEF chmod, Steady, Copied
<1>2. /\ Kinds /\ c.call = "chmod"
      /\ TopAt(c, d, server, ctl_connection_busy, direct, okay, answer, isbinary, cwdir)
  BY <1>1, AtTop
<1>3. r # <<>> /\ Below(c, d)
  BY <1>1, AtEnding
<1> HIDE DEF c, r, d
<1>4. UNCHANGED <<src, dst, got, put, super, isbinary, ctl_connection_busy, cwdir, server, data, stored, answer,
                  harm, okay, superVars, copyVars, cacheVars, poured, direct>>
  BY DEF chmod, Quietly, copyVars, superVars, poured, direct
<1>5. Kinds'
  BY <1>2, <1>4, KindsOptions DEF Options, superVars, cacheVars
<1>6. CASE \E cmd \in {"SITE", "DELE"} : Then(<<Ask(cmd, None), Do("flush")>>)
  <2>1. PICK cmd \in {"SITE", "DELE"} : Then(<<Ask(cmd, None), Do("flush")>>)
    BY <1>6
  <2> QED BY <1>1, <1>4, <1>5, <2>1, ChmodAsks
<1>7. CASE Then(<<>>)
  <2>1. d.call \in {"over", "setctl", "stale"}
    BY <1>2, <1>3 DEF Below, IsOff, Switches
  <2>2. d.call \notin Special
    BY <2>1 DEF Special, Calm
  <2>3. server.up => Rests(server, ctl_connection_busy, direct) /\ KnownDir(server, cwdir) /\ KnownType(server, isbinary)
    BY <1>2, TopKnown DEF Special, Calm
  <2> QED BY <1>1, <1>4, <1>5, <1>7, <2>2, <2>3, Returns DEF d, r
<1> QED BY <1>6, <1>7 DEF chmod

\* Nothing is called, and no file is open.
LEMMA GoIdle ==
  ASSUME todo' = <<>>, Kinds', Nobody(src', dst', got', put'), ~ direct',
         server'.up => Quiet(server') /\ KnownDir(server', cwdir') /\ KnownType(server', isbinary')
  PROVE  FtpInv'
<1>1. First(<<>>) = Do("nothing") /\ Do("nothing").call = "nothing" /\ Bottom(<<>>) = Do("nothing")
  BY DEF First, Bottom, Do, Call
<1>2. Standing(todo, src, dst, got, put, poured)'
  BY EmptyShape DEF Standing, AllFit
<1>3. Ends(<<>>, src', dst', got', put', direct', okay', super')
  BY <1>1, FtpfsAssumption DEF Ends, Nobody, Copied
<1>4. TopAt(First(<<>>), First(Rest(<<>>)), server', ctl_connection_busy', direct', okay', answer', isbinary', cwdir')
  BY <1>1, QuietRests, PlainTop DEF Special, Calm
<1>5. FlowKnown(First(<<>>), First(Rest(<<>>)), server', data', okay')
  BY <1>1, FlowPlain
<1> QED BY <1>2, <1>3, <1>4, <1>5, Shown

\* The copy is over.
LEMMA Over1 == FtpInv /\ over => FtpInv'
<1> SUFFICES ASSUME FtpInv, over PROVE FtpInv'
  OBVIOUS
<1> DEFINE c == First(todo)
           r == Rest(todo)
<1>1. At("over")
  BY DEF over
<1>2. /\ Kinds /\ c.call = "over" /\ IsStack(todo) /\ todo # <<>> /\ Bel(c, r)
      /\ TopAt(c, First(r), server, ctl_connection_busy, direct, okay, answer, isbinary, cwdir)
      /\ Ends(todo, src, dst, got, put, direct, okay, super) /\ Bottom(todo) = IF r = <<>> THEN c ELSE Bottom(r)
  BY <1>1, AtTop
<1> HIDE DEF c, r
<1>3. r = <<>>
  BY <1>2 DEF Bel, Below
<1>4. todo' = <<>>
  BY <1>2, <1>3, Thens DEF over, r
<1>5. UNCHANGED <<super, isbinary, ctl_connection_busy, cwdir, server, data, stored, answer,
                  harm, okay, superVars, want_stale, listing, lines>>
  BY DEF over, Quietly, superVars
<1>6. src # "open" /\ ~ direct
  BY <1>2, <1>3 DEF Ends, c
<1>7. ~ ctl_connection_busy
  BY <1>2, <1>6 DEF Kinds, CopyOK
<1>8. server.up => Quiet(server) /\ KnownDir(server, cwdir) /\ KnownType(server, isbinary)
  <2>1. server.up => Rests(server, ctl_connection_busy, direct) /\ KnownDir(server, cwdir) /\ KnownType(server, isbinary)
    BY <1>2, TopKnown DEF Special, Calm
  <2> QED BY <1>6, <1>7, <2>1 DEF Rests
<1>9. server.xfer = None
  BY <1>2, <1>8, NoTransfer DEF Kinds, ServerOK
<1>10. /\ src' = None /\ dst' = None /\ got' = 0 /\ put' = 0 /\ wanted' = 0 /\ told' = None /\ saved' = {}
       /\ Blocks \in Nat /\ None # "open"
  BY FtpfsAssumption DEF over
<1>11. exact' = TRUE /\ ended' = FALSE
  BY DEF over
<1>12. ServerOK' /\ DataOK'
  BY <1>2, <1>5 DEF Kinds, ServerOK, DataOK
<1>13. FlowOK'
  BY <1>5, <1>9, <1>10, FtpfsAssumption DEF FlowOK
<1>14. CopyOK'
  BY <1>2, <1>5, <1>7, <1>10 DEF Kinds, CopyOK
<1>15. SuperOK'
  BY <1>2, <1>5, <1>10, <1>11 DEF Kinds, SuperOK, superVars
<1>16. ~ direct'
  BY <1>10, FtpfsAssumption DEF direct
<1>17. Nobody(src', dst', got', put')
  BY <1>10 DEF Nobody
<1> QED BY <1>4, <1>5, <1>8, <1>12, <1>13, <1>14, <1>15, <1>16, <1>17, GoIdle DEF Kinds

-----------------------------------------------------------------------------
(* Commands and replies *)

\* The server differs only in what it has still to do and to say.
Alike(s, t) ==
  /\ DOMAIN t = Fields /\ t.up = s.up /\ t.logged = s.logged /\ t.cwd = s.cwd /\ t.binary = s.binary
  /\ t.ready = s.ready /\ t.xfer = s.xfer /\ t.task = s.task /\ t.n = s.n

\* Only what the server has to do and to say changes.
LEMMA KindsAlike ==
  ASSUME Kinds, Alike(server, server'), ~ server'.up => server'.cmds = <<>>,
         UNCHANGED <<super, ctl_connection_busy, copyVars, data, stored>>, Options'
  PROVE  Kinds' /\ UNCHANGED <<poured, direct>>
<1>1. ServerOK'
  BY DEF Kinds, ServerOK, Alike
<1>2. CopyOK' /\ DataOK' /\ FlowOK'
  BY DEF Kinds, CopyOK, DataOK, FlowOK, Alike, copyVars, Options
<1>3. exact' \in BOOLEAN /\ ended' \in BOOLEAN /\ ctl_connection_busy' \in BOOLEAN
  BY DEF Kinds, SuperOK, copyVars
<1>4. super' \in {None, "up", "stale"} /\ (super' # "up" => ~ server'.up)
  BY DEF Kinds, SuperOK, Alike
<1>5. SuperOK'
  BY <1>3, <1>4 DEF SuperOK, Options
<1>6. poured' = poured
  BY DEF poured, Alike
<1>7. direct' = direct
  BY DEF direct, copyVars
<1> QED BY <1>1, <1>2, <1>5, <1>6, <1>7 DEF Kinds

\* The calls that wait for the reply to a command.
Waiting == {"passive", "port", "typed", "started", "cwd_done", "flush", "commanded", "aborting"}

\* What is known when a command is to be sent.
LEMMA AtCommand ==
  ASSUME FtpInv, At("command")
  PROVE  LET d == First(Rest(todo)) IN
         /\ Rest(todo) # <<>> /\ Waiter(Arg, d) /\ CallOK(d) /\ d.call \in Waiting
         /\ (d.call = "aborting" <=> Arg.name = "ABOR") /\ ~ direct /\ super # None
         /\ (d.call \in Connects => d.arg \in Requests /\ d.arg.owner \in Owner)
         /\ "command" \notin Steady /\ "command" \notin Copied \cup {"over"}
<1> DEFINE c == First(todo)
           r == Rest(todo)
           d == First(r)
<1>1. /\ c.call = "command" /\ c.arg = Arg /\ Bel(c, r) /\ todo # <<>>
      /\ Ends(todo, src, dst, got, put, direct, okay, super)
  BY AtTop
<1>2. r # <<>>
  BY <1>1 DEF Bel, MayEnd, Looks, Copied
<1>3. Below(c, d) /\ CallOK(d)
  BY <1>2, Second
<1>4. ~ direct /\ super # None
  BY <1>1 DEF Ends, IsStop
<1> HIDE DEF c, r, d
<1>5. Waiter(Arg, d)
  BY <1>1, <1>3 DEF Below
<1>6. d.call \in Waiting
  BY <1>5 DEF Waiter, Waiting
<1>7. d.call \in Connects => d.arg \in Requests /\ d.arg.owner \in Owner
  BY <1>3, Requested DEF CallOK
<1>8. d.call = "started" => d.arg.cmd \in {"LIST", "RETR", "STOR"}
  BY <1>7, Requested DEF Connects, CmdOf
<1>9. d.call = "aborting" <=> Arg.name = "ABOR"
  BY <1>5, <1>8 DEF Waiter, Command
<1>10. "command" \notin Steady /\ "command" \notin Copied \cup {"over"}
  BY DEF Steady, Copied
<1> QED BY <1>2, <1>3, <1>4, <1>5, <1>6, <1>7, <1>9, <1>10 DEF d, r

\* What the server is after a command has been sent to it.
Told(s, was) ==
  /\ s.cmds = Single(Arg) /\ s.ready \in {None, was.ready}
  /\ IF Arg.name = "ABOR" THEN (s.xfer = None /\ s.replies = <<>>) \/ Running(s, "RETR")
                          ELSE s.xfer = None /\ s.replies = <<>>

\* The Commander's ends of the connections, and what is in them, are the same.
FlowSame == \A o \in Owner : data'[o].client = data[o].client /\ data'[o].flow = data[o].flow

\* A command was sent.
LEMMA GoSent ==
  ASSUME FtpInv, At("command"), Sent, Kinds', FlowSame,
         UNCHANGED <<src, dst, got, put, poured, direct, super, okay, ctl_connection_busy>>,
         server'.up => /\ Told(server', server) /\ KnownDir(server', cwdir') /\ KnownType(server', isbinary')
                       /\ (server'.ready = None \/ server.up)
  PROVE  FtpInv'
<1> DEFINE c == First(todo)
           r == Rest(todo)
           d == First(r)
<1>1. /\ c.call = "command" /\ c.arg = Arg /\ IsStack(todo) /\ todo # <<>>
      /\ TopAt(c, d, server, ctl_connection_busy, direct, okay, answer, isbinary, cwdir)
      /\ FlowKnown(c, d, server, data, okay)
  BY AtTop
<1>2. /\ r # <<>> /\ Waiter(Arg, d) /\ CallOK(d) /\ d.call \in Waiting
      /\ (d.call = "aborting" <=> Arg.name = "ABOR") /\ ~ direct
      /\ (d.call \in Connects => d.arg \in Requests /\ d.arg.owner \in Owner)
      /\ "command" \notin Steady /\ "command" \notin Copied \cup {"over"}
  BY AtCommand
<1> HIDE DEF c, r, d
<1>3. CASE Arg.name = "ABOR"
  <2>1. todo' = r
    BY <1>1, <1>3, Thens DEF Sent, r
  <2>2. Standing(todo, src, dst, got, put, poured)' /\ Ends(todo, src, dst, got, put, direct, okay, super)'
    BY <1>2, <2>1, Go0 DEF r
  <2>3. d.call = "aborting" /\ Arg = Command("ABOR", None)
    BY <1>2, <1>3 DEF Waiter
  <2>4. server'.up => Aborts(server')
    BY <1>3, <2>3 DEF Told, Aborts
  <2>5. answer'.class = "COMPLETE"
    BY <1>3 DEF Sent
  <2>6. TopAt(d, First(Rest(r)), server', ctl_connection_busy', direct', okay', answer', isbinary', cwdir')
    BY <2>3, <2>4, <2>5 DEF TopAt, Expected, TypeKnown, DirKnown, ReadyKnown, Special, Calm
  <2>7. FlowKnown(d, First(Rest(r)), server', data', okay')
    BY <2>3, FlowPlain
  <2> QED BY <2>1, <2>2, <2>6, <2>7, Shown DEF d
<1>4. CASE Arg.name # "ABOR"
  <2> DEFINE x == Do("get_reply")
  <2>1. x.call = "get_reply"
    BY DEF Do, Call
  <2>2. Then(<<x>>) /\ answer' = answer
    BY <1>4 DEF Sent
  <2> HIDE DEF x
  <2>3. todo' = On(x, r)
    BY <1>1, <2>2, Thens DEF r
  <2>4. CallOK(x) /\ Level(x) = 20
    BY <2>1, Levels DEF CallOK, Connects, Looks, Copied, Switches
  <2>5. Bel(x, r)
    <3>1. d.call \in Readers
      BY <1>2, <1>4 DEF Readers, Waiting
    <3>2. Below(x, d)
      BY <3>1, <2>1 DEF Below, Connects, Looks, Copied, Aborted, Switches, IsOr, IsStop, IsOn, IsOff
    <3> QED BY <1>2, <3>2 DEF Bel, d
  <2>6. Fits(x, src, dst, got, put, poured, Bottom(todo))
    BY <2>1 DEF Fits, Connects, Copied, Early, Aborted, Switches, IsStop, IsOn, IsOr
  <2>7. /\ Standing(todo, src, dst, got, put, poured)' /\ Ends(todo, src, dst, got, put, direct, okay, super)'
        /\ First(todo') = x /\ Rest(todo') = r
    BY <1>2, <2>3, <2>4, <2>5, <2>6, Go1 DEF r
  <2>8. server'.up => Reading(d, server') /\ ~ Agreed(server')
    <3>1. server'.up => Waits(server', Arg.name, Arg.arg)
      BY <1>2, <1>4 DEF Told, Waits, Waiter, Command
    <3>2. server'.up => Reading(d, server')
      BY <1>2, <1>4, <3>1 DEF Reading, Waiter, Command, Asked, AskedTransfer, Waiting
    <3> QED BY <1>4, <3>2 DEF Told, Agreed
  <2>9. d.call \in {"typed", "started"} => (server.up => server.ready \in {None, d.arg.owner})
    BY <1>1 DEF TopAt, ReadyKnown
  <2>10. d.call \in {"typed", "started"} => (server'.up => server'.ready \in {None, d.arg.owner})
    BY <2>9 DEF Told
  <2>11. TopAt(x, d, server', ctl_connection_busy', direct', okay', answer', isbinary', cwdir')
    <3>1. server'.up => Expected(x, d, server', ctl_connection_busy', direct', okay', answer')
      BY <2>1, <2>8 DEF Expected, Special, Calm
    <3>2. server'.up => TypeKnown(x, d, server', isbinary', answer')
      BY <2>1, <2>8 DEF TypeKnown
    <3>3. server'.up => DirKnown(x, d, server', cwdir', answer')
      BY <2>1, <2>8 DEF DirKnown
    <3>4. server'.up => ReadyKnown(x, d, server', answer')
      BY <2>1, <2>8, <2>10 DEF ReadyKnown
    <3> QED BY <3>1, <3>2, <3>3, <3>4 DEF TopAt
  <2>12. FlowKnown(x, d, server', data', okay')
    <3>1. CASE d.call \notin {"typed", "started"}
      BY <3>1, <2>1, FlowPlain
    <3>2. CASE d.call \in {"typed", "started"}
      <4>1. d.arg.owner \in Owner
        BY <1>2, <3>2 DEF Connects
      <4>2. data[d.arg.owner].client /\ data[d.arg.owner].flow = 0
        BY <1>1, <3>2 DEF FlowKnown
      <4>3. data'[d.arg.owner].client /\ data'[d.arg.owner].flow = 0
        BY <4>1, <4>2 DEF FlowSame
      <4>4. d.arg.owner = "src" => data'["src"].flow <= Blocks
        BY <4>3, FtpfsAssumption
      <4> QED BY <2>1, <3>2, <4>3, <4>4 DEF FlowKnown
    <3> QED BY <3>1, <3>2
  <2> QED BY <2>7, <2>11, <2>12, Shown DEF d
<1> QED BY <1>3, <1>4

\* The command could not be sent.
LEMMA GoNotSent ==
  ASSUME FtpInv, At("command"), NotSent, Kinds', FlowSame,
         UNCHANGED <<src, dst, got, put, poured, direct, super, okay, ctl_connection_busy>>,
         server'.up => /\ Quiet(server') /\ server'.ready = None
                       /\ KnownDir(server', cwdir') /\ KnownType(server', isbinary')
  PROVE  FtpInv'
<1> DEFINE c == First(todo)
           r == Rest(todo)
           d == First(r)
<1>1. /\ c.call = "command" /\ IsStack(todo) /\ todo # <<>> /\ FlowKnown(c, d, server, data, okay)
  BY AtTop
<1>2. /\ r # <<>> /\ d.call \in Waiting
      /\ (d.call \in Connects => d.arg \in Requests /\ d.arg.owner \in Owner)
      /\ "command" \notin Steady /\ "command" \notin Copied \cup {"over"}
  BY AtCommand
<1>3. todo' = r /\ answer'.class = "FAILED"
  BY <1>1, Thens DEF NotSent, Failed
<1> HIDE DEF c, r, d
<1>4. Standing(todo, src, dst, got, put, poured)' /\ Ends(todo, src, dst, got, put, direct, okay, super)'
  BY <1>2, <1>3, Go0 DEF r
<1>5. TopAt(d, First(Rest(r)), server', ctl_connection_busy', direct', okay', answer', isbinary', cwdir')
  <2>1. server'.up => Expected(d, First(Rest(r)), server', ctl_connection_busy', direct', okay', answer')
    BY <1>2, <1>3 DEF Expected, Special, Calm, Waiting
  <2>2. server'.up => TypeKnown(d, First(Rest(r)), server', isbinary', answer')
    BY <1>2, <1>3 DEF TypeKnown, Waiting
  <2>3. server'.up => DirKnown(d, First(Rest(r)), server', cwdir', answer')
    BY <1>2, <1>3 DEF DirKnown, Waiting
  <2>4. server'.up => ReadyKnown(d, First(Rest(r)), server', answer')
    BY <1>2, <1>3 DEF ReadyKnown, Waiting
  <2> QED BY <2>1, <2>2, <2>3, <2>4 DEF TopAt
<1>6. FlowKnown(d, First(Rest(r)), server', data', okay')
  <2>1. CASE d.call \notin {"typed", "started"}
    BY <2>1, <1>2, FlowPlain DEF Waiting
  <2>2. CASE d.call \in {"typed", "started"}
    <3>1. d.arg.owner \in Owner
      BY <1>2, <2>2 DEF Connects
    <3>2. data[d.arg.owner].client /\ data[d.arg.owner].flow = 0
      BY <1>1, <2>2 DEF FlowKnown
    <3>3. data'[d.arg.owner].client /\ data'[d.arg.owner].flow = 0
      BY <3>1, <3>2 DEF FlowSame
    <3>4. d.arg.owner = "src" => data'["src"].flow <= Blocks
      BY <3>3, FtpfsAssumption
    <3> QED BY <2>2, <3>3, <3>4 DEF FlowKnown
  <2> QED BY <2>1, <2>2
<1> QED BY <1>3, <1>4, <1>5, <1>6, Shown DEF d

\* What is known of a server that has got the command.
LEMMA ReceivedIs ==
  ASSUME NEW s, DOMAIN s = Fields
  PROVE  /\ DOMAIN Received(s) = Fields /\ Alike(s, Received(s)) /\ Received(s).replies = s.replies
         /\ (s.cmds = <<>> => Received(s).cmds = Single(Arg))
<1>1. /\ DOMAIN Received(s) = Fields /\ Received(s).up = s.up /\ Received(s).logged = s.logged
      /\ Received(s).cwd = s.cwd /\ Received(s).binary = s.binary /\ Received(s).ready = s.ready
      /\ Received(s).xfer = s.xfer /\ Received(s).task = s.task /\ Received(s).n = s.n
      /\ Received(s).replies = s.replies
  BY DEF Received, Fields
<1>2. Received(s).cmds = Append(s.cmds, Arg)
  BY DEF Received, Fields
<1>3. Append(<<>>, Arg) = Single(Arg)
  BY DEF Single
<1>4. s.cmds = <<>> => Received(s).cmds = Single(Arg)
  BY <1>2, <1>3
<1> QED BY <1>1, <1>4 DEF Alike

\* What is known of the session stays known.
LEMMA AlikeKnown ==
  ASSUME NEW s, NEW t, Alike(s, t), NEW cw, NEW isb
  PROVE  /\ KnownDir(s, cw) <=> KnownDir(t, cw)
         /\ KnownType(s, isb) <=> KnownType(t, isb)
BY DEF Alike, KnownDir, KnownType

\* The command is sent to the session that there is.
LEMMA CommandGoes ==
  ASSUME FtpInv, At("command"), super = "up", server.up, server' = Received(server),
         harm' = (IF Overlaps THEN "astray" ELSE harm), Sent, UNCHANGED <<isbinary, cwdir, data, okay, super,
           use_passive_connection, strict, ctl_connection_busy, cacheVars, copyVars, stored>>
  PROVE  FtpInv'
<1> DEFINE d == First(Rest(todo))
<1>1. /\ Kinds /\ harm = None /\ First(todo).call = "command" /\ First(todo).arg = Arg
      /\ TopAt(First(todo), d, server, ctl_connection_busy, direct, okay, answer, isbinary, cwdir)
  BY AtTop
<1>2. ~ direct
  BY AtCommand
<1> HIDE DEF d
<1>3. DOMAIN server = Fields
  BY <1>1 DEF Kinds, ServerOK
<1>4. /\ Alike(server, server') /\ server'.replies = server.replies
      /\ (server.cmds = <<>> => server'.cmds = Single(Arg))
  BY <1>3, ReceivedIs
<1>5. server'.up
  BY <1>4 DEF Alike
<1>6. harm' \in {None, "astray", "crashed"}
  BY <1>1
<1>7. Kinds' /\ UNCHANGED <<poured, direct>>
  <2>1. Options'
    BY <1>1, <1>6, KindsOptions DEF Options, cacheVars
  <2> QED BY <1>1, <1>4, <1>5, <2>1, KindsAlike
<1>8. CASE Overlaps
  <2>1. harm' # None
    BY <1>8, FtpfsAssumption
  <2> QED BY <1>7, <2>1, Stopped
<1>9. CASE ~ Overlaps
  <2>1. IF Arg.name = "ABOR" THEN Owes(server, "RETR") ELSE Rests(server, ctl_connection_busy, direct)
    BY <1>1 DEF TopAt, Expected
  <2>2. Arg.name # "ABOR" => ~ ctl_connection_busy
    BY <1>9 DEF Overlaps
  <2>3. Arg.name # "ABOR" => Quiet(server)
    BY <1>2, <2>1, <2>2 DEF Rests
  <2>4. Arg.name = "ABOR" => server.cmds = <<>> /\ (Quiet(server) \/ Running(server, "RETR"))
    BY <2>1 DEF Owes
  <2>5. server.cmds = <<>>
    BY <2>3, <2>4 DEF Quiet
  <2>6. Told(server', server)
    <3>1. server'.cmds = Single(Arg) /\ server'.ready = server.ready
      BY <1>4, <2>5 DEF Alike
    <3>2. server'.xfer = server.xfer /\ server'.task = server.task
      BY <1>4 DEF Alike
    <3>3. CASE Arg.name = "ABOR"
      <4>1. CASE Quiet(server)
        BY <1>4, <3>1, <3>2, <3>3, <4>1 DEF Told, Quiet
      <4>2. CASE Running(server, "RETR")
        <5>1. Running(server', "RETR")
          BY <1>4, <3>2, <4>2 DEF Running
        <5> QED BY <3>1, <3>3, <5>1 DEF Told
      <4> QED BY <2>4, <3>3, <4>1, <4>2
    <3>4. CASE Arg.name # "ABOR"
      BY <1>4, <2>3, <3>1, <3>2, <3>4 DEF Told, Quiet
    <3> QED BY <3>3, <3>4
  <2>7. KnownDir(server, cwdir) /\ KnownType(server, isbinary)
    BY <1>1, TopKnown
  <2>8. KnownDir(server', cwdir') /\ KnownType(server', isbinary')
    BY <1>4, <2>7, AlikeKnown
  <2>9. FlowSame
    BY DEF FlowSame
  <2>10. UNCHANGED <<src, dst, got, put>>
    BY DEF copyVars
  <2> QED BY <1>7, <2>6, <2>8, <2>9, <2>10, GoSent
<1> QED BY <1>8, <1>9

\* ... or to one that is gone, or cannot be sent and no session is to be had.
LEMMA CommandLost ==
  ASSUME FtpInv, At("command"), ~ server.up, Sent \/ NotSent,
         server' = server \/ server' = [server EXCEPT !.reset = TRUE],
         UNCHANGED <<isbinary, cwdir, data, okay, super, harm,
           use_passive_connection, strict, ctl_connection_busy, cacheVars, copyVars, stored>>
  PROVE  FtpInv'
<1>1. Kinds
  BY AtTop
<1>2. Alike(server, server') /\ ~ server'.up /\ server'.cmds = <<>>
  <2>1. DOMAIN server = Fields /\ server.cmds = <<>>
    BY <1>1 DEF Kinds, ServerOK
  <2>2. CASE server' = server
    BY <2>1, <2>2 DEF Alike
  <2>3. CASE server' = [server EXCEPT !.reset = TRUE]
    BY <2>1, <2>3 DEF Alike, Fields
  <2> QED BY <2>2, <2>3
<1>3. Kinds' /\ UNCHANGED <<poured, direct>>
  <2>1. Options'
    BY <1>1, KindsOptions DEF Options, cacheVars
  <2> QED BY <1>1, <1>2, <2>1, KindsAlike
<1>4. FlowSame /\ UNCHANGED <<src, dst, got, put>>
  BY DEF FlowSame, copyVars
<1>5. CASE Sent
  BY <1>2, <1>3, <1>4, <1>5, GoSent
<1>6. CASE NotSent
  BY <1>2, <1>3, <1>4, <1>6, GoNotSent
<1> QED BY <1>5, <1>6

\* ... or after there is another session.
LEMMA CommandAnew ==
  ASSUME FtpInv, At("command"), super = "up", ~ server.up, NEW rc \in Reconnections, ftpfs_reconnect(rc), rc.new,
         server' = IF rc.done THEN Received(rc.server) ELSE rc.server,
         IF rc.done THEN Sent ELSE NotSent,
         UNCHANGED <<okay, super, harm, use_passive_connection, strict, ctl_connection_busy, cacheVars, copyVars, stored>>
  PROVE  FtpInv'
<1>1. Kinds /\ server.xfer = None
  <2>1. Kinds
    BY AtTop
  <2> QED BY <2>1 DEF Kinds, ServerOK
<1>2. rc.done \in BOOLEAN /\ Anew(rc.server, rc.cwdir) /\ rc.server.cmds = <<>>
  BY <1>1, Reconnected
<1>3. data' = HangUp(data) /\ cwdir' = rc.cwdir /\ isbinary' = None
  BY DEF ftpfs_reconnect
<1>4. /\ Anew(server', rc.cwdir) /\ server'.ready = None
      /\ (~ rc.done => Quiet(server'))
      /\ (rc.done => server'.cmds = Single(Arg))
  <2>1. CASE rc.done
    <3>1. Alike(rc.server, server') /\ server'.replies = rc.server.replies /\ server'.cmds = Single(Arg)
      BY <1>2, <2>1, ReceivedIs DEF Anew
    <3>2. KnownDir(server', rc.cwdir)
      BY <1>2, <3>1, AlikeKnown DEF Anew
    <3>3. /\ DOMAIN server' = Fields /\ server'.up = rc.server.up /\ server'.cwd = rc.server.cwd
          /\ server'.ready = rc.server.ready /\ server'.xfer = rc.server.xfer /\ server'.n = rc.server.n
      BY <3>1 DEF Alike
    <3>4. server'.logged \in BOOLEAN /\ server'.binary \in BOOLEAN
      BY <1>2, <3>1 DEF Alike, Anew
    <3> QED BY <1>2, <2>1, <3>1, <3>2, <3>3, <3>4 DEF Anew
  <2>2. CASE ~ rc.done
    BY <1>2, <2>2 DEF Anew, Quiet
  <2> QED BY <2>1, <2>2
<1>5. harm' \in {None, "astray", "crashed"}
  BY <1>1 DEF Kinds, CopyOK
<1>6. /\ Kinds' /\ UNCHANGED direct /\ poured' = 0 /\ KnownType(server', isbinary') /\ FlowSame
  BY <1>1, <1>3, <1>4, <1>5, KindsAnew DEF FlowSame
<1>7. poured = 0
  BY <1>1, FtpfsAssumption DEF poured
<1>8. UNCHANGED <<src, dst, got, put>> /\ UNCHANGED poured
  BY <1>6, <1>7 DEF copyVars
<1>9. KnownDir(server', cwdir')
  BY <1>3, <1>4 DEF Anew
<1>10. CASE rc.done
  <2>1. Told(server', server)
    BY <1>4, <1>10 DEF Told, Anew
  <2> QED BY <1>4, <1>6, <1>8, <1>9, <1>10, <2>1, GoSent
<1>11. CASE ~ rc.done
  BY <1>4, <1>6, <1>8, <1>9, <1>11, GoNotSent
<1> QED BY <1>2, <1>10, <1>11

\* A command is sent, with or without a new session.
LEMMA Command1 == FtpInv /\ ftpfs_command => FtpInv'
<1> SUFFICES ASSUME FtpInv, ftpfs_command PROVE FtpInv'
  OBVIOUS
<1>1. At("command")
  BY DEF ftpfs_command
<1>2. Kinds
  BY <1>1, AtTop
<1>3. UNCHANGED <<okay, super, use_passive_connection, strict, ctl_connection_busy, cacheVars, copyVars, stored>>
  BY DEF ftpfs_command
<1>4. CASE /\ super = "up" /\ server.up /\ server' = Received(server)
           /\ harm' = IF Overlaps THEN "astray" ELSE harm
           /\ Sent /\ UNCHANGED <<isbinary, cwdir, data, faults>>
  BY <1>1, <1>3, <1>4, CommandGoes
<1>5. CASE /\ super = "up" /\ ~server.up /\ ~server.reset /\ server' = [server EXCEPT !.reset = TRUE]
           /\ Sent /\ UNCHANGED <<isbinary, cwdir, data, faults, harm>>
  BY <1>1, <1>3, <1>5, CommandLost
<1>6. CASE /\ super = "up" /\ ~server.up
           /\ \E r \in Reconnections :
                /\ ftpfs_reconnect(r)
                /\ server' = IF r.done THEN Received(r.server) ELSE r.server
                /\ IF r.done THEN Sent ELSE NotSent
           /\ UNCHANGED harm
  <2>1. PICK rc \in Reconnections :
                /\ ftpfs_reconnect(rc)
                /\ server' = IF rc.done THEN Received(rc.server) ELSE rc.server
                /\ IF rc.done THEN Sent ELSE NotSent
    BY <1>6
  <2>2. /\ rc.done \in BOOLEAN /\ rc.new \in BOOLEAN /\ (rc.done => rc.new)
        /\ (~ rc.new => rc.server = server /\ rc.cwdir = cwdir)
    BY <1>2, Reconnected
  <2>3. CASE rc.new
    BY <1>1, <1>3, <1>6, <2>1, <2>3, CommandAnew
  <2>4. CASE ~ rc.new
    <3>1. server' = server /\ NotSent /\ UNCHANGED <<isbinary, cwdir, data>>
      BY <2>1, <2>2, <2>4 DEF ftpfs_reconnect
    <3> QED BY <1>1, <1>3, <1>6, <3>1, CommandLost
  <2> QED BY <2>2, <2>3, <2>4
<1>7. CASE /\ super = "stale" /\ NotSent /\ UNCHANGED <<isbinary, cwdir, server, data, faults, harm>>
  <2>1. ~ server.up
    BY <1>2, <1>7 DEF Kinds, SuperOK
  <2> QED BY <1>1, <1>3, <1>7, <2>1, CommandLost
<1> QED BY <1>4, <1>5, <1>6, <1>7 DEF ftpfs_command

\* One thing, and two, on the control connection.
LEMMA SingleIs ==
  ASSUME NEW x, NEW y
  PROVE  /\ Head(Single(x)) = x /\ Tail(Single(x)) = <<>> /\ Single(x) # <<>> /\ Append(<<>>, x) = Single(x)
         /\ Head(Pair(x, y)) = x /\ Tail(Pair(x, y)) = Single(y) /\ Pair(x, y) # <<>>
         /\ Append(Single(x), y) = Pair(x, y)
<1>1. <<>> \in Seq({x, y}) /\ <<x>> \in Seq({x, y}) /\ <<x, y>> \in Seq({x, y})
  OBVIOUS
<1>2. Head(Single(x)) = x /\ Tail(Single(x)) = <<>> /\ Single(x) # <<>>
  BY DEF Single
<1>3. Head(Pair(x, y)) = x /\ Pair(x, y) # <<>>
  BY DEF Pair
<1>4. Tail(Pair(x, y)) = Single(y)
  BY DEF Pair, Single
<1>5. Append(<<>>, x) = Single(x)
  BY DEF Single
<1>6. Append(<<x>>, y) = <<x, y>>
  <2> DEFINE u == Append(<<x>>, y)
             v == <<x, y>>
  <2>1. u \in Seq({x, y}) /\ Len(u) = 2 /\ u[1] = x /\ u[2] = y
    BY <1>1, AppendProperties
  <2>2. v \in Seq({x, y}) /\ Len(v) = 2 /\ v[1] = x /\ v[2] = y
    BY <1>1
  <2> HIDE DEF u, v
  <2>3. \A i \in 1..Len(u) : u[i] = v[i]
    <3>1. \A i \in 1..2 : i = 1 \/ i = 2
      OBVIOUS
    <3> QED BY <2>1, <2>2, <3>1
  <2>4. u = v
    BY <2>1, <2>2, <2>3, SeqEqual
  <2> QED BY <2>4 DEF u, v
<1> QED BY <1>2, <1>3, <1>4, <1>5, <1>6 DEF Single, Pair

\* What a reply is to, and its class.
LEMMA ReplyIs ==
  ASSUME NEW name, NEW class
  PROVE  ReplyTo(name, class).to = name /\ ReplyTo(name, class).class = class
BY DEF ReplyTo

\* A reply is read.
Reads(s, t) == Alike(s, t) /\ t.cmds = s.cmds /\ s.replies # <<>> /\ t.replies = Tail(s.replies)

\* A reply is taken from those that wait.
LEMMA ReadsIs ==
  ASSUME NEW s, DOMAIN s = Fields, s.replies # <<>>
  PROVE  Reads(s, [s EXCEPT !.replies = Tail(@)])
BY DEF Reads, Alike, Fields

\* The one that was expected has come, or the one that ends the transfer.
LEMMA ReadsAsked ==
  ASSUME NEW s, NEW t, Reads(s, t)
  PROVE  /\ \A name, arg : Asked(s, name, arg) =>
              Quiet(t) /\ Head(s.replies).to = name /\ Head(s.replies).class \in {"COMPLETE", "FAILED"}
         /\ \A cmd : Owes(s, cmd) => Quiet(t)
         /\ \A name, arg : AskedTransfer(s, name, arg) =>
              IF Head(s.replies).class = "PRELIM" THEN Owes(t, name) ELSE Quiet(t)
<1>1. /\ t.cmds = s.cmds /\ s.replies # <<>> /\ t.replies = Tail(s.replies) /\ t.xfer = s.xfer /\ t.task = s.task
  BY DEF Reads, Alike
<1>2. ASSUME NEW name, NEW arg, Asked(s, name, arg)
      PROVE  Quiet(t) /\ Head(s.replies).to = name /\ Head(s.replies).class \in {"COMPLETE", "FAILED"}
  <2>1. Silent(s) /\ \E k \in {"COMPLETE", "FAILED"} : s.replies = Single(ReplyTo(name, k))
    BY <1>1, <1>2 DEF Asked, Waits, Answered
  <2>2. PICK k \in {"COMPLETE", "FAILED"} : s.replies = Single(ReplyTo(name, k))
    BY <2>1
  <2>3. t.replies = <<>> /\ Head(s.replies) = ReplyTo(name, k)
    BY <1>1, <2>2, SingleIs
  <2>4. ReplyTo(name, k).to = name /\ ReplyTo(name, k).class = k
    BY ReplyIs
  <2> QED BY <1>1, <2>1, <2>3, <2>4 DEF Quiet, Silent
<1>3. ASSUME NEW cmd, Owes(s, cmd) PROVE Quiet(t)
  <2>1. s.cmds = <<>> /\ s.xfer = None /\ \E k \in Finals : s.replies = Single(ReplyTo(cmd, k))
    BY <1>1, <1>3 DEF Owes, Quiet, Running
  <2>2. t.replies = <<>>
    BY <1>1, <2>1, SingleIs
  <2> QED BY <1>1, <2>1, <2>2 DEF Quiet
<1>4. ASSUME NEW name, NEW arg, AskedTransfer(s, name, arg)
      PROVE  IF Head(s.replies).class = "PRELIM" THEN Owes(t, name) ELSE Quiet(t)
  <2>1. CASE Silent(s) /\ s.replies = Single(ReplyTo(name, "FAILED"))
    <3> DEFINE x == ReplyTo(name, "FAILED")
    <3>1. x.class = "FAILED"
      BY ReplyIs
    <3> HIDE DEF x
    <3>2. s.replies = Single(x)
      BY <2>1 DEF x
    <3>3. t.replies = <<>> /\ Head(s.replies).class = "FAILED"
      BY <1>1, <3>1, <3>2, SingleIs
    <3> QED BY <1>1, <2>1, <3>3 DEF Quiet, Silent
  <2>2. CASE s.cmds = <<>> /\ s.xfer # None /\ s.task = name /\ s.replies = Single(ReplyTo(name, "PRELIM"))
    <3> DEFINE x == ReplyTo(name, "PRELIM")
    <3>1. x.class = "PRELIM"
      BY ReplyIs
    <3> HIDE DEF x
    <3>2. s.replies = Single(x)
      BY <2>2 DEF x
    <3>3. t.replies = <<>> /\ Head(s.replies).class = "PRELIM"
      BY <1>1, <3>1, <3>2, SingleIs
    <3> QED BY <1>1, <2>2, <3>3 DEF Owes, Running
  <2>3. CASE Silent(s) /\ \E k \in Finals : s.replies = Pair(ReplyTo(name, "PRELIM"), ReplyTo(name, k))
    <3>1. PICK k \in Finals : s.replies = Pair(ReplyTo(name, "PRELIM"), ReplyTo(name, k))
      BY <2>3
    <3>2. t.replies = Single(ReplyTo(name, k)) /\ Head(s.replies).class = "PRELIM"
      BY <1>1, <3>1, SingleIs, ReplyIs
    <3> QED BY <1>1, <2>3, <3>2 DEF Owes, Running, Silent
  <2> QED BY <1>1, <1>4, <2>1, <2>2, <2>3 DEF AskedTransfer, Waits
<1> QED BY <1>2, <1>3, <1>4

\* The first reply after ABOR says what the transfer has come to, or answers ABOR.
LEMMA ReadsAborts ==
  ASSUME NEW s, NEW t, Reads(s, t), Aborts(s)
  PROVE  LET ans == Head(s.replies) IN
         \/ ans.to = "RETR" /\ ans.class \in Finals /\ Asked(t, "ABOR", None)
         \/ ans.to = "ABOR" /\ ans.class \in {"COMPLETE", "FAILED"} /\ Quiet(t)
<1>1. /\ t.cmds = s.cmds /\ s.replies # <<>> /\ t.replies = Tail(s.replies) /\ t.xfer = s.xfer
  BY DEF Reads, Alike
<1>2. CASE s.cmds = Single(Command("ABOR", None)) /\ ((s.xfer = None /\ s.replies = <<>>) \/ Running(s, "RETR"))
  <2>1. s.xfer = None /\ \E k \in Finals : s.replies = Single(ReplyTo("RETR", k))
    BY <1>1, <1>2 DEF Running
  <2>2. PICK k \in Finals : s.replies = Single(ReplyTo("RETR", k))
    BY <2>1
  <2> DEFINE x == ReplyTo("RETR", k)
  <2>3. x.class = k /\ x.to = "RETR"
    BY ReplyIs
  <2> HIDE DEF x
  <2>4. s.replies = Single(x)
    BY <2>2 DEF x
  <2>5. t.replies = <<>> /\ Head(s.replies).to = "RETR" /\ Head(s.replies).class = k
    BY <1>1, <2>3, <2>4, SingleIs
  <2> QED BY <1>1, <1>2, <2>1, <2>5 DEF Asked, Waits
<1>3. CASE Answered(s, "ABOR")
  BY <1>3, ReadsAsked DEF Asked
<1>4. CASE Silent(s) /\ \E k \in Finals, m \in {"COMPLETE", "FAILED"} :
                          s.replies = Pair(ReplyTo("RETR", k), ReplyTo("ABOR", m))
  <2>1. PICK k \in Finals, m \in {"COMPLETE", "FAILED"} : s.replies = Pair(ReplyTo("RETR", k), ReplyTo("ABOR", m))
    BY <1>4
  <2>2. t.replies = Single(ReplyTo("ABOR", m)) /\ Head(s.replies).to = "RETR" /\ Head(s.replies).class = k
    BY <1>1, <2>1, SingleIs, ReplyIs
  <2>3. Answered(t, "ABOR")
    BY <1>1, <1>4, <2>2 DEF Answered, Silent
  <2> QED BY <2>2, <2>3 DEF Asked
<1> QED BY <1>2, <1>3, <1>4 DEF Aborts

\* What is known when a reply has been read.
LEMMA ReadTop ==
  ASSUME NEW c, NEW d, NEW e, NEW s, NEW t, NEW busy, NEW dir, NEW ok, NEW ans, NEW isb, NEW cw,
         c.call = "get_reply", d.call \in Readers, Reads(s, t), TopAt(c, d, s, busy, dir, ok, ans, isb, cw)
  PROVE  TopAt(d, e, t, busy, dir, ok, Head(s.replies), isb, cw)
<1> DEFINE an == Head(s.replies)
<1>1. /\ t.up = s.up /\ t.binary = s.binary /\ t.cwd = s.cwd /\ t.ready = s.ready /\ s.replies # <<>>
  BY DEF Reads, Alike
<1>2. Agreed(s) <=> an.class = "COMPLETE"
  BY <1>1 DEF Agreed
<1>3. (KnownType(s, isb) <=> KnownType(t, isb)) /\ (KnownDir(s, cw) <=> KnownDir(t, cw))
  BY AlikeKnown DEF Reads
<1> SUFFICES ASSUME t.up
             PROVE  /\ Expected(d, e, t, busy, dir, ok, an) /\ TypeKnown(d, e, t, isb, an)
                    /\ DirKnown(d, e, t, cw, an) /\ ReadyKnown(d, e, t, an)
  BY DEF TopAt
<1>4. Reading(d, s) /\ TypeKnown(c, d, s, isb, ans) /\ DirKnown(c, d, s, cw, ans) /\ ReadyKnown(c, d, s, ans)
  BY <1>1 DEF TopAt, Expected
<1> HIDE DEF an
<1>5. d.call \in Calm \cup {"read_failed", "close_dst"} => Quiet(t)
  BY <1>4, ReadsAsked DEF Reading, Calm
<1>6. d.call = "started" => IF an.class = "PRELIM" THEN Owes(t, d.arg.cmd) ELSE Quiet(t)
  BY <1>4, ReadsAsked DEF Reading, an
<1>7. d.call = "aborted" => \/ an.to = "RETR" /\ an.class \in Finals /\ Asked(t, "ABOR", None)
                            \/ an.to = "ABOR" /\ an.class \in {"COMPLETE", "FAILED"} /\ Quiet(t)
  BY <1>4, ReadsAborts DEF Reading, an
<1>8. Expected(d, e, t, busy, dir, ok, an)
  <2>1. d.call \in Calm \/ d.call \in {"started", "aborted", "read_failed", "close_dst"}
    BY DEF Readers, Calm
  <2>2. CASE d.call \in Calm
    BY <1>5, <2>2 DEF Expected, Special, Calm
  <2>3. CASE d.call = "started"
    BY <1>6, <2>3 DEF Expected, Special, Calm
  <2>4. CASE d.call = "aborted"
    BY <1>7, <2>4 DEF Expected, Special, Calm
  <2>5. CASE d.call \in {"read_failed", "close_dst"}
    <3>1. Rests(t, busy, dir)
      BY <1>5, <2>5, QuietRests
    <3> QED BY <2>5, <3>1 DEF Expected, Special, Calm
  <2> QED BY <2>1, <2>2, <2>3, <2>4, <2>5
<1>9. TypeKnown(d, e, t, isb, an)
  BY <1>1, <1>2, <1>3, <1>4 DEF TypeKnown, Readers
<1>10. DirKnown(d, e, t, cw, an)
  BY <1>1, <1>2, <1>3, <1>4 DEF DirKnown, Readers
<1>11. ReadyKnown(d, e, t, an)
  BY <1>1, <1>2, <1>4 DEF ReadyKnown, Readers
<1> QED BY <1>8, <1>9, <1>10, <1>11

\* A reply is read, or nothing comes of a session that is gone.
LEMMA Reply1 == FtpInv /\ ftpfs_get_reply => FtpInv'
<1> SUFFICES ASSUME FtpInv, ftpfs_get_reply PROVE FtpInv'
  OBVIOUS
<1> DEFINE c == First(todo)
           r == Rest(todo)
           d == First(r)
<1>1. At("get_reply") /\ "get_reply" \notin Steady /\ "get_reply" \notin Copied \cup {"over"}
  BY DEF ftpfs_get_reply, Steady, Copied
<1>2. /\ Kinds /\ c.call = "get_reply" /\ IsStack(todo) /\ todo # <<>> /\ Bel(c, r)
      /\ TopAt(c, d, server, ctl_connection_busy, direct, okay, answer, isbinary, cwdir)
      /\ FlowKnown(c, d, server, data, okay)
  BY <1>1, AtTop
<1>3. r # <<>>
  BY <1>2 DEF Bel, MayEnd, Looks, Copied
<1>4. d.call \in Readers
  BY <1>1, <1>2, <1>3, Second DEF Below
<1>5. todo' = r
  BY <1>2, Thens DEF ftpfs_get_reply
<1>6. UNCHANGED <<src, dst, got, put, super, isbinary, ctl_connection_busy, cwdir, data, stored,
                  harm, okay, superVars, copyVars, cacheVars>>
  BY DEF ftpfs_get_reply, copyVars, superVars
<1>7. DOMAIN server = Fields /\ (~ server.up => server.cmds = <<>>)
  BY <1>2 DEF Kinds, ServerOK
<1> HIDE DEF c, r, d
<1>8. Alike(server, server') /\ server'.cmds = server.cmds
  <2>1. CASE server.replies # <<>> /\ server' = [server EXCEPT !.replies = Tail(@)]
    BY <1>7, <2>1, ReadsIs DEF Reads
  <2>2. CASE server' = server
    BY <1>7, <2>2 DEF Alike
  <2> QED BY <2>1, <2>2 DEF ftpfs_get_reply
<1>9. Kinds' /\ UNCHANGED <<poured, direct>>
  <2>1. Options'
    BY <1>2, <1>6, KindsOptions DEF Options, superVars, cacheVars
  <2>2. ~ server'.up => server'.cmds = <<>>
    BY <1>7, <1>8 DEF Alike
  <2> QED BY <1>2, <1>6, <1>8, <2>1, <2>2, KindsAlike
<1>10. Standing(todo, src, dst, got, put, poured)' /\ Ends(todo, src, dst, got, put, direct, okay, super)'
  BY <1>1, <1>3, <1>5, <1>6, <1>9, Go0 DEF r
<1>11. TopAt(d, First(Rest(r)), server', ctl_connection_busy', direct', okay', answer', isbinary', cwdir')
  <2>1. CASE server.replies # <<>> /\ server' = [server EXCEPT !.replies = Tail(@)] /\ answer' = Head(server.replies)
    <3>1. Reads(server, server')
      BY <1>7, <2>1, ReadsIs
    <3>2. TopAt(d, First(Rest(r)), server', ctl_connection_busy, direct, okay, Head(server.replies), isbinary, cwdir)
      BY <1>2, <1>4, <3>1, ReadTop
    <3> QED BY <1>6, <1>9, <2>1, <3>2
  <2>2. CASE ~ server.up
    <3>1. ~ server'.up
      BY <1>8, <2>2 DEF Alike
    <3> QED BY <3>1 DEF TopAt
  <2> QED BY <2>1, <2>2 DEF ftpfs_get_reply
<1>12. FlowKnown(d, First(Rest(r)), server', data', okay')
  <2>1. CASE d.call \notin {"typed", "started"}
    BY <1>4, <2>1, FlowPlain DEF Readers
  <2>2. CASE d.call \in {"typed", "started"}
    <3>1. /\ d.call = "typed" => data[d.arg.owner].client /\ data[d.arg.owner].flow = 0
          /\ d.call = "started" => data[d.arg.owner].client /\ (d.arg.owner = "src" => data["src"].flow <= Blocks)
      BY <1>2 DEF FlowKnown
    <3>2. data' = data
      BY <1>6
    <3> QED BY <2>2, <3>1, <3>2 DEF FlowKnown
  <2> QED BY <2>1, <2>2
<1> QED BY <1>5, <1>9, <1>10, <1>11, <1>12, Shown DEF d

-----------------------------------------------------------------------------
(* The user's jobs *)

\* Stacks on one another.
LEMMA Cats ==
  ASSUME NEW s, NEW t, NEW u, IsStack(s), IsStack(t), IsStack(u)
  PROVE  IsStack(Cat(s, t)) /\ Cat(Cat(s, t), u) = Cat(s, Cat(t, u)) /\ Cat(<<>>, t) = t
<1> DEFINE S == {s[i] : i \in 1..Len(s)} \cup {t[i] : i \in 1..Len(t)} \cup {u[i] : i \in 1..Len(u)}
<1>1. s \in Seq(S) /\ t \in Seq(S) /\ u \in Seq(S)
  BY StackSeq
<1> HIDE DEF S
<1>2. (s \o t) \o u = s \o (t \o u)
  BY <1>1, ConcatAssociative
<1>3. s \o t \in Seq(S) /\ <<>> \o t = t
  BY <1>1, ConcatEmptySeq
<1>4. IsStack(s \o t)
  BY <1>3, SeqStack
<1> QED BY <1>2, <1>3, <1>4 DEF Cat

\* Two calls on a stack, on another.
LEMMA CatTwo ==
  ASSUME NEW x, NEW y, NEW s, NEW t, IsStack(s), IsStack(t)
  PROVE  Cat(On(x, On(y, s)), t) = On(x, On(y, Cat(s, t))) /\ IsStack(On(x, On(y, s)))
<1>1. IsStack(On(y, s)) /\ IsStack(On(x, On(y, s)))
  BY StackOn
<1>2. Cat(On(y, s), t) = On(y, Cat(s, t))
  BY Glue
<1> QED BY <1>1, <1>2, Glue

\* Two calls as a stack.
LEMMA Pairs ==
  ASSUME NEW x, NEW y
  PROVE  <<x, y>> = On(x, On(y, <<>>))
<1> DEFINE e == <<>>
           t == On(y, e)
           v == On(x, t)
<1>1. IsStack(e) /\ Len(e) = 0
  BY EmptyStack
<1> HIDE DEF e
<1>2. IsStack(t) /\ Len(t) = 1 /\ t[1] = y
  <2>1. IsStack(t) /\ Len(t) = Len(e) + 1 /\ t[1] = y
    BY <1>1, StackOn
  <2> HIDE DEF t
  <2> QED BY <1>1, <2>1
<1> HIDE DEF t
<1>3. IsStack(v) /\ Len(v) = Len(t) + 1 /\ v[1] = x /\ \A i \in 1..Len(t) : v[i + 1] = t[i]
  <2>1. IsStack(t)
    BY <1>2
  <2> QED BY <2>1, StackOn
<1> HIDE DEF v
<1>4. Len(v) = 2 /\ v[2] = y
  <2>1. v[1 + 1] = t[1]
    BY <1>2, <1>3
  <2> QED BY <1>2, <1>3, <2>1
<1>5. v = [i \in 1..2 |-> v[i]]
  BY <1>3, <1>4 DEF IsStack
<1>6. <<x, y>> = [i \in 1..2 |-> v[i]]
  BY <1>3, <1>4
<1> QED BY <1>5, <1>6 DEF v, t, e

\* Four calls as a stack.
LEMMA Fours ==
  ASSUME NEW x, NEW y, NEW z, NEW w
  PROVE  <<x, y, z, w>> = On(x, On(y, On(z, On(w, <<>>))))
<1> DEFINE t == <<y, z, w>>
           v == On(x, t)
<1>1. IsStack(t)
  <2>1. t \in Seq({y, z, w})
    OBVIOUS
  <2> QED BY <2>1, SeqStack
<1>2. Len(t) = 3 /\ t[1] = y /\ t[2] = z /\ t[3] = w
  OBVIOUS
<1>3. t = On(y, On(z, On(w, <<>>)))
  BY Triples
<1> HIDE DEF t
<1>4. IsStack(v) /\ Len(v) = Len(t) + 1 /\ v[1] = x /\ \A i \in 1..Len(t) : v[i + 1] = t[i]
  BY <1>1, StackOn
<1> HIDE DEF v
<1>5. Len(v) = 4 /\ v[2] = y /\ v[3] = z /\ v[4] = w
  <2>1. v[1 + 1] = t[1] /\ v[2 + 1] = t[2] /\ v[3 + 1] = t[3]
    BY <1>2, <1>4
  <2> QED BY <1>2, <1>4, <2>1
<1>6. v = [i \in 1..4 |-> v[i]]
  BY <1>4, <1>5 DEF IsStack
<1>7. <<x, y, z, w>> = [i \in 1..4 |-> v[i]]
  BY <1>4, <1>5
<1> QED BY <1>3, <1>6, <1>7 DEF v

\* Five calls as a stack.
LEMMA Fives ==
  ASSUME NEW x, NEW y, NEW z, NEW w, NEW u
  PROVE  <<x, y, z, w, u>> = On(x, On(y, On(z, On(w, On(u, <<>>)))))
<1> DEFINE t == <<y, z, w, u>>
           v == On(x, t)
<1>1. IsStack(t)
  <2>1. t \in Seq({y, z, w, u})
    OBVIOUS
  <2> QED BY <2>1, SeqStack
<1>2. Len(t) = 4 /\ t[1] = y /\ t[2] = z /\ t[3] = w /\ t[4] = u
  OBVIOUS
<1>3. t = On(y, On(z, On(w, On(u, <<>>))))
  BY Fours
<1> HIDE DEF t
<1>4. IsStack(v) /\ Len(v) = Len(t) + 1 /\ v[1] = x /\ \A i \in 1..Len(t) : v[i + 1] = t[i]
  BY <1>1, StackOn
<1> HIDE DEF v
<1>5. Len(v) = 5 /\ v[2] = y /\ v[3] = z /\ v[4] = w /\ v[5] = u
  <2>1. v[1 + 1] = t[1] /\ v[2 + 1] = t[2] /\ v[3 + 1] = t[3] /\ v[4 + 1] = t[4]
    BY <1>2, <1>4
  <2> QED BY <1>2, <1>4, <2>1
<1>6. v = [i \in 1..5 |-> v[i]]
  BY <1>4, <1>5 DEF IsStack
<1>7. <<x, y, z, w, u>> = [i \in 1..5 |-> v[i]]
  BY <1>4, <1>5
<1> QED BY <1>3, <1>6, <1>7 DEF v

\* Six calls as a stack.
LEMMA Sixes ==
  ASSUME NEW x, NEW y, NEW z, NEW w, NEW u, NEW q
  PROVE  <<x, y, z, w, u, q>> = On(x, On(y, On(z, On(w, On(u, On(q, <<>>))))))
<1> DEFINE t == <<y, z, w, u, q>>
           v == On(x, t)
<1>1. IsStack(t)
  <2>1. t \in Seq({y, z, w, u, q})
    OBVIOUS
  <2> QED BY <2>1, SeqStack
<1>2. Len(t) = 5 /\ t[1] = y /\ t[2] = z /\ t[3] = w /\ t[4] = u /\ t[5] = q
  OBVIOUS
<1>3. t = On(y, On(z, On(w, On(u, On(q, <<>>)))))
  BY Fives
<1> HIDE DEF t
<1>4. IsStack(v) /\ Len(v) = Len(t) + 1 /\ v[1] = x /\ \A i \in 1..Len(t) : v[i + 1] = t[i]
  BY <1>1, StackOn
<1> HIDE DEF v
<1>5. Len(v) = 6 /\ v[2] = y /\ v[3] = z /\ v[4] = w /\ v[5] = u /\ v[6] = q
  <2>1. v[1 + 1] = t[1] /\ v[2 + 1] = t[2] /\ v[3 + 1] = t[3] /\ v[4 + 1] = t[4] /\ v[5 + 1] = t[5]
    BY <1>2, <1>4
  <2> QED BY <1>2, <1>4, <2>1
<1>6. v = [i \in 1..6 |-> v[i]]
  BY <1>4, <1>5 DEF IsStack
<1>7. <<x, y, z, w, u, q>> = [i \in 1..6 |-> v[i]]
  BY <1>4, <1>5
<1> QED BY <1>3, <1>6, <1>7 DEF v

\* The source is found and opened, and so is the target.
Opened(a) ==
  IF a.from = "ftp"
  THEN <<Find("from"), Or(Closing(a)), ftpfs_open_data_connection("src", "RETR", None, TRUE),
         Do("ftpfs_linear_start"), Or(Closing(a)), Do("seek")>>
  ELSE <<>>
\* The calls that open a target on the server.
Target(a) == IF a.to = "ftp" THEN <<Find("to"), Do("again"), Do("fh_open"), Or(Closing(a))>> ELSE <<>>

\* The calls that open the source, on t.
OpenedOn(a, t) ==
  IF a.from = "ftp"
  THEN On(Find("from"), On(Or(Closing(a)), On(ftpfs_open_data_connection("src", "RETR", None, TRUE),
       On(Do("ftpfs_linear_start"), On(Or(Closing(a)), On(Do("seek"), t))))))
  ELSE t
\* The calls that open the target, on t.
TargetOn(a, t) ==
  IF a.to = "ftp" THEN On(Find("to"), On(Do("again"), On(Do("fh_open"), On(Or(Closing(a)), t)))) ELSE t

\* The calls that open the source, put on a stack.
LEMMA OpenedIs ==
  ASSUME NEW a, NEW t, IsStack(t)
  PROVE  IsStack(Opened(a)) /\ Cat(Opened(a), t) = OpenedOn(a, t)
<1>1. CASE a.from # "ftp"
  <2>1. Opened(a) = <<>> /\ OpenedOn(a, t) = t
    BY <1>1 DEF Opened, OpenedOn
  <2> QED BY <2>1, EmptyStack, Glue
<1>2. CASE a.from = "ftp"
  <2> DEFINE f == Find("from")
             o == Or(Closing(a))
             i == ftpfs_open_data_connection("src", "RETR", None, TRUE)
             l == Do("ftpfs_linear_start")
             k == Do("seek")
  <2>1. Opened(a) = <<f, o, i, l, o, k>>
    BY <1>2 DEF Opened
  <2>2. OpenedOn(a, t) = On(f, On(o, On(i, On(l, On(o, On(k, t))))))
    BY <1>2 DEF OpenedOn
  <2> HIDE DEF f, o, i, l, k
  <2>3. Opened(a) = On(f, On(o, On(i, On(l, On(o, On(k, <<>>))))))
    BY <2>1, Sixes
  <2>4. Cat(On(o, On(k, <<>>)), t) = On(o, On(k, t)) /\ IsStack(On(o, On(k, <<>>)))
    BY CatTwo, Glue, EmptyStack
  <2>5. /\ Cat(On(i, On(l, On(o, On(k, <<>>)))), t) = On(i, On(l, On(o, On(k, t))))
        /\ IsStack(On(i, On(l, On(o, On(k, <<>>)))))
    BY <2>4, CatTwo
  <2>6. /\ Cat(On(f, On(o, On(i, On(l, On(o, On(k, <<>>)))))), t) = On(f, On(o, On(i, On(l, On(o, On(k, t))))))
        /\ IsStack(On(f, On(o, On(i, On(l, On(o, On(k, <<>>)))))))
    BY <2>5, CatTwo
  <2> QED BY <2>2, <2>3, <2>6
<1> QED BY <1>1, <1>2

\* The calls that open the target, put on a stack.
LEMMA TargetIs ==
  ASSUME NEW a, NEW t, IsStack(t)
  PROVE  IsStack(Target(a)) /\ Cat(Target(a), t) = TargetOn(a, t)
<1>1. CASE a.to # "ftp"
  <2>1. Target(a) = <<>> /\ TargetOn(a, t) = t
    BY <1>1 DEF Target, TargetOn
  <2> QED BY <2>1, EmptyStack, Glue
<1>2. CASE a.to = "ftp"
  <2> DEFINE f == Find("to")
             o == Or(Closing(a))
             i == Do("again")
             l == Do("fh_open")
  <2>1. Target(a) = <<f, i, l, o>>
    BY <1>2 DEF Target
  <2>2. TargetOn(a, t) = On(f, On(i, On(l, On(o, t))))
    BY <1>2 DEF TargetOn
  <2> HIDE DEF f, o, i, l
  <2>3. Target(a) = On(f, On(i, On(l, On(o, <<>>))))
    BY <2>1, Fours
  <2>4. Cat(On(l, On(o, <<>>)), t) = On(l, On(o, t)) /\ IsStack(On(l, On(o, <<>>)))
    BY CatTwo, Glue, EmptyStack
  <2>5. Cat(On(f, On(i, On(l, On(o, <<>>)))), t) = On(f, On(i, On(l, On(o, t)))) /\ IsStack(On(f, On(i, On(l, On(o, <<>>)))))
    BY <2>4, CatTwo
  <2> QED BY <2>2, <2>3, <2>5
<1> QED BY <1>1, <1>2

\* The calls of a copy.
LEMMA CopyingIs ==
  ASSUME NEW a
  PROVE  <<Do("get_super"), Or(<<>>)>> \o Copying(a) =
           On(Do("get_super"), On(Or(<<>>), Switch(a.to, "to", TRUE, Switch(a.from, "from", TRUE,
             OpenedOn(a, TargetOn(a, On(Call("copy", a), <<>>)))))))
<1> DEFINE A == Stale(a.to, "to", TRUE)
           B == Stale(a.from, "from", TRUE)
           F == Opened(a)
           T == Target(a)
           C == One(Call("copy", a))
           x == Do("get_super")
           y == Or(<<>>)
           e == On(Call("copy", a), <<>>)
           u == TargetOn(a, e)
           v == OpenedOn(a, u)
           w == Switch(a.from, "from", TRUE, v)
           z == Switch(a.to, "to", TRUE, w)
<1>1. <<x, y>> \o Copying(a) = Cat(<<x, y>>, Cat(Cat(Cat(Cat(A, B), F), T), C))
  BY DEF Cat, Copying, One, Opened, Target
<1>2. IsStack(C) /\ C = e
  BY Ones, EmptyStack, Glue
<1>3. IsStack(A) /\ IsStack(B) /\ IsStack(F) /\ IsStack(T)
  BY StaleIs, OpenedIs, TargetIs, EmptyStack
<1>4. <<x, y>> = On(x, On(y, <<>>))
  BY Pairs
<1> HIDE DEF C
<1>5. IsStack(Cat(T, C)) /\ Cat(T, C) = u
  BY <1>2, <1>3, Cats, TargetIs
<1>6. IsStack(Cat(F, Cat(T, C))) /\ Cat(F, Cat(T, C)) = v
  <2> HIDE DEF u
  <2>1. Cat(F, u) = v /\ IsStack(u)
    BY <1>5, OpenedIs
  <2> HIDE DEF F, T, v
  <2> QED BY <1>3, <1>5, <2>1, Cats
<1>7. IsStack(Cat(B, Cat(F, Cat(T, C)))) /\ Cat(B, Cat(F, Cat(T, C))) = w
  <2> HIDE DEF v
  <2>1. IsStack(v)
    BY <1>6
  <2>2. Cat(B, v) = w
    BY <2>1, StaleIs
  <2> HIDE DEF B, F, T, w
  <2> QED BY <1>3, <1>6, <2>2, Cats
<1>8. IsStack(Cat(A, Cat(B, Cat(F, Cat(T, C))))) /\ Cat(A, Cat(B, Cat(F, Cat(T, C)))) = z
  <2> HIDE DEF w
  <2>1. IsStack(w)
    BY <1>7
  <2>2. Cat(A, w) = z
    BY <2>1, StaleIs
  <2> HIDE DEF A, B, F, T, z
  <2> QED BY <1>3, <1>7, <2>2, Cats
<1> HIDE DEF A, B, F, T, z, x, y
<1>9. Cat(Cat(Cat(Cat(A, B), F), T), C) = Cat(A, Cat(B, Cat(F, Cat(T, C))))
  <2>1. IsStack(Cat(A, B)) /\ IsStack(Cat(Cat(A, B), F)) /\ IsStack(Cat(T, C)) /\ IsStack(Cat(F, Cat(T, C)))
    BY <1>2, <1>3, Cats
  <2>2. Cat(Cat(Cat(Cat(A, B), F), T), C) = Cat(Cat(Cat(A, B), F), Cat(T, C))
    BY <1>2, <1>3, <2>1, Cats
  <2>3. Cat(Cat(Cat(A, B), F), Cat(T, C)) = Cat(Cat(A, B), Cat(F, Cat(T, C)))
    BY <1>3, <2>1, Cats
  <2>4. Cat(Cat(A, B), Cat(F, Cat(T, C))) = Cat(A, Cat(B, Cat(F, Cat(T, C))))
    BY <1>3, <2>1, Cats
  <2> QED BY <2>2, <2>3, <2>4
<1>10. Cat(On(x, On(y, <<>>)), z) = On(x, On(y, z))
  <2>1. IsStack(z)
    BY <1>8
  <2>2. Cat(<<>>, z) = z
    BY <2>1, Glue
  <2> QED BY <2>1, <2>2, CatTwo, EmptyStack
<1>11. <<x, y>> \o Copying(a) = On(x, On(y, z))
  BY <1>1, <1>4, <1>8, <1>9, <1>10
<1> QED BY <1>11 DEF x, y, z

\* A stack of calls that were not made yet; one of a level below l may be put on it.
Begun(t, l, b) ==
  /\ Standing(t, None, None, 0, 0, 0) /\ IsStack(t) /\ t # <<>> /\ Bottom(t) = b
  /\ \A k \in 0..12 : k < l => Over(k, t)

\* x may be among the first calls of a job that ends with b.
Suits(x, b) ==
  /\ x.call \in {"get_super", "or", "setctl", "initconn", "find", "ftpfs_linear_start", "seek", "again", "fh_open",
                 "copy", "commanded", "over", "command"}
  /\ x.call \in Early \/ IsOr(x) \/ IsOn(x) => b.call = "copy"
  /\ x.call = "ftpfs_linear_start" => b.arg.from = "ftp"

\* A call that suits the bottom fits a copy that has not begun.
LEMMA SuitsFits ==
  ASSUME NEW x, NEW b, Suits(x, b)
  PROVE  Fits(x, None, None, 0, 0, 0, b)
<1>1. None # "gone"
  BY FtpfsAssumption
<1> QED BY <1>1 DEF Suits, Fits, Nobody, Aborted, Early

\* Another call is put on a stack of calls that were not made yet.
LEMMA Putting ==
  ASSUME NEW t, NEW l \in 0..13, NEW b, Begun(t, l, b), NEW x, CallOK(x), Below(x, First(t)), Suits(x, b),
         Level(x) = 20 \/ (Level(x) \in 0..12 /\ Level(x) < l), NEW m \in 0..l,
         Level(x) = 20 \/ m <= Level(x) \/ (m = 3 /\ Level(x) = 2)
  PROVE  /\ Begun(On(x, t), m, b) /\ First(On(x, t)) = x
         /\ HasStart(On(x, t)) <=> x.call = "ftpfs_linear_start" \/ HasStart(t)
<1>1. /\ Standing(t, None, None, 0, 0, 0) /\ IsStack(t) /\ t # <<>> /\ Bottom(t) = b
      /\ \A k \in 0..12 : k < l => Over(k, t)
  BY DEF Begun
<1>2. Over(20, t)
  BY DEF Over, Ordered
<1>3. Over(Level(x), t)
  BY <1>1, <1>2
<1>4. Bel(x, t)
  BY <1>1 DEF Bel
<1>5. Fits(x, None, None, 0, 0, 0, b)
  BY SuitsFits
<1>6. /\ Standing(On(x, t), None, None, 0, 0, 0) /\ First(On(x, t)) = x /\ Bottom(On(x, t)) = b
      /\ HasStart(On(x, t)) <=> x.call = "ftpfs_linear_start" \/ HasStart(t)
  BY <1>1, <1>3, <1>4, <1>5, Put1
<1>7. IsStack(On(x, t)) /\ On(x, t) # <<>>
  BY <1>1, StackOn
<1>8. ASSUME NEW k \in 0..12, k < m PROVE Over(k, On(x, t))
  <2>1. Over(k, t)
    BY <1>1, <1>8
  <2>2. Ordered(k, Level(x))
    <3>1. CASE Level(x) = 20
      BY <3>1 DEF Ordered
    <3>2. CASE Level(x) \in 0..12 /\ m <= Level(x)
      BY <1>8, <3>2 DEF Ordered
    <3>3. CASE m = 3 /\ Level(x) = 2
      <4>1. k < 2 \/ k = 2
        BY <1>8, <3>3
      <4> QED BY <3>3, <4>1 DEF Ordered
    <3> QED BY <3>1, <3>2, <3>3
  <2> QED BY <1>1, <2>1, <2>2, OnOver
<1> QED BY <1>6, <1>7, <1>8 DEF Begun

\* The call at the bottom of such a stack.
LEMMA Beginning ==
  ASSUME NEW b, b.call \in {"find", "copy", "over"}, CallOK(b)
  PROVE  /\ Begun(On(b, <<>>), 7, b) /\ First(On(b, <<>>)) = b /\ ~ HasStart(On(b, <<>>))
<1>1. Standing(<<>>, None, None, 0, 0, 0) /\ IsStack(<<>>)
  BY EmptyShape, EmptyStack DEF Standing, AllFit
<1>2. Bel(b, <<>>) /\ Over(Level(b), <<>>)
  BY EmptyShape DEF Bel, MayEnd, Looks, Copied
<1>3. Fits(b, None, None, 0, 0, 0, b)
  BY SuitsFits DEF Suits, Early, IsOr, IsOn, Switches
<1>4. /\ Standing(On(b, <<>>), None, None, 0, 0, 0) /\ First(On(b, <<>>)) = b /\ Bottom(On(b, <<>>)) = b
      /\ HasStart(On(b, <<>>)) <=> b.call = "ftpfs_linear_start" \/ HasStart(<<>>)
  BY <1>1, <1>2, <1>3, Put1
<1>5. ~ HasStart(<<>>)
  BY DEF HasStart
<1>6. IsStack(On(b, <<>>)) /\ On(b, <<>>) # <<>>
  BY EmptyStack, StackOn
<1>7. Level(b) \in {7, 12, 20}
  BY Levels DEF Looks, Copied
<1>8. ASSUME NEW k \in 0..12, k < 7 PROVE Over(k, On(b, <<>>))
  <2>1. Ordered(k, Level(b))
    BY <1>7, <1>8 DEF Ordered
  <2> QED BY <1>1, <2>1, EmptyShape, OnOver
<1> QED BY <1>4, <1>5, <1>6, <1>8 DEF Begun

\* A stack that a call of some level may be put on takes those of lesser levels.
LEMMA BegunLess ==
  ASSUME NEW t, NEW l \in 0..13, NEW b, Begun(t, l, b), NEW m \in 0..l
  PROVE  Begun(t, m, b)
BY DEF Begun

\* What is known when nothing is called.
LEMMA AtIdle ==
  ASSUME FtpInv, Idle
  PROVE  /\ Kinds /\ harm = None /\ todo = <<>> /\ Nobody(src, dst, got, put) /\ ~ direct /\ ~ ctl_connection_busy
         /\ server.xfer = None /\ poured = 0
         /\ server.up => Quiet(server) /\ KnownDir(server, cwdir) /\ KnownType(server, isbinary)
<1>1. /\ Kinds /\ harm = None /\ todo = <<>> /\ Ends(todo, src, dst, got, put, direct, okay, super)
      /\ TopAt(First(todo), First(Rest(todo)), server, ctl_connection_busy, direct, okay, answer, isbinary, cwdir)
  BY StackSame, TopSame DEF FtpInv, Idle
<1>2. First(todo).call = "nothing" /\ Bottom(todo).call = "nothing"
  BY <1>1 DEF First, Bottom, Do, Call
<1>3. Nobody(src, dst, got, put) /\ ~ direct
  BY <1>1, <1>2 DEF Ends, Copied
<1>4. ~ ctl_connection_busy
  BY <1>1, <1>3, FtpfsAssumption DEF Kinds, CopyOK, Nobody
<1>5. server.up => Rests(server, ctl_connection_busy, direct) /\ KnownDir(server, cwdir) /\ KnownType(server, isbinary)
  BY <1>1, <1>2, TopKnown DEF Special, Calm
<1>6. server.up => Quiet(server)
  BY <1>3, <1>4, <1>5 DEF Rests
<1>7. server.xfer = None
  BY <1>1, <1>6, NoTransfer DEF Kinds, ServerOK
<1>8. poured = 0
  BY <1>7, FtpfsAssumption DEF poured
<1> QED BY <1>1, <1>3, <1>4, <1>5, <1>6, <1>7, <1>8

\* A job begins.
LEMMA Begins ==
  ASSUME FtpInv, NEW calls, Job(calls), NEW l \in 0..13, NEW b, Begun(calls, l, b), First(calls).call = "get_super",
         b.call \in Copied => b.call = "copy" /\ (b.arg.from = "ftp" => HasStart(calls))
  PROVE  FtpInv'
<1>1. Idle /\ todo' = calls /\ okay' = TRUE
      /\ UNCHANGED <<superVars, cacheVars, copyVars, netVars, faults, harm>>
  BY DEF Job
<1>2. /\ Kinds /\ Nobody(src, dst, got, put) /\ ~ direct /\ ~ ctl_connection_busy /\ poured = 0
      /\ server.up => Quiet(server) /\ KnownDir(server, cwdir) /\ KnownType(server, isbinary)
  BY <1>1, AtIdle
<1>3. UNCHANGED <<src, dst, got, put, super, isbinary, ctl_connection_busy, cwdir, server, data, stored, harm, poured, direct>>
  BY <1>1 DEF copyVars, superVars, netVars, poured, direct
<1>4. Kinds'
  <2>1. Options'
    BY <1>1, <1>2, KindsOptions DEF Options, superVars, cacheVars
  <2> QED BY <1>1, <1>2, <1>3, <2>1, KindsOptions DEF superVars
<1>5. Standing(todo, src, dst, got, put, poured)'
  BY <1>1, <1>2, <1>3 DEF Begun, Nobody
<1>6. Bottom(calls) = b /\ calls # <<>>
  BY DEF Begun
<1>7. Ends(calls, None, None, 0, 0, FALSE, TRUE, super)
  BY <1>6, FtpfsAssumption DEF Ends, Nobody, Copied
<1>8. Ends(todo, src, dst, got, put, direct, okay, super)'
  <2>1. direct = FALSE
    BY <1>2 DEF direct
  <2> QED BY <1>1, <1>2, <1>3, <1>7, <2>1 DEF Nobody
<1>9. TopAt(First(calls), First(Rest(calls)), server, ctl_connection_busy, direct, TRUE, answer', isbinary, cwdir)
  BY <1>2, QuietRests, PlainTop DEF Special, Calm
<1>10. FlowKnown(First(calls), First(Rest(calls)), server, data, TRUE)
  BY FlowPlain
<1>11. TopAt(First(todo), First(Rest(todo)), server, ctl_connection_busy, direct, okay, answer, isbinary, cwdir)'
  BY <1>1, <1>3, <1>9
<1>12. FlowKnown(First(todo), First(Rest(todo)), server, data, okay)'
  BY <1>1, <1>3, <1>10
<1> QED BY <1>4, <1>5, <1>8, <1>11, <1>12, Shown

\* What is in a call.
LEMMA CallIs ==
  ASSUME NEW name, NEW arg
  PROVE  /\ Call(name, arg).call = name /\ Call(name, arg).arg = arg
         /\ Do(name).call = name /\ Find(arg).call = "find" /\ Find(arg).arg = arg
         /\ Or(arg).call = "or" /\ Or(arg).arg = arg
BY DEF Call, Do, Find, Or

\* The first two calls of each job.
LEMMA JobHead ==
  ASSUME NEW t, NEW l \in 0..13, NEW b, Begun(t, l, b), l >= 2,
         IsOn(First(t)) \/ First(t).call = "find" \/ (First(t).call = "command" /\ First(t).arg = Command("DELE", None))
  PROVE  LET u == On(Do("get_super"), On(Or(<<>>), t)) IN
         Begun(u, 0, b) /\ First(u).call = "get_super" /\ (HasStart(u) <=> HasStart(t))
<1> DEFINE x == Do("get_super")
           y == Or(<<>>)
           v == On(y, t)
<1>1. x.call = "get_super" /\ y.call = "or" /\ y.arg = <<>>
  BY CallIs
<1> HIDE DEF x, y
<1>2. IsStop(y) /\ Level(y) = 1 /\ Level(x) = 0
  BY <1>1, Levels DEF IsStop
<1>3. CallOK(x) /\ CallOK(y)
  BY <1>1 DEF CallOK, Connects, Looks, Copied, Switches
<1>4. Below(y, First(t))
  BY <1>1, <1>2 DEF Below, Connects, Looks, Copied, Aborted, Switches, IsOr, IsStop, IsOn, IsOff
<1>5. Suits(x, b) /\ Suits(y, b)
  BY <1>1 DEF Suits, Early, IsOr, IsOn, Switches
<1>6. Begun(v, 1, b) /\ First(v) = y /\ (HasStart(v) <=> HasStart(t))
  BY <1>1, <1>2, <1>3, <1>4, <1>5, Putting
<1> HIDE DEF v
<1>7. Below(x, First(v))
  BY <1>1, <1>2, <1>6 DEF Below, Connects, Looks, Copied, Aborted, Switches, IsOr, IsStop, IsOn, IsOff
<1>8. Begun(On(x, v), 0, b) /\ First(On(x, v)) = x /\ (HasStart(On(x, v)) <=> HasStart(v))
  BY <1>1, <1>2, <1>3, <1>5, <1>6, <1>7, Putting
<1> QED BY <1>1, <1>6, <1>8 DEF x, y, v

\* The user lists a directory.
LEMMA ListJob ==
  ASSUME NEW d \in Dirs, FtpInv, ListDirectory(d)
  PROVE  FtpInv'
<1> DEFINE x == Do("get_super")
           y == Or(<<>>)
           f == Find(d)
           t == On(f, <<>>)
           u == On(x, On(y, t))
<1>1. Job(<<x, y, f>>)
  BY DEF ListDirectory
<1>2. f.call = "find" /\ f.arg = d
  BY CallIs
<1>3. <<x, y, f>> = u
  BY Triples
<1> HIDE DEF f
<1>4. CallOK(f)
  BY <1>2 DEF CallOK, Connects, Looks, Copied, Switches
<1>5. Begun(t, 7, f) /\ First(t) = f
  BY <1>2, <1>4, Beginning
<1> HIDE DEF t
<1>6. Begun(u, 0, f) /\ First(u).call = "get_super"
  BY <1>2, <1>5, JobHead
<1> HIDE DEF u
<1>7. Job(u)
  BY <1>1, <1>3
<1> QED BY <1>2, <1>6, <1>7, Begins DEF Copied

\* The user deletes the target.
LEMMA DeleteJob == FtpInv /\ DeleteTarget => FtpInv'
<1> SUFFICES ASSUME FtpInv, DeleteTarget PROVE FtpInv'
  OBVIOUS
<1> DEFINE x == Do("get_super")
           y == Or(<<>>)
           k == Ask("DELE", None)
           m == Do("commanded")
           o == Do("over")
           t0 == On(o, <<>>)
           t1 == On(m, t0)
           t2 == On(k, t1)
           u == On(x, On(y, t2))
<1>1. Job(<<x, y, k, m, o>>)
  BY DEF DeleteTarget
<1>2. k.call = "command" /\ k.arg = Command("DELE", None) /\ m.call = "commanded" /\ o.call = "over"
  BY DEF Ask, Call, Do, Command
<1>3. <<x, y, k, m, o>> = u
  BY Fives
<1> HIDE DEF k, m, o
<1>4. CallOK(k) /\ CallOK(m) /\ CallOK(o)
  BY <1>2 DEF CallOK, Connects, Looks, Copied, Switches
<1>5. Level(k) = 20 /\ Level(m) = 11
  BY <1>2, Levels
<1>6. Suits(k, o) /\ Suits(m, o)
  BY <1>2 DEF Suits, Early, IsOr, IsOn, Switches
<1>7. Begun(t0, 7, o) /\ First(t0) = o
  BY <1>2, <1>4, Beginning
<1>8. Begun(t0, 12, o)
  <2>1. Level(o) = 12
    BY <1>2, Levels
  <2>2. ASSUME NEW l \in 0..12, l < 12 PROVE Over(l, t0)
    <3>1. Ordered(l, 12)
      BY <2>2 DEF Ordered
    <3> QED BY <2>1, <3>1, EmptyShape, EmptyStack, OnOver
  <2> QED BY <1>7, <2>2 DEF Begun
<1> HIDE DEF t0
<1>9. Below(m, o)
  BY <1>2 DEF Below, Connects, Looks, Copied, Aborted, Switches, IsOr, IsStop, IsOn, IsOff
<1>10. Begun(t1, 2, o) /\ First(t1) = m
  BY <1>4, <1>5, <1>6, <1>7, <1>8, <1>9, Putting
<1> HIDE DEF t1
<1>11. Below(k, m)
  BY <1>2 DEF Below, Waiter, Connects, Looks, Copied, Aborted, Switches, IsOr, IsStop, IsOn, IsOff
<1>12. Begun(t2, 2, o) /\ First(t2) = k
  BY <1>4, <1>5, <1>6, <1>10, <1>11, Putting
<1> HIDE DEF t2
<1>13. Begun(u, 0, o) /\ First(u).call = "get_super"
  BY <1>2, <1>12, JobHead
<1> HIDE DEF u
<1>14. Job(u)
  BY <1>1, <1>3
<1> QED BY <1>2, <1>13, <1>14, Begins DEF Copied

\* The calls that open the target.
LEMMA TargetBegins ==
  ASSUME NEW a \in Copies
  PROVE  LET b == Call("copy", a)
             t == TargetOn(a, On(b, <<>>))
         IN /\ Begun(t, 5, b) /\ First(t).call \in {"find", "copy"} /\ (a.to = "ftp" => First(t).call = "find")
            /\ IsStack(t)
<1> DEFINE b == Call("copy", a)
           t0 == On(b, <<>>)
           o == Or(Closing(a))
           h == Do("fh_open")
           g == Do("again")
           f == Find("to")
           t1 == On(o, t0)
           t2 == On(h, t1)
           t3 == On(g, t2)
           t4 == On(f, t3)
<1>1. Closing(a) # <<>>
  BY ClosingStands
<1>2. /\ b.call = "copy" /\ b.arg = a /\ o.call = "or" /\ o.arg = Closing(a) /\ o.arg # <<>>
      /\ h.call = "fh_open" /\ g.call = "again" /\ f.call = "find" /\ f.arg \in Dirs
  <2>1. b.call = "copy" /\ b.arg = a /\ o.call = "or" /\ o.arg = Closing(a)
    BY CallIs
  <2>2. h.call = "fh_open" /\ g.call = "again" /\ f.call = "find" /\ f.arg = "to"
    BY CallIs
  <2> HIDE DEF b, o, h, g, f
  <2> QED BY <1>1, <2>1, <2>2 DEF Dirs
<1>3. TargetOn(a, t0) = IF a.to = "ftp" THEN t4 ELSE t0
  BY DEF TargetOn
<1> HIDE DEF b, o, h, g, f
<1>4. CallOK(b) /\ CallOK(o) /\ CallOK(h) /\ CallOK(g) /\ CallOK(f)
  BY <1>2 DEF CallOK, Connects, Looks, Copied, Switches
<1>5. IsOr(o) /\ Level(o) = 20 /\ Level(h) = 6 /\ Level(g) = 5 /\ Level(f) = 20
  BY <1>2, Levels DEF IsOr, Looks
<1>6. Suits(o, b) /\ Suits(h, b) /\ Suits(g, b) /\ Suits(f, b)
  BY <1>2 DEF Suits, Early, IsOr, IsOn, Switches
<1>7. Begun(t0, 7, b) /\ First(t0) = b
  BY <1>2, <1>4, Beginning
<1> HIDE DEF t0
<1>8. Below(o, b) /\ Below(h, o) /\ Below(g, h) /\ Below(f, g)
  BY <1>2, <1>5 DEF Below, Connects, Looks, Copied, Aborted, Switches, IsOr, IsStop, IsOn, IsOff
<1>9. Begun(t1, 7, b) /\ First(t1) = o
  BY <1>4, <1>5, <1>6, <1>7, <1>8, Putting
<1> HIDE DEF t1
<1>10. Begun(t2, 6, b) /\ First(t2) = h
  BY <1>4, <1>5, <1>6, <1>8, <1>9, Putting
<1> HIDE DEF t2
<1>11. Begun(t3, 5, b) /\ First(t3) = g
  BY <1>4, <1>5, <1>6, <1>8, <1>10, Putting
<1> HIDE DEF t3
<1>12. Begun(t4, 5, b) /\ First(t4) = f
  BY <1>4, <1>5, <1>6, <1>8, <1>11, Putting
<1> HIDE DEF t4
<1>13. Begun(t0, 5, b)
  BY <1>7, BegunLess
<1>14. CASE a.to = "ftp"
  <2>1. TargetOn(a, t0) = t4
    BY <1>3, <1>14
  <2> QED BY <1>2, <1>12, <2>1 DEF Begun, b, t0
<1>15. CASE a.to # "ftp"
  <2>1. TargetOn(a, t0) = t0
    BY <1>3, <1>15
  <2>2. First(t0).call = "copy" /\ IsStack(t0)
    BY <1>2, <1>7, <1>13 DEF Begun
  <2> QED BY <1>13, <1>15, <2>1, <2>2 DEF b, t0
<1> QED BY <1>14, <1>15

\* ... and the source, if it is on the server.
LEMMA SourceBegins ==
  ASSUME NEW a \in Copies, NEW b, b.call = "copy", b.arg = a, NEW t, Begun(t, 5, b),
         First(t).call \in {"find", "copy"}, a.to = "ftp" => First(t).call = "find"
  PROVE  LET u == OpenedOn(a, t) IN
         Begun(u, 3, b) /\ First(u).call = "find" /\ (a.from = "ftp" => HasStart(u))
<1> DEFINE o == Or(Closing(a))
           k == Do("seek")
           s == Do("ftpfs_linear_start")
           q == Request("src", "RETR", None, TRUE)
           i == ftpfs_open_data_connection("src", "RETR", None, TRUE)
           f == Find("from")
           t1 == On(k, t)
           t2 == On(o, t1)
           t3 == On(s, t2)
           t4 == On(i, t3)
           t5 == On(o, t4)
           t6 == On(f, t5)
<1>1. Closing(a) # <<>>
  BY ClosingStands
<1>2. /\ o.call = "or" /\ o.arg = Closing(a) /\ o.arg # <<>> /\ k.call = "seek" /\ s.call = "ftpfs_linear_start"
      /\ i.call = "initconn" /\ i.arg = q /\ f.call = "find" /\ f.arg \in Dirs
  <2>1. o.call = "or" /\ o.arg = Closing(a) /\ k.call = "seek" /\ s.call = "ftpfs_linear_start"
    BY CallIs
  <2>2. i.call = "initconn" /\ i.arg = q
    BY DEF ftpfs_open_data_connection, Call
  <2>3. f.call = "find" /\ f.arg = "from"
    BY CallIs
  <2> HIDE DEF o, k, s, i, f
  <2> QED BY <1>1, <2>1, <2>2, <2>3 DEF Dirs
<1>3. q \in Requests /\ q.owner = "src"
  BY DEF Requests, Request
<1>4. OpenedOn(a, t) = IF a.from = "ftp" THEN t6 ELSE t
  BY DEF OpenedOn
<1> HIDE DEF o, k, s, i, f, q
<1>5. CallOK(o) /\ CallOK(k) /\ CallOK(s) /\ CallOK(i) /\ CallOK(f)
  BY <1>2, <1>3 DEF CallOK, Connects, Looks, Copied, Switches
<1>6. IsOr(o) /\ Level(o) = 20 /\ Level(k) = 4 /\ Level(s) = 3 /\ Level(i) = 20 /\ Level(f) = 20
  BY <1>2, Levels DEF IsOr, Looks, Connects
<1>7. CASE a.from = "ftp"
  <2>1. Suits(o, b) /\ Suits(k, b) /\ Suits(s, b) /\ Suits(i, b) /\ Suits(f, b)
    BY <1>2, <1>7 DEF Suits, Early, IsOr, IsOn, Switches
  <2>2. Below(k, First(t)) /\ Below(o, k) /\ Below(s, o) /\ Below(f, o)
    BY <1>2, <1>6 DEF Below, Connects, Looks, Copied, Aborted, Switches, IsOr, IsStop, IsOn, IsOff
  <2>3. Below(i, s)
    BY <1>2, <1>3 DEF Below, Asker, Connects, Looks, Copied, Aborted, Switches, IsOr, IsStop, IsOn, IsOff
  <2>4. Below(o, i)
    BY <1>2, <1>3, <1>6 DEF Below, Connects, Looks, Copied, Aborted, Switches, IsOr, IsStop, IsOn, IsOff
  <2>5. Begun(t1, 4, b) /\ First(t1) = k
    BY <1>5, <1>6, <2>1, <2>2, Putting
  <2> HIDE DEF t1
  <2>6. Begun(t2, 4, b) /\ First(t2) = o
    BY <1>5, <1>6, <2>1, <2>2, <2>5, Putting
  <2> HIDE DEF t2
  <2>7. Begun(t3, 3, b) /\ First(t3) = s /\ HasStart(t3)
    BY <1>2, <1>5, <1>6, <2>1, <2>2, <2>6, Putting
  <2> HIDE DEF t3
  <2>8. Begun(t4, 3, b) /\ First(t4) = i /\ HasStart(t4)
    BY <1>5, <1>6, <2>1, <2>3, <2>7, Putting
  <2> HIDE DEF t4
  <2>9. Begun(t5, 3, b) /\ First(t5) = o /\ HasStart(t5)
    BY <1>5, <1>6, <2>1, <2>4, <2>8, Putting
  <2> HIDE DEF t5
  <2>10. Begun(t6, 3, b) /\ First(t6) = f /\ HasStart(t6)
    BY <1>5, <1>6, <2>1, <2>2, <2>9, Putting
  <2> HIDE DEF t6
  <2>11. OpenedOn(a, t) = t6
    BY <1>4, <1>7
  <2> QED BY <1>2, <2>10, <2>11
<1>8. CASE a.from # "ftp"
  <2>1. a.to = "ftp"
    BY <1>8 DEF Copies
  <2>2. OpenedOn(a, t) = t
    BY <1>4, <1>8
  <2> QED BY <1>8, <2>1, <2>2, BegunLess
<1> QED BY <1>7, <1>8

\* The listings are kept.
LEMMA SwitchBegins ==
  ASSUME NEW b, b.call = "copy", NEW t, Begun(t, 3, b), IsOn(First(t)) \/ First(t).call = "find", NEW w, NEW d \in Dirs
  PROVE  LET u == Switch(w, d, TRUE, t) IN
         Begun(u, 3, b) /\ (IsOn(First(u)) \/ First(u).call = "find") /\ (HasStart(t) => HasStart(u))
<1>1. CASE w # "ftp"
  BY <1>1 DEF Switch
<1>2. CASE w = "ftp"
  <2> DEFINE x == Call("setctl", [dir |-> d, on |-> TRUE])
  <2>1. x.call = "setctl" /\ x.arg.dir = d /\ x.arg.on = TRUE
    BY DEF Call
  <2>2. Switch(w, d, TRUE, t) = On(x, t)
    BY <1>2 DEF Switch
  <2> HIDE DEF x
  <2>3. IsOn(x) /\ Level(x) = 2
    BY <2>1, Levels DEF IsOn, Switches
  <2>4. CallOK(x)
    <3>1. x.arg.on \in BOOLEAN
      BY <2>1
    <3> QED BY <2>1, <3>1 DEF CallOK, Connects, Looks, Copied, Switches
  <2>5. Below(x, First(t))
    BY <2>1, <2>3 DEF Below, Connects, Looks, Copied, Aborted, Switches, IsOr, IsStop, IsOn, IsOff
  <2>6. Suits(x, b)
    BY <2>1 DEF Suits, Early, IsOr, IsOn, Switches
  <2>7. Begun(On(x, t), 3, b) /\ First(On(x, t)) = x /\ (HasStart(t) => HasStart(On(x, t)))
    BY <2>3, <2>4, <2>5, <2>6, Putting
  <2> QED BY <2>2, <2>3, <2>7
<1> QED BY <1>1, <1>2

\* The user copies a file.
LEMMA CopyJob ==
  ASSUME NEW a \in Copies, FtpInv, Copy(a)
  PROVE  FtpInv'
<1> DEFINE b == Call("copy", a)
           t1 == TargetOn(a, On(b, <<>>))
           t2 == OpenedOn(a, t1)
           t3 == Switch(a.from, "from", TRUE, t2)
           t4 == Switch(a.to, "to", TRUE, t3)
           u == On(Do("get_super"), On(Or(<<>>), t4))
<1>1. Job(<<Do("get_super"), Or(<<>>)>> \o Copying(a))
  BY DEF Copy
<1>2. Job(u)
  BY <1>1, CopyingIs
<1>3. b.call = "copy" /\ b.arg = a
  BY CallIs
<1>4. Begun(t1, 5, b) /\ First(t1).call \in {"find", "copy"} /\ (a.to = "ftp" => First(t1).call = "find")
  BY TargetBegins
<1> HIDE DEF b, t1
<1>5. Begun(t2, 3, b) /\ First(t2).call = "find" /\ (a.from = "ftp" => HasStart(t2))
  BY <1>3, <1>4, SourceBegins
<1> HIDE DEF t2
<1>6. Begun(t3, 3, b) /\ (IsOn(First(t3)) \/ First(t3).call = "find") /\ (HasStart(t2) => HasStart(t3))
  BY <1>3, <1>5, SwitchBegins DEF Dirs
<1> HIDE DEF t3
<1>7. Begun(t4, 3, b) /\ (IsOn(First(t4)) \/ First(t4).call = "find") /\ (HasStart(t3) => HasStart(t4))
  BY <1>3, <1>6, SwitchBegins DEF Dirs
<1> HIDE DEF t4
<1>8. Begun(u, 0, b) /\ First(u).call = "get_super" /\ (HasStart(u) <=> HasStart(t4))
  BY <1>7, JobHead
<1> HIDE DEF u
<1>9. b.arg.from = "ftp" => HasStart(u)
  BY <1>3, <1>5, <1>6, <1>7, <1>8
<1> QED BY <1>2, <1>3, <1>8, <1>9, Begins

\* The superblock is freed.
LEMMA Freed == FtpInv /\ ftpfs_free_archive => FtpInv'
<1> SUFFICES ASSUME FtpInv, ftpfs_free_archive PROVE FtpInv'
  OBVIOUS
<1>1. Idle
  BY DEF ftpfs_free_archive
<1>2. /\ Kinds /\ todo = <<>> /\ Nobody(src, dst, got, put) /\ ~ direct /\ ~ ctl_connection_busy
  BY <1>1, AtIdle
<1>3. /\ super' = None /\ use_passive_connection' = TRUE /\ strict' = "auto" /\ isbinary' = None /\ cwdir' = None
      /\ ctl_connection_busy' = FALSE /\ want_stale' = FALSE /\ listing' = Unknown /\ server' = Dead /\ data' = HangUp(data)
      /\ UNCHANGED <<todo, okay, saved, lines, src, dst, got, put, wanted, exact, ended, told, stored, harm>>
  BY DEF ftpfs_free_archive, copyVars
<1>4. data \in [Owner -> Pipes]
  BY <1>2 DEF Kinds, DataOK
<1>5. data' \in [Owner -> Pipes]
      /\ \A o \in Owner : data'[o].client = data[o].client /\ data'[o].flow = data[o].flow /\ data'[o].link # "open"
  BY <1>3, <1>4, Hung
<1>6. DOMAIN Dead = Fields /\ Dead.up = FALSE /\ Dead.logged = TRUE /\ Dead.binary = FALSE
  BY DEF Dead, Fresh, Fields
<1>7. /\ Dead.cmds = <<>> /\ Dead.xfer = None /\ Dead.ready = None /\ Dead.n = 0 /\ Dead.cwd = "home"
  BY DEF Dead, Fresh, Fields
<1>8. ServerOK'
  <2>1. Dead.up \in BOOLEAN /\ Dead.logged \in BOOLEAN /\ Dead.binary \in BOOLEAN
    BY <1>6
  <2>2. 0 \in 0..Blocks
    BY FtpfsAssumption
  <2> QED BY <1>3, <1>6, <1>7, <2>1, <2>2 DEF ServerOK
<1>9. SuperOK'
  <2>1. listing' \in [Dirs -> Dirs \cup {None, "home"}]
    BY <1>3 DEF Unknown
  <2>2. use_passive_connection' \in BOOLEAN /\ ctl_connection_busy' \in BOOLEAN /\ want_stale' \in BOOLEAN
    BY <1>3
  <2>3. ~ server'.up
    BY <1>3, <1>6
  <2> QED BY <1>2, <1>3, <2>1, <2>2, <2>3 DEF Kinds, SuperOK
<1>10. src' = None /\ None # "open"
  BY <1>2, <1>3, FtpfsAssumption DEF Nobody
<1>11. CopyOK'
  BY <1>2, <1>3, <1>10 DEF Kinds, CopyOK
<1>12. DataOK'
  BY <1>2, <1>3, <1>5 DEF Kinds, DataOK
<1>13. FlowOK'
  BY <1>3, <1>7, <1>10, FtpfsAssumption DEF FlowOK
<1>14. ~ direct'
  BY <1>2, <1>3, FtpfsAssumption DEF direct, Nobody
<1>15. todo' = <<>> /\ Nobody(src', dst', got', put') /\ ~ server'.up
  BY <1>2, <1>3, <1>6
<1> QED BY <1>8, <1>9, <1>11, <1>12, <1>13, <1>14, <1>15, GoIdle DEF Kinds

-----------------------------------------------------------------------------
(* The server *)

\* What is known while the server does something.
LEMMA AtServer ==
  ASSUME FtpInv, harm = None
  PROVE  LET c == First(todo)
             d == First(Rest(todo))
         IN /\ Kinds /\ Standing(todo, src, dst, got, put, poured)
            /\ Ends(todo, src, dst, got, put, direct, okay, super)
            /\ TopAt(c, d, server, ctl_connection_busy, direct, okay, answer, isbinary, cwdir)
            /\ FlowKnown(c, d, server, data, okay)
            /\ (c.call \in Connects => c.arg \in Requests)
            /\ (d.call \in Connects => d.arg \in Requests /\ (d.arg.owner = "src" => Nobody(src, dst, got, put)))
            /\ (d.call = "cwd_done" => d.arg \in Dirs) 
            /\ (c.call = "command" => ~ direct /\ (c.arg.name = "ABOR" => d.call = "aborting"))
<1> DEFINE c == First(todo)
           d == First(Rest(todo))
<1>1. /\ Kinds /\ Standing(todo, src, dst, got, put, poured) /\ Ends(todo, src, dst, got, put, direct, okay, super)
      /\ TopAt(c, d, server, ctl_connection_busy, direct, okay, answer, isbinary, cwdir)
      /\ FlowKnown(c, d, server, data, okay)
  BY StackSame, TopSame DEF FtpInv
<1>2. CASE todo = <<>>
  <2>1. c.call = "nothing" /\ d.call = "nothing"
    BY <1>2 DEF First, Rest, Do, Call
  <2> QED BY <1>1, <2>1 DEF Connects
<1>3. CASE todo # <<>>
  <2>1. IsStack(todo) /\ Head(todo) = c
    BY <1>1, <1>3, StackSplit DEF Standing, Shape
  <2>2. At(c.call)
    BY <1>3, <2>1 DEF At
  <2>3. CallOK(c)
    BY <2>2, AtTop
  <2>4. c.call = "command" => ~ direct /\ (c.arg.name = "ABOR" => d.call = "aborting")
    BY <2>1, <2>2, AtCommand DEF Arg
  <2>5. CASE Rest(todo) = <<>>
    <3>1. d.call = "nothing"
      BY <2>5 DEF First, Do, Call
    <3> QED BY <1>1, <2>3, <2>4, <3>1 DEF CallOK, Connects
  <2>6. CASE Rest(todo) # <<>>
    <3>1. CallOK(d) /\ Fits(d, src, dst, got, put, poured, Bottom(todo))
      BY <2>2, <2>6, Second
    <3>2. d.call \in Connects => d.arg \in Requests /\ (d.arg.owner = "src" => Nobody(src, dst, got, put))
      BY <3>1 DEF CallOK, Fits
    <3>3. d.call = "cwd_done" => d.arg \in Dirs
      BY <3>1 DEF CallOK, Looks
    <3> QED BY <1>1, <2>3, <2>4, <3>2, <3>3 DEF CallOK
  <2> QED BY <2>5, <2>6
<1> QED BY <1>2, <1>3

\* What the Commander keeps while the server does something.
Away == UNCHANGED <<todo, answer, okay, superVars, cacheVars, copyVars, jobs, harm>>

\* What has to be shown of a step of the server.
LEMMA Remoted ==
  ASSUME FtpInv, harm = None, Away, ServerOK', DataOK', FlowOK', server'.up => server.up,
         poured' \in Nat, poured' <= poured, data'["dst"].client = data["dst"].client,
         TopAt(First(todo), First(Rest(todo)), server', ctl_connection_busy, direct, okay, answer, isbinary, cwdir),
         FlowKnown(First(todo), First(Rest(todo)), server', data', okay)
  PROVE  FtpInv'
<1>1. /\ Kinds /\ Standing(todo, src, dst, got, put, poured) /\ Ends(todo, src, dst, got, put, direct, okay, super)
  BY AtServer
<1>2. UNCHANGED <<todo, answer, okay, super, isbinary, cwdir, ctl_connection_busy, src, dst, got, put, harm>>
  BY DEF Away, superVars, copyVars
<1>3. SuperOK' /\ CopyOK'
  <2>1. SuperOK'
    BY <1>1 DEF Kinds, SuperOK, Away, superVars, cacheVars, copyVars
  <2>2. CopyOK'
    BY <1>1 DEF Kinds, CopyOK, Away, superVars, copyVars
  <2> QED BY <2>1, <2>2
<1>4. Kinds'
  BY <1>3 DEF Kinds
<1>5. direct' = direct
  BY <1>2 DEF direct
<1>6. Standing(todo, src, dst, got, put, poured)'
  <2>1. Shape(todo) /\ AllFit(todo, src, dst, got, put, poured, Bottom(todo)) /\ poured \in Nat
    BY <1>1, Pour1 DEF Standing
  <2>2. AllFit(todo, src, dst, got, put, poured', Bottom(todo))
    BY <2>1, FitPour
  <2>3. Standing(todo, src, dst, got, put, poured')
    BY <2>1, <2>2 DEF Standing
  <2> QED BY <1>2, <2>3
<1>7. Ends(todo, src, dst, got, put, direct, okay, super)'
  BY <1>1, <1>2, <1>5
<1>8. TopAt(First(todo), First(Rest(todo)), server, ctl_connection_busy, direct, okay, answer, isbinary, cwdir)'
  BY <1>2, <1>5
<1>9. FlowKnown(First(todo), First(Rest(todo)), server, data, okay)'
  BY <1>2
<1> QED BY <1>4, <1>6, <1>7, <1>8, <1>9, Shown

\* What there is in the data connections grows less, or stays as it is.
Falls2(da, db) == \A o \in Owner : db[o].client = da[o].client /\ db[o].flow \in Nat /\ db[o].flow <= da[o].flow

\* What is known of the data connections stays known while less is in them.
LEMMA FlowFalls ==
  ASSUME NEW c, NEW d, NEW s, NEW t, NEW da, NEW db, NEW ok, FlowKnown(c, d, s, da, ok), Falls2(da, db),
         t.cmds # <<>> => s.cmds # <<>>, c.call \in Connects => c.arg \in Requests,
         d.call \in Connects => d.arg \in Requests, \A o \in Owner : da[o].flow \in Nat
  PROVE  FlowKnown(c, d, t, db, ok)
<1>1. /\ c.call \in Connects => c.arg.owner \in Owner
      /\ d.call \in Connects => d.arg.owner \in Owner
  BY Requested
<1>2. /\ c.call \in {"typed", "started"} => db[c.arg.owner].client = da[c.arg.owner].client
      /\ c.call \in {"typed", "started"} /\ da[c.arg.owner].flow = 0 => db[c.arg.owner].flow = 0
  BY <1>1 DEF Falls2, Connects
<1>3. /\ d.call \in {"typed", "started"} => db[d.arg.owner].client = da[d.arg.owner].client
      /\ d.call \in {"typed", "started"} /\ da[d.arg.owner].flow = 0 => db[d.arg.owner].flow = 0
  BY <1>1 DEF Falls2, Connects
<1>4. /\ da["src"].flow <= Blocks => db["src"].flow <= Blocks
      /\ db["dst"].client = da["dst"].client
  BY FtpfsAssumption DEF Falls2, Owner
<1> QED BY <1>2, <1>3, <1>4 DEF FlowKnown

\* What the server has to do and to say goes on as it was expected to.
Follows(s, t) ==
  /\ Quiet(s) => Quiet(t)
  /\ \A cmd : Owes(s, cmd) => Owes(t, cmd)
  /\ \A name, arg : name \notin Transfers /\ Asked(s, name, arg) => Asked(t, name, arg)
  /\ \A name, arg : name \in Transfers /\ AskedTransfer(s, name, arg) => AskedTransfer(t, name, arg)
  /\ Aborts(s) => Aborts(t)

\* Whatever was expected of the server is expected of it when it goes on so.
LEMMA Followed ==
  ASSUME NEW c, NEW d, NEW s, NEW t, NEW busy, NEW dir, NEW ok, NEW ans, Follows(s, t),
         Expected(c, d, s, busy, dir, ok, ans), d.call \in Connects => d.arg \in Requests
  PROVE  Expected(c, d, t, busy, dir, ok, ans)
<1>1. Rests(s, busy, dir) => Rests(t, busy, dir)
  BY DEF Rests, Follows
<1>2. Reading(d, s) => Reading(d, t)
  <2>1. d.call = "started" => d.arg.cmd \in Transfers
    BY Requested DEF Connects, CmdOf, Transfers
  <2> QED BY <2>1 DEF Reading, Follows, Transfers
<1>3. Asked(s, "ABOR", None) => Asked(t, "ABOR", None)
  BY DEF Follows, Transfers
<1> QED BY <1>1, <1>2, <1>3 DEF Expected, Follows

\* The session is the same, and knows the same.
Session(s, t) ==
  t.up = s.up /\ t.logged = s.logged /\ t.cwd = s.cwd /\ t.binary = s.binary /\ t.ready = s.ready

\* A transfer goes on, or ends.
LEMMA BusyTop ==
  ASSUME NEW c, NEW d, NEW s, NEW t, NEW busy, NEW dir, NEW ok, NEW ans, NEW isb, NEW cw,
         Follows(s, t), Session(s, t), s.xfer # None, TopAt(c, d, s, busy, dir, ok, ans, isb, cw),
         d.call \in Connects => d.arg \in Requests
  PROVE  TopAt(c, d, t, busy, dir, ok, ans, isb, cw)
<1> SUFFICES ASSUME t.up
             PROVE  /\ Expected(c, d, t, busy, dir, ok, ans) /\ TypeKnown(c, d, t, isb, ans)
                    /\ DirKnown(c, d, t, cw, ans) /\ ReadyKnown(c, d, t, ans)
  BY DEF TopAt
<1>1. /\ Expected(c, d, s, busy, dir, ok, ans) /\ TypeKnown(c, d, s, isb, ans)
      /\ DirKnown(c, d, s, cw, ans) /\ ReadyKnown(c, d, s, ans)
  BY DEF TopAt, Session
<1>2. c.call = "get_reply" => d.call \notin {"typed", "cwd_done", "port"}
  BY <1>1 DEF Expected, Reading, Asked, Waits, Answered, Silent
<1>3. (KnownType(s, isb) <=> KnownType(t, isb)) /\ (KnownDir(s, cw) <=> KnownDir(t, cw))
  BY DEF KnownType, KnownDir, Session
<1>4. Expected(c, d, t, busy, dir, ok, ans)
  BY <1>1, Followed
<1>5. TypeKnown(c, d, t, isb, ans)
  BY <1>1, <1>2, <1>3 DEF TypeKnown, Session
<1>6. DirKnown(c, d, t, cw, ans)
  BY <1>1, <1>2, <1>3 DEF DirKnown, Session
<1>7. ReadyKnown(c, d, t, ans)
  BY <1>1, <1>2 DEF ReadyKnown, Session
<1> QED BY <1>4, <1>5, <1>6, <1>7

\* The server has neither done nor said anything.
LEMMA SameFollows ==
  ASSUME NEW s, NEW t, t.cmds = s.cmds, t.replies = s.replies, t.xfer = s.xfer, t.task = s.task
  PROVE  Follows(s, t)
BY DEF Follows, Quiet, Owes, Running, Asked, AskedTransfer, Aborts, Waits, Answered, Silent

\* The server says something.
LEMMA ReplyAdds ==
  ASSUME NEW s, NEW name, NEW class, DOMAIN s = Fields
  PROVE  LET t == Reply(s, name, class)
         IN /\ DOMAIN t = Fields /\ Session(s, t) /\ t.cmds = s.cmds /\ t.xfer = s.xfer /\ t.task = s.task /\ t.n = s.n
            /\ t.replies = Append(s.replies, ReplyTo(name, class))
BY DEF Reply, Session, Fields, ReplyTo

\* The transfer has ended, and the reply says so.
LEMMA FinishFollows ==
  ASSUME NEW s, NEW t, NEW k \in Finals, s.xfer # None, t.cmds = s.cmds, t.xfer = None,
         t.replies = Append(s.replies, ReplyTo(s.task, k))
  PROVE  Follows(s, t)
<1>1. ASSUME NEW cmd, Running(s, cmd) PROVE Running(t, cmd)
  <2>1. s.task = cmd /\ s.replies = <<>>
    BY <1>1 DEF Running
  <2>2. t.replies = Single(ReplyTo(cmd, k))
    BY <2>1, SingleIs
  <2> QED BY <2>2 DEF Running
<1>2. \A cmd : Owes(s, cmd) => Owes(t, cmd)
  BY <1>1 DEF Owes, Quiet
<1>3. ASSUME NEW name, NEW arg, AskedTransfer(s, name, arg) PROVE AskedTransfer(t, name, arg)
  <2>1. s.cmds = <<>> /\ s.task = name /\ s.replies = Single(ReplyTo(name, "PRELIM"))
    BY <1>3 DEF AskedTransfer, Waits, Silent
  <2>2. t.replies = Pair(ReplyTo(name, "PRELIM"), ReplyTo(name, k))
    BY <2>1, SingleIs
  <2>3. Silent(t)
    BY <2>1 DEF Silent
  <2> QED BY <2>2, <2>3 DEF AskedTransfer
<1>4. Aborts(s) => Aborts(t)
  BY <1>1 DEF Aborts, Answered, Silent
<1>5. ~ Quiet(s) /\ \A name, arg : ~ Asked(s, name, arg)
  BY DEF Quiet, Asked, Waits, Answered, Silent
<1> QED BY <1>2, <1>3, <1>4, <1>5 DEF Follows

\* The transfer was cut short by ABOR.
LEMMA AbortFollows ==
  ASSUME NEW s, NEW t, s.xfer # None, s.cmds # <<>>, t.cmds = Tail(s.cmds), t.xfer = None,
         t.replies = Append(Append(s.replies, ReplyTo(s.task, "ABORTED")), ReplyTo("ABOR", "COMPLETE"))
  PROVE  Follows(s, t)
<1>1. ASSUME Aborts(s) PROVE Aborts(t)
  <2>1. s.cmds = Single(Command("ABOR", None)) /\ s.task = "RETR" /\ s.replies = <<>>
    BY <1>1 DEF Aborts, Running, Answered, Silent
  <2>2. t.cmds = <<>>
    BY <2>1, SingleIs
  <2>3. t.replies = Pair(ReplyTo("RETR", "ABORTED"), ReplyTo("ABOR", "COMPLETE"))
    <3> DEFINE x == ReplyTo("RETR", "ABORTED")
               y == ReplyTo("ABOR", "COMPLETE")
    <3>1. t.replies = Append(Append(<<>>, x), y)
      BY <2>1
    <3> HIDE DEF x, y
    <3>2. Append(<<>>, x) = Single(x) /\ Append(Single(x), y) = Pair(x, y)
      BY SingleIs
    <3>3. t.replies = Pair(x, y)
      BY <3>1, <3>2
    <3> QED BY <3>3 DEF x, y
  <2>4. Silent(t)
    BY <2>2 DEF Silent
  <2> QED BY <2>3, <2>4 DEF Aborts, Finals
<1>2. ~ Quiet(s) /\ \A cmd : ~ Owes(s, cmd)
  BY DEF Quiet, Owes
<1>3. \A name, arg : ~ Asked(s, name, arg) /\ ~ AskedTransfer(s, name, arg)
  BY DEF Asked, AskedTransfer, Waits, Answered, Silent
<1> QED BY <1>1, <1>2, <1>3 DEF Follows

\* One data connection changes.
LEMMA Renewal ==
  ASSUME Kinds, NEW o \in Owner, NEW new \in Pipes, Renews(o, new)
  PROVE  data' \in [Owner -> Pipes] /\ data'[o] = new /\ \A k \in Owner : k # o => data'[k] = data[k]
BY DEF Kinds, DataOK, Renews

\* What is known while the server is busy with a transfer.
LEMMA AtBusy ==
  ASSUME Kinds, Busy
  PROVE  LET o == server.xfer IN
         /\ server.up /\ o \in Owner /\ o # None /\ DOMAIN server = Fields /\ server.task = CmdOf(o)
         /\ data \in [Owner -> Pipes] /\ data[o] \in Pipes /\ data[o].flow \in 0..Cap /\ data[o].client \in BOOLEAN
         /\ (server.task = "STOR" <=> o = "dst") /\ Blocks \in Nat \ {0} /\ Cap \in Nat /\ server.n \in 0..Blocks
         /\ \A k \in Owner : data[k].flow \in Nat
<1>1. /\ server.up /\ server.xfer \in Owner /\ server.xfer # None /\ DOMAIN server = Fields
      /\ server.task = CmdOf(server.xfer) /\ data \in [Owner -> Pipes] /\ server.n \in 0..Blocks
  BY DEF Kinds, ServerOK, DataOK, FlowOK, Busy
<1>2. data[server.xfer] \in Pipes
  BY <1>1
<1>3. data[server.xfer].flow \in 0..Cap /\ data[server.xfer].client \in BOOLEAN
  BY <1>2 DEF Pipes
<1>4. server.task = "STOR" <=> server.xfer = "dst"
  BY <1>1 DEF CmdOf, Owner
<1>5. \A k \in Owner : data[k].flow \in Nat
  BY Pour1
<1> QED BY <1>1, <1>2, <1>3, <1>4, <1>5, FtpfsAssumption

\* A step of a transfer that goes on.
LEMMA GoesOn ==
  ASSUME FtpInv, harm = None, Away, Busy, DataOK', FlowOK', poured' \in Nat, poured' <= poured,
         server' = server \/ (server.n + 1 \in 0..Blocks /\ server' = [server EXCEPT !.n = @ + 1]),
         data'["dst"].client = data["dst"].client,
         FlowKnown(First(todo), First(Rest(todo)), server', data', okay)
  PROVE  FtpInv'
<1>1. /\ Kinds /\ TopAt(First(todo), First(Rest(todo)), server, ctl_connection_busy, direct, okay, answer, isbinary, cwdir)
      /\ (First(Rest(todo)).call \in Connects => First(Rest(todo)).arg \in Requests)
  BY AtServer
<1>2. server.xfer # None /\ DOMAIN server = Fields
  BY <1>1, AtBusy
<1>3. /\ DOMAIN server' = Fields /\ Session(server, server') /\ server'.cmds = server.cmds
      /\ server'.replies = server.replies /\ server'.xfer = server.xfer /\ server'.task = server.task
      /\ (server'.n = server.n \/ (server.n + 1 \in 0..Blocks /\ server'.n = server.n + 1))
  BY <1>2 DEF Session, Fields
<1>4. Follows(server, server')
  BY <1>3, SameFollows
<1>5. TopAt(First(todo), First(Rest(todo)), server', ctl_connection_busy, direct, okay, answer, isbinary, cwdir)
  BY <1>1, <1>2, <1>3, <1>4, BusyTop
<1>6. ServerOK'
  BY <1>1, <1>3 DEF Kinds, ServerOK, Session
<1>7. server'.up => server.up
  BY <1>3 DEF Session
<1> QED BY <1>5, <1>6, <1>7, Remoted

\* The server makes the connection.
LEMMA Connected == FtpInv /\ Remote(Connect) => FtpInv'
<1> SUFFICES ASSUME FtpInv, Remote(Connect) PROVE FtpInv'
  OBVIOUS
<1> DEFINE o == server.xfer
           new == [data[o] EXCEPT !.link = "open"]
<1>1. Kinds /\ Busy /\ harm = None /\ Away /\ server' = server /\ stored' = stored
  BY AtServer DEF Remote, Connect, Away
<1>2. /\ o \in Owner /\ data[o] \in Pipes /\ server.up /\ \A k \in Owner : data[k].flow \in Nat
  BY <1>1, AtBusy
<1>3. new \in Pipes /\ new.client = data[o].client /\ new.flow = data[o].flow
  BY <1>2 DEF Pipes
<1>4. Renews(o, new)
  BY DEF Remote, Connect, Renews
<1> HIDE DEF new, o
<1>5. data' \in [Owner -> Pipes] /\ data'[o] = new /\ \A k \in Owner : k # o => data'[k] = data[k]
  BY <1>1, <1>2, <1>3, <1>4, Renewal
<1>6. \A k \in Owner : data'[k].client = data[k].client /\ data'[k].flow = data[k].flow
  BY <1>3, <1>5
<1>7. /\ data'["src"].flow = data["src"].flow /\ data'["dst"].flow = data["dst"].flow
      /\ data'["dst"].client = data["dst"].client
  BY <1>6 DEF Owner
<1>8. DataOK'
  BY <1>1, <1>2, <1>5 DEF Kinds, DataOK
<1>9. UNCHANGED <<src, got, put>>
  BY <1>1 DEF Away, copyVars
<1>10. FlowOK'
  BY <1>1, <1>7, <1>9 DEF Kinds, FlowOK
<1>11. poured' = poured /\ poured \in Nat
  BY <1>1, <1>7, Pour1 DEF poured
<1>12. FlowKnown(First(todo), First(Rest(todo)), server', data', okay)
  <2>1. Falls2(data, data')
    BY <1>2, <1>6 DEF Falls2
  <2> QED BY <1>1, <1>2, <2>1, AtServer, FlowFalls
<1>13. poured' \in Nat /\ poured' <= poured
  BY <1>11
<1> QED BY <1>1, <1>7, <1>8, <1>10, <1>12, <1>13, GoesOn

\* The server takes a block of the target.
LEMMA Received1 == FtpInv /\ Remote(Receive) => FtpInv'
<1> SUFFICES ASSUME FtpInv, Remote(Receive) PROVE FtpInv'
  OBVIOUS
<1> DEFINE o == server.xfer
           new == [data[o] EXCEPT !.flow = @ - 1]
<1>1. /\ Kinds /\ Busy /\ harm = None /\ Away /\ server' = server /\ server.task = "STOR" /\ data[o].flow > 0
      /\ stored' = [stored EXCEPT !.n = @ + 1] /\ data' = [data EXCEPT ![o].flow = @ - 1]
  BY AtServer DEF Remote, Receive, Away, Take
<1>2. /\ o = "dst" /\ o \in Owner /\ data[o] \in Pipes /\ data[o].flow \in 0..Cap /\ server.up
      /\ \A k \in Owner : data[k].flow \in Nat
  BY <1>1, AtBusy
<1>3. data[o].flow - 1 \in 0..Cap /\ Cap \in Nat
  BY <1>1, <1>2, FtpfsAssumption
<1>4. new \in Pipes /\ new.client = data[o].client /\ new.flow = data[o].flow - 1
  BY <1>2, <1>3 DEF Pipes
<1>5. Renews(o, new)
  BY <1>1 DEF Renews
<1> HIDE DEF new
<1>6. data' \in [Owner -> Pipes] /\ data'[o] = new /\ \A k \in Owner : k # o => data'[k] = data[k]
  BY <1>1, <1>2, <1>4, <1>5, Renewal
<1>7. /\ data'["src"] = data["src"] /\ data'["dst"].flow = data["dst"].flow - 1
      /\ data'["dst"].client = data["dst"].client /\ data'["dst"].flow \in Nat
  BY <1>1, <1>2, <1>3, <1>4, <1>6 DEF Owner
<1>8. UNCHANGED <<src, got, put>> /\ put \in 0..Blocks /\ Blocks \in Nat
  BY <1>1, FtpfsAssumption DEF Away, copyVars, Kinds, CopyOK
<1>9. /\ stored \in [n : 0..Blocks, binary : BOOLEAN] /\ stored.n + data["dst"].flow <= put
  BY <1>1, <1>2 DEF Kinds, FlowOK
<1>10. stored.n \in Nat /\ stored.n + 1 \in 0..Blocks
  BY <1>1, <1>2, <1>8, <1>9
<1>11. stored' \in [n : 0..Blocks, binary : BOOLEAN] /\ stored'.n = stored.n + 1
  BY <1>1, <1>9, <1>10
<1>12. stored'.n + data'["dst"].flow = stored.n + data["dst"].flow
  BY <1>1, <1>2, <1>7, <1>10, <1>11
<1>13. DataOK'
  BY <1>1, <1>2, <1>6, <1>11 DEF Kinds, DataOK
<1>14. FlowOK'
  BY <1>1, <1>2, <1>7, <1>8, <1>9, <1>11, <1>12 DEF Kinds, FlowOK
<1>15. poured' = poured /\ poured \in Nat
  <2>1. poured = stored.n + data["dst"].flow /\ poured' = stored'.n + data'["dst"].flow
    BY <1>1, <1>2 DEF poured
  <2> QED BY <1>1, <1>12, <2>1, Pour1
<1>16. FlowKnown(First(todo), First(Rest(todo)), server', data', okay)
  <2>1. Falls2(data, data')
    BY <1>1, <1>2, <1>3, <1>4, <1>6 DEF Falls2
  <2> QED BY <1>1, <1>2, <2>1, AtServer, FlowFalls
<1>17. poured' \in Nat /\ poured' <= poured
  BY <1>15
<1> QED BY <1>1, <1>7, <1>13, <1>14, <1>16, <1>17, GoesOn

\* The server sends a block.
LEMMA Sent1 == FtpInv /\ Remote(Send) => FtpInv'
<1> SUFFICES ASSUME FtpInv, Remote(Send) PROVE FtpInv'
  OBVIOUS
<1> DEFINE o == server.xfer
           new == [data[o] EXCEPT !.flow = @ + 1]
           c == First(todo)
           d == First(Rest(todo))
<1>1. /\ Kinds /\ Busy /\ harm = None /\ Away /\ server.task # "STOR" /\ server.n < Size /\ data[o].flow < Cap
      /\ data' = [data EXCEPT ![o].flow = @ + 1] /\ server' = [server EXCEPT !.n = @ + 1] /\ stored' = stored
  BY AtServer DEF Remote, Send, Away
<1>2. /\ o \in {"src", "list"} /\ o \in Owner /\ o # None /\ data[o] \in Pipes /\ data[o].flow \in 0..Cap /\ server.up
      /\ \A k \in Owner : data[k].flow \in Nat
      /\ Blocks \in Nat \ {0} /\ Cap \in Nat /\ server.n \in 0..Blocks /\ DOMAIN server = Fields /\ server.task = CmdOf(o)
  BY <1>1, AtBusy DEF Owner
<1>3. server.n + 1 \in 0..Blocks
  <2>1. server.n < Blocks
    BY <1>1, <1>2 DEF Size
  <2> QED BY <1>2, <2>1
<1>4. data[o].flow + 1 \in 0..Cap
  BY <1>1, <1>2
<1>5. new \in Pipes /\ new.client = data[o].client /\ new.flow = data[o].flow + 1
  BY <1>2, <1>4 DEF Pipes
<1>6. Renews(o, new)
  BY <1>1 DEF Renews
<1> HIDE DEF new
<1>7. data' \in [Owner -> Pipes] /\ data'[o] = new /\ \A k \in Owner : k # o => data'[k] = data[k]
  BY <1>1, <1>2, <1>5, <1>6, Renewal
<1>8. \A k \in Owner : data'[k].client = data[k].client
  BY <1>5, <1>7
<1>9. data'["dst"] = data["dst"] /\ data'["src"].flow \in Nat /\ data["src"].flow \in Nat
  BY <1>2, <1>5, <1>7 DEF Owner
<1>10. /\ server'.xfer = o /\ server'.task = server.task /\ server'.n = server.n + 1 /\ server'.cmds = server.cmds
       /\ server'.up = server.up /\ server'.ready = server.ready
  BY <1>1, <1>2 DEF Fields
<1>11. UNCHANGED <<src, got, put>> /\ got \in 0..Blocks
  BY <1>1 DEF Away, copyVars, Kinds, CopyOK
<1>12. o = "src" => got + data'["src"].flow <= server'.n
  <2>1. o = "src" => got + data["src"].flow <= server.n /\ data'["src"].flow = data["src"].flow + 1
    BY <1>1, <1>5, <1>7, <1>2 DEF Kinds, FlowOK
  <2> QED BY <1>2, <1>9, <1>10, <1>11, <2>1
<1>13. o = "src" => got + data'["src"].flow <= Blocks /\ data'["src"].flow <= Blocks
  BY <1>2, <1>3, <1>9, <1>10, <1>11, <1>12
<1>14. o # "src" => data'["src"] = data["src"]
  BY <1>7 DEF Owner
<1>15. DataOK'
  BY <1>1, <1>2, <1>7, <1>10 DEF Kinds, DataOK
<1>16. FlowOK'
  BY <1>1, <1>2, <1>9, <1>10, <1>11, <1>12, <1>13, <1>14 DEF Kinds, FlowOK
<1>17. poured' = 0 /\ poured = 0
  BY <1>2, <1>10 DEF poured
<1>18. FlowKnown(c, d, server', data', okay)
  <2>1. /\ TopAt(c, d, server, ctl_connection_busy, direct, okay, answer, isbinary, cwdir)
        /\ FlowKnown(c, d, server, data, okay)
        /\ (c.call \in Connects => c.arg \in Requests)
        /\ (d.call \in Connects => d.arg \in Requests /\ (d.arg.owner = "src" => Nobody(src, dst, got, put)))
        /\ (c.call = "command" => ~ direct /\ (c.arg.name = "ABOR" => d.call = "aborting"))
    BY <1>1, AtServer
  <2> HIDE DEF c, d
  <2>2. Expected(c, d, server, ctl_connection_busy, direct, okay, answer)
    BY <1>2, <2>1 DEF TopAt
  <2>3. ~ Quiet(server)
    BY <1>2 DEF Quiet
  <2>4. c.call # "typed" /\ ~ (c.call = "get_reply" /\ d.call = "typed")
    BY <1>2, <2>2, <2>3 DEF Expected, Calm, Reading, Asked, Waits, Answered, Silent
  <2>5. c.call = "get_reply" /\ d.call = "started" => server.cmds = <<>>
    BY <1>2, <2>2 DEF Expected, Reading, AskedTransfer, Waits, Silent
  <2>6. ASSUME c.call = "command", d.call \in {"typed", "started"}
        PROVE  d.arg.owner \in Owner /\ d.arg.owner # o
    <3>1. Rests(server, ctl_connection_busy, direct) /\ ~ direct
      BY <2>1, <2>2, <2>6 DEF Expected
    <3>2. ctl_connection_busy
      BY <2>3, <3>1 DEF Rests
    <3>3. src = "open" /\ Owes(server, "RETR")
      BY <1>1, <3>1, <3>2 DEF Rests, Kinds, CopyOK
    <3>4. server.task = "RETR"
      BY <1>2, <2>3, <3>3 DEF Owes, Running
    <3>5. o = "src"
      BY <1>2, <3>4 DEF CmdOf
    <3>6. d.arg.owner # "src"
      BY <2>1, <2>6, <3>3, FtpfsAssumption DEF Nobody, Connects
    <3>7. d.arg.owner \in Owner
      BY <2>1, <2>6, Requested DEF Connects
    <3> QED BY <3>5, <3>6, <3>7
  <2>7. c.call = "command" /\ d.call \in {"typed", "started"} => data'[d.arg.owner] = data[d.arg.owner]
    BY <1>7, <2>6
  <2>8. data["src"].flow <= Blocks => data'["src"].flow <= Blocks
    BY <1>13, <1>14
  <2>9. /\ c.call = "started" => data'[c.arg.owner].client = data[c.arg.owner].client
        /\ d.call = "started" => data'[d.arg.owner].client = data[d.arg.owner].client
    BY <1>8, <2>1, Requested DEF Connects
  <2> QED BY <1>9, <1>10, <2>1, <2>4, <2>5, <2>7, <2>8, <2>9 DEF FlowKnown
<1>19. poured' \in Nat /\ poured' <= poured /\ data'["dst"].client = data["dst"].client
  BY <1>9, <1>17
<1> QED BY <1>1, <1>3, <1>15, <1>16, <1>18, <1>19, GoesOn

\* What the data connections are when a transfer has ended.
LEMMA Hanged ==
  ASSUME Kinds, Busy, NEW link \in {"closed", "broken"}, Hang(link)
  PROVE  /\ data' \in [Owner -> Pipes] /\ Falls2(data, data') /\ data'["dst"].client = data["dst"].client
         /\ data'["src"].flow \in Nat /\ data["src"].flow \in Nat /\ data'["src"].flow <= data["src"].flow
<1> DEFINE o == server.xfer
           new == [data[o] EXCEPT !.link = link, !.flow = IF link = "broken" THEN 0 ELSE @]
<1>1. /\ o \in Owner /\ data[o] \in Pipes /\ data[o].flow \in 0..Cap /\ Cap \in Nat /\ data \in [Owner -> Pipes]
      /\ \A k \in Owner : data[k].flow \in Nat
  BY AtBusy
<1>2. /\ new \in Pipes /\ new.client = data[o].client
      /\ new.flow = IF link = "broken" THEN 0 ELSE data[o].flow
  <2>1. (IF link = "broken" THEN 0 ELSE data[o].flow) \in 0..Cap
    BY <1>1
  <2> QED BY <1>1, <2>1 DEF Pipes
<1>3. new.flow \in Nat /\ new.flow <= data[o].flow
  BY <1>1, <1>2
<1>4. Renews(o, new)
  BY <1>1 DEF Hang, Renews
<1> HIDE DEF new
<1>5. data' \in [Owner -> Pipes] /\ data'[o] = new /\ \A k \in Owner : k # o => data'[k] = data[k]
  BY <1>1, <1>2, <1>4, Renewal
<1>6. Falls2(data, data')
  BY <1>1, <1>2, <1>3, <1>5 DEF Falls2
<1> QED BY <1>1, <1>5, <1>6 DEF Falls2, Owner

\* A transfer has ended.
LEMMA EndsTransfer ==
  ASSUME FtpInv, harm = None, Away, Busy, NEW link \in {"closed", "broken"}, Hang(link), stored' = stored,
         Follows(server, server'), Session(server, server'), DOMAIN server' = Fields, server'.xfer = None, server'.n = 0,
         server'.cmds # <<>> => server.cmds # <<>>
  PROVE  FtpInv'
<1>1. /\ Kinds /\ TopAt(First(todo), First(Rest(todo)), server, ctl_connection_busy, direct, okay, answer, isbinary, cwdir)
      /\ FlowKnown(First(todo), First(Rest(todo)), server, data, okay)
      /\ (First(todo).call \in Connects => First(todo).arg \in Requests)
      /\ (First(Rest(todo)).call \in Connects => First(Rest(todo)).arg \in Requests)
  BY AtServer
<1>2. server.xfer # None /\ server.up /\ Blocks \in Nat /\ \A k \in Owner : data[k].flow \in Nat
  BY <1>1, AtBusy
<1>3. /\ data' \in [Owner -> Pipes] /\ Falls2(data, data') /\ data'["dst"].client = data["dst"].client
      /\ data'["src"].flow \in Nat /\ data["src"].flow \in Nat /\ data'["src"].flow <= data["src"].flow
  BY <1>1, Hanged
<1>4. TopAt(First(todo), First(Rest(todo)), server', ctl_connection_busy, direct, okay, answer, isbinary, cwdir)
  BY <1>1, <1>2, BusyTop
<1>5. FlowKnown(First(todo), First(Rest(todo)), server', data', okay)
  BY <1>1, <1>2, <1>3, FlowFalls
<1>6. server'.up
  BY <1>2 DEF Session
<1>7. ServerOK'
  <2>1. 0 \in 0..Blocks
    BY <1>2
  <2> QED BY <1>1, <1>6, <2>1 DEF Kinds, ServerOK, Session
<1>8. DataOK'
  BY <1>1, <1>3, <1>6 DEF Kinds, DataOK
<1>9. src' = src /\ got' = got /\ got \in Nat
  BY <1>1, FtpfsAssumption DEF Away, copyVars, Kinds, CopyOK
<1>10. FlowOK'
  <2>1. src = "open" => got + data'["src"].flow <= Blocks
    BY <1>1, <1>2, <1>3, <1>9 DEF Kinds, FlowOK
  <2> QED BY <1>9, <2>1, FtpfsAssumption DEF FlowOK
<1>11. poured' = 0 /\ poured \in Nat
  BY <1>1, FtpfsAssumption, Pour1 DEF poured
<1>12. poured' \in Nat /\ poured' <= poured
  BY <1>11
<1> QED BY <1>2, <1>3, <1>4, <1>5, <1>7, <1>8, <1>10, <1>12, Remoted

\* The server ends a transfer, and says so.
LEMMA Finished ==
  ASSUME Kinds, Busy, NEW k \in Finals, Finish(k)
  PROVE  /\ Follows(server, server') /\ Session(server, server') /\ DOMAIN server' = Fields
         /\ server'.xfer = None /\ server'.n = 0 /\ server'.cmds = server.cmds
<1> DEFINE s == [server EXCEPT !.xfer = None, !.task = None, !.n = 0]
<1>1. DOMAIN server = Fields /\ server.xfer # None
  BY AtBusy
<1>2. /\ DOMAIN s = Fields /\ Session(server, s) /\ s.cmds = server.cmds /\ s.replies = server.replies
      /\ s.xfer = None /\ s.n = 0
  BY <1>1 DEF Session, Fields
<1>3. server' = Reply(s, server.task, k)
  BY DEF Finish
<1> HIDE DEF s
<1>4. /\ DOMAIN server' = Fields /\ Session(s, server') /\ server'.cmds = s.cmds /\ server'.xfer = s.xfer
      /\ server'.n = s.n /\ server'.replies = Append(s.replies, ReplyTo(server.task, k))
  BY <1>2, <1>3, ReplyAdds
<1>5. Session(server, server')
  BY <1>2, <1>4 DEF Session
<1>6. Follows(server, server')
  BY <1>1, <1>2, <1>4, FinishFollows
<1> QED BY <1>2, <1>4, <1>5, <1>6

\* A transfer ends, well or not.
LEMMA Ended1 == FtpInv /\ (Remote(End) \/ Remote(Fail)) => FtpInv'
<1> SUFFICES ASSUME FtpInv, Remote(End) \/ Remote(Fail) PROVE FtpInv'
  OBVIOUS
<1>1. Busy /\ harm = None /\ Away /\ stored' = stored
  BY DEF Remote, End, Fail, Away
<1>2. Kinds
  BY <1>1, AtServer
<1>3. PICK link \in {"closed", "broken"}, k \in Finals : Hang(link) /\ Finish(k)
  BY DEF Remote, End, Fail, Finals
<1>4. /\ Follows(server, server') /\ Session(server, server') /\ DOMAIN server' = Fields
      /\ server'.xfer = None /\ server'.n = 0 /\ server'.cmds = server.cmds
  BY <1>1, <1>2, <1>3, Finished
<1> QED BY <1>1, <1>3, <1>4, EndsTransfer

\* The server obeys ABOR while it is busy with a transfer.
LEMMA Aborted2 == FtpInv /\ Remote(Abort) => FtpInv'
<1> SUFFICES ASSUME FtpInv, Remote(Abort) PROVE FtpInv'
  OBVIOUS
<1> DEFINE s == [server EXCEPT !.cmds = Tail(@), !.xfer = None, !.task = None, !.n = 0]
           t == Reply(s, server.task, "ABORTED")
<1>1. /\ Busy /\ harm = None /\ Away /\ stored' = stored /\ server.cmds # <<>> /\ Hang("closed")
      /\ server' = Reply(t, "ABOR", "COMPLETE")
  BY DEF Remote, Abort, Away
<1>2. Kinds
  BY <1>1, AtServer
<1>3. DOMAIN server = Fields /\ server.xfer # None
  BY <1>1, <1>2, AtBusy
<1>4. /\ DOMAIN s = Fields /\ Session(server, s) /\ s.cmds = Tail(server.cmds) /\ s.replies = server.replies
      /\ s.xfer = None /\ s.n = 0
  BY <1>3 DEF Session, Fields
<1> HIDE DEF s
<1>5. /\ DOMAIN t = Fields /\ Session(s, t) /\ t.cmds = s.cmds /\ t.xfer = s.xfer
      /\ t.n = s.n /\ t.replies = Append(s.replies, ReplyTo(server.task, "ABORTED"))
  BY <1>4, ReplyAdds
<1> HIDE DEF t
<1>6. /\ DOMAIN server' = Fields /\ Session(t, server') /\ server'.cmds = t.cmds /\ server'.xfer = t.xfer
      /\ server'.n = t.n /\ server'.replies = Append(t.replies, ReplyTo("ABOR", "COMPLETE"))
  BY <1>1, <1>5, ReplyAdds
<1>7. Session(server, server')
  BY <1>4, <1>5, <1>6 DEF Session
<1>8. server'.cmds = Tail(server.cmds) /\ server'.xfer = None /\ server'.n = 0
  BY <1>4, <1>5, <1>6
<1>9. server'.replies = Append(Append(server.replies, ReplyTo(server.task, "ABORTED")), ReplyTo("ABOR", "COMPLETE"))
  BY <1>4, <1>5, <1>6
<1>10. Follows(server, server')
  BY <1>1, <1>3, <1>8, <1>9, AbortFollows
<1> QED BY <1>1, <1>6, <1>7, <1>8, <1>10, EndsTransfer

\* The session is gone.
LEMMA Dropped == FtpInv /\ Remote(Drop) => FtpInv'
<1> SUFFICES ASSUME FtpInv, Remote(Drop) PROVE FtpInv'
  OBVIOUS
<1>1. /\ harm = None /\ Away /\ stored' = stored /\ data' = HangUp(data)
      /\ server' = [Dead EXCEPT !.replies = server.replies]
  BY DEF Remote, Drop, Away
<1>2. /\ Kinds /\ FlowKnown(First(todo), First(Rest(todo)), server, data, okay)
      /\ (First(todo).call \in Connects => First(todo).arg \in Requests)
      /\ (First(Rest(todo)).call \in Connects => First(Rest(todo)).arg \in Requests)
  BY <1>1, AtServer
<1>3. /\ DOMAIN server' = Fields /\ server'.up = FALSE /\ server'.logged = TRUE /\ server'.binary = FALSE
  BY <1>1 DEF Dead, Fresh, Fields
<1>4. server'.cmds = <<>> /\ server'.xfer = None /\ server'.ready = None /\ server'.n = 0 /\ server'.cwd = "home"
  BY <1>1 DEF Dead, Fresh, Fields
<1>5. data \in [Owner -> Pipes] /\ \A k \in Owner : data[k].flow \in Nat
  BY <1>2, Pour1 DEF Kinds, DataOK
<1>6. data' \in [Owner -> Pipes]
      /\ \A o \in Owner : data'[o].client = data[o].client /\ data'[o].flow = data[o].flow /\ data'[o].link # "open"
  BY <1>1, <1>5, Hung
<1>7. data'["src"].flow = data["src"].flow /\ data'["dst"].client = data["dst"].client
  BY <1>6 DEF Owner
<1>8. ServerOK'
  <2>1. server'.up \in BOOLEAN /\ server'.logged \in BOOLEAN /\ server'.binary \in BOOLEAN
    BY <1>3
  <2>2. 0 \in 0..Blocks
    BY FtpfsAssumption
  <2> QED BY <1>3, <1>4, <2>1, <2>2 DEF ServerOK
<1>9. DataOK'
  BY <1>1, <1>2, <1>6 DEF Kinds, DataOK
<1>10. FlowOK'
  <2>1. src' = src /\ got' = got
    BY <1>1 DEF Away, copyVars
  <2> QED BY <1>2, <1>4, <1>7, <2>1, FtpfsAssumption DEF Kinds, FlowOK
<1>11. poured' = 0 /\ poured \in Nat
  BY <1>2, <1>4, FtpfsAssumption, Pour1 DEF poured
<1>12. TopAt(First(todo), First(Rest(todo)), server', ctl_connection_busy, direct, okay, answer, isbinary, cwdir)
  BY <1>3 DEF TopAt
<1>13. FlowKnown(First(todo), First(Rest(todo)), server', data', okay)
  <2>1. Falls2(data, data')
    BY <1>5, <1>6 DEF Falls2
  <2> QED BY <1>2, <1>4, <1>5, <2>1, FlowFalls
<1>14. poured' \in Nat /\ poured' <= poured /\ ~ server'.up
  BY <1>3, <1>11
<1> QED BY <1>1, <1>7, <1>8, <1>9, <1>10, <1>12, <1>13, <1>14, Remoted

\* The server has carried out a command, or refused it.
LEMMA AnswerFollows ==
  ASSUME NEW s, NEW t, NEW k \in {"COMPLETE", "FAILED"}, s.xfer = None, s.cmds # <<>>, t.cmds = Tail(s.cmds),
         t.xfer = None, t.replies = Append(s.replies, ReplyTo(Head(s.cmds).name, k)),
         k = "FAILED" \/ Head(s.cmds).name \notin Transfers
  PROVE  Follows(s, t)
<1>1. ASSUME NEW name, NEW arg, Waits(s, name, arg)
      PROVE  Silent(t) /\ t.replies = Single(ReplyTo(name, k)) /\ name = Head(s.cmds).name
  <2>1. s.cmds = Single(Command(name, arg)) /\ s.replies = <<>>
    BY <1>1 DEF Waits
  <2>2. Tail(s.cmds) = <<>> /\ Head(s.cmds) = Command(name, arg)
    BY <2>1, SingleIs
  <2>3. Head(s.cmds).name = name
    BY <2>2 DEF Command
  <2>4. t.replies = Single(ReplyTo(name, k))
    BY <2>1, <2>3, SingleIs
  <2> QED BY <2>2, <2>3, <2>4 DEF Silent
<1>2. ASSUME NEW name, NEW arg, Asked(s, name, arg) PROVE Asked(t, name, arg)
  BY <1>1, <1>2 DEF Asked, Answered, Silent
<1>3. ASSUME NEW name, NEW arg, name \in Transfers, AskedTransfer(s, name, arg) PROVE AskedTransfer(t, name, arg)
  <2>1. Waits(s, name, arg)
    BY <1>3 DEF AskedTransfer, Silent
  <2>2. Silent(t) /\ t.replies = Single(ReplyTo(name, "FAILED"))
    BY <1>1, <1>3, <2>1
  <2> QED BY <2>2 DEF AskedTransfer
<1>4. ASSUME Aborts(s) PROVE Aborts(t)
  <2>1. s.cmds = Single(Command("ABOR", None)) /\ (s.replies = <<>> \/ Running(s, "RETR"))
    BY <1>4 DEF Aborts, Answered, Silent
  <2>2. CASE s.replies = <<>>
    <3>1. Waits(s, "ABOR", None)
      BY <2>1, <2>2 DEF Waits
    <3>2. Silent(t) /\ t.replies = Single(ReplyTo("ABOR", k))
      BY <1>1, <3>1
    <3> QED BY <3>2 DEF Aborts, Answered
  <2>3. CASE Running(s, "RETR")
    <3>1. PICK f \in Finals : s.replies = Single(ReplyTo("RETR", f))
      BY <2>3 DEF Running
    <3>2. Tail(s.cmds) = <<>> /\ Head(s.cmds) = Command("ABOR", None)
      BY <2>1, SingleIs
    <3>3. Head(s.cmds).name = "ABOR"
      BY <3>2 DEF Command
    <3>4. t.replies = Pair(ReplyTo("RETR", f), ReplyTo("ABOR", k))
      BY <3>1, <3>3, SingleIs
    <3> QED BY <3>2, <3>4 DEF Aborts, Silent
  <2> QED BY <2>1, <2>2, <2>3
<1>5. ~ Quiet(s) /\ \A cmd : ~ Owes(s, cmd)
  BY DEF Quiet, Owes
<1> QED BY <1>2, <1>3, <1>4, <1>5 DEF Follows

\* The server has begun a transfer.
LEMMA BeginFollows ==
  ASSUME NEW s, NEW t, s.xfer = None, s.cmds # <<>>, t.cmds = Tail(s.cmds), t.xfer # None, t.task = Head(s.cmds).name,
         t.replies = Append(s.replies, ReplyTo(Head(s.cmds).name, "PRELIM")), Head(s.cmds).name \in Transfers
  PROVE  Follows(s, t)
<1>1. ASSUME NEW name, NEW arg, Waits(s, name, arg)
      PROVE  /\ t.cmds = <<>> /\ t.replies = Single(ReplyTo(name, "PRELIM")) /\ name = Head(s.cmds).name
             /\ name \in Transfers
  <2>1. s.cmds = Single(Command(name, arg)) /\ s.replies = <<>>
    BY <1>1 DEF Waits
  <2>2. Tail(s.cmds) = <<>> /\ Head(s.cmds) = Command(name, arg)
    BY <2>1, SingleIs
  <2>3. Head(s.cmds).name = name
    BY <2>2 DEF Command
  <2>4. t.replies = Single(ReplyTo(name, "PRELIM"))
    BY <2>1, <2>3, SingleIs
  <2> QED BY <2>2, <2>3, <2>4
<1>2. \A name, arg : name \notin Transfers => ~ Asked(s, name, arg)
  BY <1>1 DEF Asked, Answered, Silent
<1>3. ASSUME NEW name, NEW arg, AskedTransfer(s, name, arg) PROVE AskedTransfer(t, name, arg)
  <2>1. Waits(s, name, arg)
    BY <1>3 DEF AskedTransfer, Silent
  <2> QED BY <1>1, <2>1 DEF AskedTransfer
<1>4. ~ Aborts(s)
  <2>1. SUFFICES ASSUME Aborts(s) PROVE FALSE
    OBVIOUS
  <2>2. s.cmds = Single(Command("ABOR", None))
    BY <2>1 DEF Aborts, Answered, Silent
  <2>3. Head(s.cmds) = Command("ABOR", None)
    BY <2>2, SingleIs
  <2> QED BY <2>3 DEF Command, Transfers
<1>5. ~ Quiet(s) /\ \A cmd : ~ Owes(s, cmd)
  BY DEF Quiet, Owes
<1> QED BY <1>2, <1>3, <1>4, <1>5 DEF Follows

\* Which command the server has still to carry out.
LEMMA Heard ==
  ASSUME NEW c, NEW d, NEW s, NEW busy, NEW dir, NEW ok, NEW ans, Expected(c, d, s, busy, dir, ok, ans),
         s.xfer = None, s.cmds # <<>>, c.call = "get_reply" => d.call \in Readers
  PROVE  /\ c.call \in {"get_reply", "aborting", "aborted"}
         /\ \/ Head(s.cmds) = Command("ABOR", None)
               /\ (c.call = "get_reply" => d.call \in {"aborted", "read_failed", "close_dst"})
            \/ s.replies = <<>> /\ c.call = "get_reply" /\ d.call # "aborting" /\ Waiter(Head(s.cmds), d)
<1>1. ~ Quiet(s) /\ (\A cmd : ~ Owes(s, cmd)) /\ ~ Rests(s, busy, dir)
  BY DEF Quiet, Owes, Rests
<1>2. c.call \in {"get_reply", "aborting", "aborted"}
  BY <1>1 DEF Expected, Special
<1>3. \A name, arg : Asked(s, name, arg) \/ AskedTransfer(s, name, arg) => Waits(s, name, arg)
  BY DEF Asked, AskedTransfer, Answered, Silent
<1>4. \A name, arg : Waits(s, name, arg) => Head(s.cmds) = Command(name, arg) /\ s.replies = <<>>
  BY SingleIs DEF Waits
<1>5. Aborts(s) => Head(s.cmds) = Command("ABOR", None)
  BY SingleIs DEF Aborts, Answered, Silent
<1>6. CASE c.call # "get_reply"
  BY <1>1, <1>2, <1>3, <1>4, <1>5, <1>6 DEF Expected
<1>7. CASE c.call = "get_reply"
  <2>1. Reading(d, s)
    BY <1>7 DEF Expected
  <2>2. CASE d.call \in {"aborted", "read_failed", "close_dst"}
    BY <1>3, <1>4, <1>5, <1>7, <2>1, <2>2 DEF Reading
  <2>3. CASE d.call \notin {"aborted", "read_failed", "close_dst"}
    <3>1. d.call \in {"passive", "port", "typed", "started", "cwd_done", "flush", "commanded"}
      BY <1>1, <1>7, <2>1, <2>3 DEF Reading, Readers
    <3> QED BY <1>3, <1>4, <1>7, <2>1, <3>1 DEF Reading, Waiter
  <2> QED BY <2>2, <2>3
<1> QED BY <1>2, <1>6, <1>7

\* What is known when the server carries out a command.
LEMMA AtObey ==
  ASSUME FtpInv, harm = None, server.up, server.cmds # <<>>, server.xfer = None
  PROVE  LET c == First(todo)
             d == First(Rest(todo))
             x == Head(server.cmds)
         IN /\ Kinds /\ TopAt(c, d, server, ctl_connection_busy, direct, okay, answer, isbinary, cwdir)
            /\ FlowKnown(c, d, server, data, okay) /\ poured = 0
            /\ (c.call \in Connects => c.arg \in Requests) /\ (d.call \in Connects => d.arg \in Requests)
            /\ (d.call = "cwd_done" => d.arg \in Dirs)
            /\ (d.call \in Connects => (d.arg.owner = "src" => Nobody(src, dst, got, put)))
            /\ c.call \in {"get_reply", "aborting", "aborted"}
            /\ \/ /\ x.name = "ABOR"
                  /\ (c.call = "get_reply" => d.call \in {"aborted", "read_failed", "close_dst"})
               \/ server.replies = <<>> /\ c.call = "get_reply" /\ d.call # "aborting" /\ Waiter(x, d)
<1> DEFINE c == First(todo)
           d == First(Rest(todo))
           x == Head(server.cmds)
<1>1. /\ Kinds /\ TopAt(c, d, server, ctl_connection_busy, direct, okay, answer, isbinary, cwdir)
      /\ FlowKnown(c, d, server, data, okay)
      /\ (c.call \in Connects => c.arg \in Requests) /\ (d.call \in Connects => d.arg \in Requests)
      /\ (d.call = "cwd_done" => d.arg \in Dirs)
      /\ (d.call \in Connects => (d.arg.owner = "src" => Nobody(src, dst, got, put)))
      /\ Standing(todo, src, dst, got, put, poured)
  BY AtServer
<1>2. ASSUME c.call = "get_reply" PROVE d.call \in Readers
  <2>1. todo # <<>>
    BY <1>2 DEF First, Do, Call
  <2>2. IsStack(todo) /\ Head(todo) = c
    BY <1>1, <2>1, StackSplit DEF Standing, Shape
  <2>3. At("get_reply")
    BY <1>2, <2>1, <2>2 DEF At
  <2>4. Bel(c, Rest(todo))
    BY <2>3, AtTop
  <2>5. ~ MayEnd(c)
    BY <1>2 DEF MayEnd, Looks, Copied
  <2>6. Below(c, d)
    BY <2>4, <2>5 DEF Bel
  <2> QED BY <1>2, <2>6 DEF Below
<1>3. Expected(c, d, server, ctl_connection_busy, direct, okay, answer)
  BY <1>1 DEF TopAt
<1>4. poured = 0
  BY FtpfsAssumption DEF poured
<1> HIDE DEF c, d
<1>5. /\ c.call \in {"get_reply", "aborting", "aborted"}
      /\ \/ x = Command("ABOR", None) /\ (c.call = "get_reply" => d.call \in {"aborted", "read_failed", "close_dst"})
         \/ server.replies = <<>> /\ c.call = "get_reply" /\ d.call # "aborting" /\ Waiter(x, d)
  BY <1>2, <1>3, Heard
<1>6. x = Command("ABOR", None) => x.name = "ABOR"
  BY DEF Command
<1> QED BY <1>1, <1>4, <1>5, <1>6 DEF c, d

\* The command that the server carries out is the one whose reply is waited for.
LEMMA WaiterIs ==
  ASSUME NEW x, NEW d, Waiter(x, d), d.call # "aborting", d.call \in Connects => d.arg \in Requests
  PROVE  /\ x.name = "PASV" => d.call = "passive" /\ x.arg = d.arg.owner
         /\ x.name = "PORT" => d.call = "port" /\ x.arg = d.arg.owner
         /\ x.name = "TYPE" => d.call = "typed" /\ x.arg = d.arg.binary
         /\ x.name = "CWD" => d.call = "cwd_done" /\ x.arg = d.arg
         /\ x.name \in Transfers => d.call = "started" /\ x.arg = d.arg.arg /\ x.name = CmdOf(d.arg.owner)
         /\ d.call = "port" => x.name = "PORT"
         /\ d.call = "typed" => x.name = "TYPE"
         /\ d.call = "started" => x.name \in Transfers
         /\ d.call = "cwd_done" => x.name = "CWD"
<1>1. d.call = "started" => d.arg.cmd = CmdOf(d.arg.owner) /\ CmdOf(d.arg.owner) \in Transfers
  BY Requested DEF Connects, CmdOf, Transfers
<1> QED BY <1>1 DEF Waiter, Command, Transfers

\* A command that ends with its reply.
LEMMA Answers ==
  ASSUME FtpInv, harm = None, Away, server.up, server.cmds # <<>>, server.xfer = None, ServerOK',
         server'.up = server.up, server'.xfer = None, data' = data, stored' = stored \/ stored' = None,
         Follows(server, server'),
         LET c == First(todo)
             d == First(Rest(todo))
         IN /\ TypeKnown(c, d, server', isbinary, answer) /\ DirKnown(c, d, server', cwdir, answer)
            /\ ReadyKnown(c, d, server', answer)
  PROVE  FtpInv'
<1> DEFINE c == First(todo)
           d == First(Rest(todo))
<1>1. /\ Kinds /\ TopAt(c, d, server, ctl_connection_busy, direct, okay, answer, isbinary, cwdir)
      /\ FlowKnown(c, d, server, data, okay) /\ poured = 0
      /\ (c.call \in Connects => c.arg \in Requests) /\ (d.call \in Connects => d.arg \in Requests)
  BY AtObey
<1>2. TypeKnown(c, d, server', isbinary, answer) /\ DirKnown(c, d, server', cwdir, answer)
      /\ ReadyKnown(c, d, server', answer)
  OBVIOUS
<1>3. \A k \in Owner : data[k].flow \in Nat
  BY <1>1, Pour1
<1> HIDE DEF c, d
<1>4. Expected(c, d, server', ctl_connection_busy, direct, okay, answer)
  BY <1>1, Followed DEF TopAt
<1>5. TopAt(c, d, server', ctl_connection_busy, direct, okay, answer, isbinary, cwdir)
  BY <1>2, <1>4 DEF TopAt
<1>6. FlowKnown(c, d, server', data', okay)
  <2>1. Falls2(data, data')
    BY <1>3 DEF Falls2
  <2> QED BY <1>1, <1>3, <2>1, FlowFalls
<1>7. DataOK'
  BY <1>1 DEF Kinds, DataOK
<1>8. FlowOK'
  <2>1. src' = src /\ got' = got
    BY DEF Away, copyVars
  <2> QED BY <1>1, <2>1, FtpfsAssumption DEF Kinds, FlowOK
<1>9. poured' = 0
  BY FtpfsAssumption DEF poured
<1>10. poured' \in Nat /\ poured' <= poured /\ (server'.up => server.up) /\ data'["dst"].client = data["dst"].client
  BY <1>1, <1>9
<1> QED BY <1>5, <1>6, <1>7, <1>8, <1>10, Remoted DEF c, d

\* t is s with a reply to that command.
Replies(t, s, name, class) == t = Reply(s, name, class)

\* The command is refused.
LEMMA Refused ==
  ASSUME FtpInv, Remote(Obey), Replies(server', [server EXCEPT !.cmds = Tail(@)], Head(server.cmds).name, "FAILED"),
         data' = data, stored' = stored
  PROVE  FtpInv'
<1> DEFINE c == First(todo)
           d == First(Rest(todo))
           x == Head(server.cmds)
           s == [server EXCEPT !.cmds = Tail(@)]
<1>1. harm = None /\ Away /\ server.up /\ server.cmds # <<>> /\ server.xfer = None
  BY DEF Remote, Obey, Away
<1>2. /\ Kinds /\ TopAt(c, d, server, ctl_connection_busy, direct, okay, answer, isbinary, cwdir)
      /\ c.call \in {"get_reply", "aborting", "aborted"}
      /\ \/ (c.call = "get_reply" => d.call \in {"aborted", "read_failed", "close_dst"})
         \/ server.replies = <<>>
  BY <1>1, AtObey
<1>3. /\ DOMAIN s = Fields /\ Session(server, s) /\ s.cmds = Tail(server.cmds) /\ s.replies = server.replies
      /\ s.xfer = None /\ s.n = server.n
  BY <1>1, <1>2 DEF Kinds, ServerOK, Session, Fields
<1>4. server' = Reply(s, x.name, "FAILED")
  BY DEF Replies
<1> HIDE DEF s, c, d, x
<1>5. /\ DOMAIN server' = Fields /\ Session(s, server') /\ server'.cmds = s.cmds /\ server'.xfer = None
      /\ server'.n = s.n /\ server'.replies = Append(s.replies, ReplyTo(x.name, "FAILED"))
  BY <1>3, <1>4, ReplyAdds
<1>6. Session(server, server')
  BY <1>3, <1>5 DEF Session
<1>7. server'.replies = Append(server.replies, ReplyTo(x.name, "FAILED")) /\ server'.cmds = Tail(server.cmds)
  BY <1>3, <1>5
<1>8. Follows(server, server')
  <2>1. server'.replies = Append(server.replies, ReplyTo(Head(server.cmds).name, "FAILED"))
    BY <1>7 DEF x
  <2> QED BY <1>1, <1>5, <1>7, <2>1, AnswerFollows
<1>9. ServerOK'
  BY <1>1, <1>2, <1>3, <1>5, <1>6 DEF Kinds, ServerOK, Session
<1>10. server.replies = <<>> => ~ Agreed(server')
  <2> DEFINE y == ReplyTo(x.name, "FAILED")
  <2>1. server.replies = <<>> => server'.replies = Append(<<>>, y)
    BY <1>7
  <2>2. y.class = "FAILED"
    BY ReplyIs
  <2> HIDE DEF y
  <2>3. Head(Append(<<>>, y)) = y
    BY SingleIs
  <2> QED BY <2>1, <2>2, <2>3 DEF Agreed
<1>11. server.replies = <<>> => ~ Agreed(server)
  BY DEF Agreed
<1>12. KnownType(server', isbinary) <=> KnownType(server, isbinary)
  BY <1>6 DEF KnownType, Session
<1>13. KnownDir(server', cwdir) <=> KnownDir(server, cwdir)
  BY <1>6 DEF KnownDir, Session
<1>14. TypeKnown(c, d, server', isbinary, answer)
  BY <1>1, <1>2, <1>10, <1>11, <1>12 DEF TopAt, TypeKnown
<1>15. DirKnown(c, d, server', cwdir, answer)
  BY <1>1, <1>2, <1>10, <1>11, <1>13 DEF TopAt, DirKnown
<1>16. ReadyKnown(c, d, server', answer)
  <2>1. server'.ready = server.ready
    BY <1>6 DEF Session
  <2> QED BY <1>1, <1>2, <1>10, <2>1 DEF TopAt, ReadyKnown
<1>17. server'.up = server.up
  BY <1>6 DEF Session
<1> QED BY <1>1, <1>5, <1>8, <1>9, <1>14, <1>15, <1>16, <1>17, Answers DEF c, d

\* What a command changes in the session.
LEMMA CarriedIs ==
  ASSUME NEW s, NEW x, DOMAIN s = Fields
  PROVE  LET t == Carried(s, x) IN
         /\ DOMAIN t = Fields /\ t.up = s.up /\ t.logged = s.logged /\ t.cmds = s.cmds /\ t.replies = s.replies
         /\ t.xfer = s.xfer /\ t.n = s.n
         /\ t.ready = IF x.name \in {"PASV", "PORT"} THEN x.arg ELSE s.ready
         /\ t.binary = IF x.name = "TYPE" THEN x.arg ELSE s.binary
         /\ t.cwd = IF x.name = "CWD" THEN x.arg ELSE s.cwd
<1>1. CASE x.name \in {"PASV", "PORT"}
  BY <1>1 DEF Carried, Fields
<1>2. CASE x.name = "TYPE"
  BY <1>2 DEF Carried, Fields
<1>3. CASE x.name = "CWD"
  BY <1>3 DEF Carried, Fields
<1>4. CASE x.name \notin {"PASV", "PORT", "TYPE", "CWD"}
  BY <1>4 DEF Carried, Fields
<1> QED BY <1>1, <1>2, <1>3, <1>4

\* The command is carried out.
LEMMA Agrees ==
  ASSUME FtpInv, Remote(Obey), Head(server.cmds).name \notin Transfers, data' = data, stored' = stored \/ stored' = None,
         Replies(server', Carried([server EXCEPT !.cmds = Tail(@)], Head(server.cmds)), Head(server.cmds).name, "COMPLETE")
  PROVE  FtpInv'
<1> DEFINE c == First(todo)
           d == First(Rest(todo))
           x == Head(server.cmds)
           s == [server EXCEPT !.cmds = Tail(@)]
           t == Carried(s, x)
           y == ReplyTo(x.name, "COMPLETE")
<1>1. harm = None /\ Away /\ server.up /\ server.cmds # <<>> /\ server.xfer = None
  BY DEF Remote, Obey, Away
<1>2. /\ Kinds /\ TopAt(c, d, server, ctl_connection_busy, direct, okay, answer, isbinary, cwdir)
      /\ (d.call \in Connects => d.arg \in Requests) /\ (d.call = "cwd_done" => d.arg \in Dirs)
      /\ c.call \in {"get_reply", "aborting", "aborted"}
      /\ \/ x.name = "ABOR" /\ (c.call = "get_reply" => d.call \in {"aborted", "read_failed", "close_dst"})
         \/ server.replies = <<>> /\ c.call = "get_reply" /\ d.call # "aborting" /\ Waiter(x, d)
  BY <1>1, AtObey
<1>3. /\ DOMAIN s = Fields /\ Session(server, s) /\ s.cmds = Tail(server.cmds) /\ s.replies = server.replies
      /\ s.xfer = None /\ s.n = server.n
  BY <1>1, <1>2 DEF Kinds, ServerOK, Session, Fields
<1>4. server' = Reply(t, x.name, "COMPLETE")
  BY DEF Replies
<1>5. x.name \notin Transfers
  OBVIOUS
<1> HIDE DEF s, c, d, x
<1>6. /\ DOMAIN t = Fields /\ t.up = s.up /\ t.logged = s.logged /\ t.cmds = s.cmds /\ t.replies = s.replies
      /\ t.xfer = None /\ t.n = s.n
      /\ t.ready = (IF x.name \in {"PASV", "PORT"} THEN x.arg ELSE s.ready)
      /\ t.binary = (IF x.name = "TYPE" THEN x.arg ELSE s.binary)
      /\ t.cwd = (IF x.name = "CWD" THEN x.arg ELSE s.cwd)
  BY <1>3, CarriedIs
<1> HIDE DEF t
<1>7. /\ DOMAIN server' = Fields /\ Session(t, server') /\ server'.cmds = t.cmds /\ server'.xfer = None
      /\ server'.n = t.n /\ server'.replies = Append(t.replies, y)
  BY <1>4, <1>6, ReplyAdds
<1>8. y.class = "COMPLETE"
  BY ReplyIs
<1>9. /\ server'.up = server.up /\ server'.logged = server.logged /\ server'.n = server.n
      /\ server'.cmds = Tail(server.cmds) /\ server'.replies = Append(server.replies, y)
  BY <1>3, <1>6, <1>7 DEF Session
<1>10. /\ server'.ready = IF x.name \in {"PASV", "PORT"} THEN x.arg ELSE server.ready
       /\ server'.binary = IF x.name = "TYPE" THEN x.arg ELSE server.binary
       /\ server'.cwd = IF x.name = "CWD" THEN x.arg ELSE server.cwd
  BY <1>3, <1>6, <1>7 DEF Session
<1>11. Follows(server, server')
  <2>1. server'.replies = Append(server.replies, ReplyTo(Head(server.cmds).name, "COMPLETE"))
    BY <1>9 DEF x
  <2> QED BY <1>1, <1>5, <1>7, <1>9, <2>1, AnswerFollows DEF x
<1> HIDE DEF y
<1>12. server.replies = <<>> => Agreed(server')
  <2>1. Head(Append(<<>>, y)) = y /\ Append(<<>>, y) # <<>>
    BY SingleIs
  <2> QED BY <1>8, <1>9, <2>1 DEF Agreed
<1>13. CASE x.name = "ABOR" /\ (c.call = "get_reply" => d.call \in {"aborted", "read_failed", "close_dst"})
  <2>1. server'.ready = server.ready /\ server'.cwd = server.cwd
    BY <1>10, <1>13
  <2>2. server'.binary = server.binary
    BY <1>10, <1>13
  <2>3. ServerOK'
    BY <1>1, <1>2, <1>7, <1>9, <2>1, <2>2 DEF Kinds, ServerOK
  <2>4. KnownType(server', isbinary) <=> KnownType(server, isbinary)
    BY <1>9, <2>2 DEF KnownType
  <2>5. KnownDir(server', cwdir) <=> KnownDir(server, cwdir)
    BY <1>9, <2>1 DEF KnownDir
  <2>6. /\ TypeKnown(c, d, server', isbinary, answer) /\ DirKnown(c, d, server', cwdir, answer)
        /\ ReadyKnown(c, d, server', answer)
    BY <1>1, <1>2, <1>13, <2>4, <2>5 DEF TopAt, TypeKnown, DirKnown, ReadyKnown
  <2> QED BY <1>1, <1>7, <1>9, <1>11, <2>3, <2>6, Answers DEF c, d
<1>14. CASE server.replies = <<>> /\ c.call = "get_reply" /\ d.call # "aborting" /\ Waiter(x, d)
  <2>1. /\ x.name = "PASV" => d.call = "passive" /\ x.arg = d.arg.owner
        /\ x.name = "PORT" => d.call = "port" /\ x.arg = d.arg.owner
        /\ x.name = "TYPE" => d.call = "typed" /\ x.arg = d.arg.binary
        /\ x.name = "CWD" => d.call = "cwd_done" /\ x.arg = d.arg
        /\ d.call = "port" => x.name = "PORT"
        /\ d.call = "typed" => x.name = "TYPE"
        /\ d.call = "started" => x.name \in Transfers
        /\ d.call = "cwd_done" => x.name = "CWD"
    BY <1>2, <1>14, WaiterIs
  <2>2. d.call \in Connects => d.arg.owner \in Owner /\ d.arg.binary \in BOOLEAN
    BY <1>2, Requested
  <2>3. server'.ready \in Owner \cup {None} /\ server'.cwd \in Dirs \cup {"home"}
    BY <1>2, <1>10, <2>1, <2>2 DEF Kinds, ServerOK, Connects
  <2>4. server'.binary \in BOOLEAN
    <3>1. server.binary \in BOOLEAN
      BY <1>2 DEF Kinds, ServerOK
    <3>2. x.name = "TYPE" => x.arg \in BOOLEAN
      BY <2>1, <2>2 DEF Connects
    <3> QED BY <1>10, <3>1, <3>2
  <2>5. ServerOK'
    BY <1>1, <1>2, <1>7, <1>9, <2>3, <2>4 DEF Kinds, ServerOK
  <2>6. TypeKnown(c, d, server', isbinary, answer)
    <3>1. CASE d.call = "typed"
      <4>1. x.name = "TYPE" /\ x.arg = d.arg.binary
        BY <2>1, <3>1
      <4>2. server'.binary = d.arg.binary
        BY <1>10, <4>1
      <4> QED BY <1>12, <1>14, <3>1, <4>2 DEF TypeKnown
    <3>2. CASE d.call # "typed"
      <4>1. KnownType(server, isbinary)
        BY <1>1, <1>2, <1>14, <3>2 DEF TopAt, TypeKnown
      <4>2. x.name # "TYPE"
        BY <2>1, <3>2
      <4>3. server'.binary = server.binary
        BY <1>10, <4>2
      <4>4. KnownType(server', isbinary)
        BY <1>9, <4>1, <4>3 DEF KnownType
      <4> QED BY <1>14, <3>2, <4>4 DEF TypeKnown
    <3> QED BY <3>1, <3>2
  <2>7. DirKnown(c, d, server', cwdir, answer)
    <3>1. CASE d.call = "cwd_done"
      <4>1. server'.cwd = d.arg
        BY <1>10, <2>1, <3>1
      <4> QED BY <1>12, <1>14, <3>1, <4>1 DEF DirKnown
    <3>2. CASE d.call # "cwd_done"
      <4>1. KnownDir(server, cwdir)
        BY <1>1, <1>2, <1>14, <3>2 DEF TopAt, DirKnown
      <4>2. KnownDir(server', cwdir)
        BY <1>9, <1>10, <2>1, <3>2, <4>1 DEF KnownDir
      <4> QED BY <1>14, <3>2, <4>2 DEF DirKnown
    <3> QED BY <3>1, <3>2
  <2>8. ReadyKnown(c, d, server', answer)
    <3>1. d.call = "port" => server'.ready = d.arg.owner
      BY <1>10, <2>1
    <3>2. d.call \in {"typed", "started"} => server'.ready = server.ready
      BY <1>5, <1>10, <2>1
    <3>3. d.call \in {"typed", "started"} => server.ready \in {None, d.arg.owner}
      BY <1>1, <1>2, <1>14 DEF TopAt, ReadyKnown
    <3> QED BY <1>14, <3>1, <3>2, <3>3 DEF ReadyKnown
  <2> QED BY <1>1, <1>7, <1>9, <1>11, <2>5, <2>6, <2>7, <2>8, Answers DEF c, d
<1> QED BY <1>2, <1>13, <1>14

\* The connection o is to carry that.
Carries(o, binary, of) == data' = [data EXCEPT ![o].binary = binary, ![o].of = of]

\* The connection that a transfer uses stays as full as it is.
LEMMA CarriesIs ==
  ASSUME Kinds, NEW o \in Owner, NEW binary \in BOOLEAN, NEW of \in Dirs \cup {None, "home"}, Carries(o, binary, of)
  PROVE  /\ data' \in [Owner -> Pipes]
         /\ \A k \in Owner : data'[k].client = data[k].client /\ data'[k].flow = data[k].flow /\ data'[k].link = data[k].link
<1> DEFINE new == [data[o] EXCEPT !.binary = binary, !.of = of]
<1>1. data \in [Owner -> Pipes] /\ data[o] \in Pipes
  BY DEF Kinds, DataOK
<1>2. new \in Pipes /\ new.client = data[o].client /\ new.flow = data[o].flow /\ new.link = data[o].link
  BY <1>1 DEF Pipes
<1>3. Renews(o, new)
  BY <1>1 DEF Carries, Renews, Pipes
<1> HIDE DEF new
<1>4. data' \in [Owner -> Pipes] /\ data'[o] = new /\ \A k \in Owner : k # o => data'[k] = data[k]
  BY <1>2, <1>3, Renewal
<1> QED BY <1>2, <1>4

\* A transfer begins.
LEMMA TransferBegins ==
  ASSUME FtpInv, Remote(Obey), Head(server.cmds).name \in Transfers, server.ready # None,
         Replies(server', [server EXCEPT !.cmds = Tail(@), !.xfer = server.ready, !.ready = None,
                                         !.task = Head(server.cmds).name, !.n = 0], Head(server.cmds).name, "PRELIM"),
         Carries(server.ready, server.binary,
                 IF Head(server.cmds).arg = None THEN server.cwd ELSE Head(server.cmds).arg),
         stored' = IF Head(server.cmds).name = "STOR" THEN [n |-> 0, binary |-> server.binary] ELSE stored
  PROVE  FtpInv'
<1> DEFINE c == First(todo)
           d == First(Rest(todo))
           x == Head(server.cmds)
           o == server.ready
           s == [server EXCEPT !.cmds = Tail(@), !.xfer = o, !.ready = None, !.task = x.name, !.n = 0]
<1>1. harm = None /\ Away /\ server.up /\ server.cmds # <<>> /\ server.xfer = None
  BY DEF Remote, Obey, Away
<1>2. /\ Kinds /\ TopAt(c, d, server, ctl_connection_busy, direct, okay, answer, isbinary, cwdir)
      /\ FlowKnown(c, d, server, data, okay) /\ poured = 0
      /\ (c.call \in Connects => c.arg \in Requests) /\ (d.call \in Connects => d.arg \in Requests)
      /\ (d.call \in Connects => (d.arg.owner = "src" => Nobody(src, dst, got, put)))
      /\ \/ x.name = "ABOR"
         \/ server.replies = <<>> /\ c.call = "get_reply" /\ d.call # "aborting" /\ Waiter(x, d)
  BY <1>1, AtObey
<1>3. x.name \in Transfers /\ o # None
  OBVIOUS
<1>4. /\ DOMAIN s = Fields /\ s.up = server.up /\ s.logged = server.logged /\ s.cwd = server.cwd /\ s.binary = server.binary
      /\ s.cmds = Tail(server.cmds) /\ s.replies = server.replies
      /\ s.xfer = o /\ s.task = x.name /\ s.n = 0 /\ s.ready = None
  BY <1>2 DEF Kinds, ServerOK, Fields
<1>5. server' = Reply(s, x.name, "PRELIM")
  BY DEF Replies
<1>6. /\ Carries(o, server.binary, IF x.arg = None THEN server.cwd ELSE x.arg)
      /\ stored' = IF x.name = "STOR" THEN [n |-> 0, binary |-> server.binary] ELSE stored
  OBVIOUS
<1> HIDE DEF s, c, d, x, o
<1>7. /\ DOMAIN server' = Fields /\ Session(s, server') /\ server'.cmds = s.cmds /\ server'.xfer = s.xfer
      /\ server'.task = s.task /\ server'.n = s.n /\ server'.replies = Append(s.replies, ReplyTo(x.name, "PRELIM"))
  BY <1>4, <1>5, ReplyAdds
<1>8. /\ server'.up = server.up /\ server'.logged = server.logged /\ server'.cwd = server.cwd
      /\ server'.binary = server.binary
  BY <1>4, <1>7 DEF Session
<1>9. /\ server'.ready = None /\ server'.xfer = o /\ server'.task = x.name /\ server'.n = 0
      /\ server'.cmds = Tail(server.cmds) /\ server'.replies = Append(server.replies, ReplyTo(x.name, "PRELIM"))
  BY <1>4, <1>7 DEF Session
<1>10. server.replies = <<>> /\ c.call = "get_reply" /\ d.call # "aborting" /\ Waiter(x, d)
  BY <1>2, <1>3 DEF Transfers
<1>11. d.call = "started" /\ x.arg = d.arg.arg /\ x.name = CmdOf(d.arg.owner)
  BY <1>2, <1>3, <1>10, WaiterIs
<1>12. d.arg.owner \in Owner /\ d.arg.arg \in Dirs \cup {None}
  BY <1>2, <1>11, Requested DEF Connects
<1>13. o = d.arg.owner
  BY <1>1, <1>2, <1>3, <1>10, <1>11 DEF TopAt, ReadyKnown, o
<1>14. o \in Owner /\ x.name = CmdOf(o) /\ x.arg \in Dirs \cup {None}
  BY <1>11, <1>12, <1>13
<1>15. server.binary \in BOOLEAN
  BY <1>2 DEF Kinds, ServerOK
<1>16. (IF x.arg = None THEN server.cwd ELSE x.arg) \in Dirs \cup {None, "home"}
  BY <1>2, <1>14 DEF Kinds, ServerOK
<1>17. /\ data' \in [Owner -> Pipes]
       /\ \A k \in Owner : data'[k].client = data[k].client /\ data'[k].flow = data[k].flow /\ data'[k].link = data[k].link
  BY <1>2, <1>6, <1>14, <1>15, <1>16, CarriesIs
<1>18. \A k \in Owner : data[k].flow \in Nat
  BY <1>2, Pour1
<1>19. Follows(server, server')
  <2>1. server'.replies = Append(server.replies, ReplyTo(Head(server.cmds).name, "PRELIM"))
    BY <1>9 DEF x
  <2>2. server'.xfer # None /\ server'.task = Head(server.cmds).name /\ Head(server.cmds).name \in Transfers
    BY <1>3, <1>9 DEF x
  <2> QED BY <1>1, <1>9, <2>1, <2>2, BeginFollows
<1>20. TopAt(c, d, server', ctl_connection_busy, direct, okay, answer, isbinary, cwdir)
  <2>1. Expected(c, d, server', ctl_connection_busy, direct, okay, answer)
    BY <1>1, <1>2, <1>19, Followed DEF TopAt
  <2>2. TypeKnown(c, d, server', isbinary, answer)
    <3>1. KnownType(server, isbinary)
      BY <1>1, <1>2, <1>10, <1>11 DEF TopAt, TypeKnown
    <3>2. KnownType(server', isbinary)
      BY <1>8, <3>1 DEF KnownType
    <3> QED BY <1>10, <1>11, <3>2 DEF TypeKnown
  <2>3. DirKnown(c, d, server', cwdir, answer)
    <3>1. KnownDir(server, cwdir)
      BY <1>1, <1>2, <1>10, <1>11 DEF TopAt, DirKnown
    <3>2. KnownDir(server', cwdir)
      BY <1>8, <3>1 DEF KnownDir
    <3> QED BY <1>10, <1>11, <3>2 DEF DirKnown
  <2>4. ReadyKnown(c, d, server', answer)
    BY <1>9, <1>10, <1>11 DEF ReadyKnown
  <2> QED BY <2>1, <2>2, <2>3, <2>4 DEF TopAt
<1>21. FlowKnown(c, d, server', data', okay)
  <2>1. Falls2(data, data')
    BY <1>17, <1>18 DEF Falls2
  <2> QED BY <1>1, <1>2, <1>18, <2>1, FlowFalls
<1>22. data[o].flow = 0
  BY <1>1, <1>2, <1>10, <1>11, <1>13 DEF FlowKnown
<1>23. x.name = "STOR" <=> o = "dst"
  BY <1>14 DEF CmdOf, Owner
<1>24. 0 \in 0..Blocks /\ Blocks \in Nat
  BY FtpfsAssumption
<1>25. stored' = None \/ stored' \in [n : 0..Blocks, binary : BOOLEAN]
  <2>1. [n |-> 0, binary |-> server.binary] \in [n : 0..Blocks, binary : BOOLEAN]
    BY <1>15, <1>24
  <2> QED BY <1>2, <1>6, <2>1 DEF Kinds, DataOK
<1>26. o = "dst" => stored' \in [n : 0..Blocks, binary : BOOLEAN] /\ stored'.n = 0
  BY <1>6, <1>15, <1>23, <1>24
<1>27. ServerOK'
  <2>1. server'.up \in BOOLEAN /\ server'.logged \in BOOLEAN /\ server'.binary \in BOOLEAN
    BY <1>2, <1>8 DEF Kinds, ServerOK
  <2> QED BY <1>1, <1>2, <1>7, <1>8, <1>9, <1>14, <1>24, <2>1 DEF Kinds, ServerOK
<1>28. DataOK'
  BY <1>1, <1>8, <1>17, <1>25 DEF DataOK
<1>29. FlowOK'
  <2>1. /\ src' = src /\ got' = got /\ put' = put /\ put \in Nat
    BY <1>2, <1>24 DEF Away, copyVars, Kinds, CopyOK, Remote
  <2>2. o = "src" => got = 0
    BY <1>2, <1>11, <1>13 DEF Connects, Nobody
  <2>3. data'["src"].flow = data["src"].flow /\ data'["dst"].flow = data["dst"].flow
    BY <1>17 DEF Owner
  <2>4. server'.xfer # None => server'.task = CmdOf(server'.xfer)
    BY <1>9, <1>14
  <2>5. src' = "open" => got' + data'["src"].flow <= Blocks
    BY <1>2, <2>1, <2>3 DEF Kinds, FlowOK
  <2>6. server'.xfer = "src" => got' + data'["src"].flow <= server'.n
    BY <1>9, <1>22, <2>1, <2>2, <2>3
  <2>7. server'.xfer = "dst" => stored' \in [n : 0..Blocks, binary : BOOLEAN] /\ stored'.n + data'["dst"].flow <= put'
    BY <1>9, <1>22, <1>26, <2>1, <2>3
  <2> QED BY <2>4, <2>5, <2>6, <2>7 DEF FlowOK
<1>30. poured' = 0
  BY <1>9, <1>17, <1>22, <1>26 DEF poured, Owner
<1>31. /\ poured' \in Nat /\ poured' <= poured /\ (server'.up => server.up)
       /\ data'["dst"].client = data["dst"].client
  BY <1>2, <1>8, <1>17, <1>30 DEF Owner
<1> QED BY <1>1, <1>20, <1>21, <1>27, <1>28, <1>29, <1>31, Remoted DEF c, d

\* The server comes to the next command.
LEMMA Obeyed == FtpInv /\ Remote(Obey) => FtpInv'
<1> SUFFICES ASSUME FtpInv, Remote(Obey) PROVE FtpInv'
  OBVIOUS
<1> DEFINE x == Head(server.cmds)
<1>1. CASE /\ Replies(server', [server EXCEPT !.cmds = Tail(@)], x.name, "FAILED")
           /\ data' = data /\ stored' = stored
  BY <1>1, Refused
<1>2. CASE /\ x.name \notin Transfers /\ data' = data /\ (stored' = stored \/ stored' = None)
           /\ Replies(server', Carried([server EXCEPT !.cmds = Tail(@)], x), x.name, "COMPLETE")
  BY <1>2, Agrees
<1>3. CASE /\ x.name \in Transfers /\ server.ready # None
           /\ Replies(server', [server EXCEPT !.cmds = Tail(@), !.xfer = server.ready, !.ready = None,
                                              !.task = x.name, !.n = 0], x.name, "PRELIM")
           /\ Carries(server.ready, server.binary, IF x.arg = None THEN server.cwd ELSE x.arg)
           /\ stored' = IF x.name = "STOR" THEN [n |-> 0, binary |-> server.binary] ELSE stored
  BY <1>3, TransferBegins
<1> DEFINE s == [server EXCEPT !.cmds = Tail(@)]
<1>4. \/ Replies(server', s, x.name, "FAILED") /\ data' = data /\ stored' = stored
      \/ /\ ~ MustRefuse(x) /\ x.name \notin Transfers /\ data' = data /\ (stored' = stored \/ stored' = None)
         /\ Replies(server', Carried(s, x), x.name, "COMPLETE")
      \/ /\ ~ MustRefuse(x) /\ x.name \in Transfers
         /\ Replies(server', [s EXCEPT !.xfer = s.ready, !.ready = None, !.task = x.name, !.n = 0], x.name, "PRELIM")
         /\ Carries(s.ready, s.binary, IF x.arg = None THEN s.cwd ELSE x.arg)
         /\ stored' = IF x.name = "STOR" THEN [n |-> 0, binary |-> s.binary] ELSE stored
  BY DEF Remote, Obey, Replies, Carries
<1>5. s.ready = server.ready /\ s.cwd = server.cwd
  <2>1. DOMAIN server = Fields
    BY DEF FtpInv, Kinds, ServerOK
  <2> QED BY <2>1 DEF Fields
<1>6. s.binary = server.binary
  <2>1. DOMAIN server = Fields
    BY DEF FtpInv, Kinds, ServerOK
  <2> QED BY <2>1 DEF Fields
<1>7. [s EXCEPT !.xfer = s.ready, !.ready = None, !.task = x.name, !.n = 0]
        = [server EXCEPT !.cmds = Tail(@), !.xfer = server.ready, !.ready = None, !.task = x.name, !.n = 0]
  <2>1. DOMAIN server = Fields
    BY DEF FtpInv, Kinds, ServerOK
  <2> QED BY <2>1 DEF Fields
<1>8. ~ MustRefuse(x) /\ x.name \in Transfers => server.ready # None
  BY DEF MustRefuse
<1> QED BY <1>1, <1>2, <1>3, <1>4, <1>5, <1>6, <1>7, <1>8

-----------------------------------------------------------------------------
(* The theorems *)

\* The invariant holds at first,
LEMMA InitInv == Init => FtpInv
<1> SUFFICES ASSUME Init PROVE FtpInv
  OBVIOUS
<1>1. /\ DOMAIN server = Fields /\ server.up = FALSE /\ server.logged = TRUE /\ server.binary = FALSE
  BY DEF Init, Dead, Fresh, Fields
<1>2. server.cwd = "home" /\ server.ready = None /\ server.xfer = None /\ server.n = 0 /\ server.cmds = <<>>
  BY DEF Init, Dead, Fresh
<1>3. 0 \in 0..Blocks /\ 0 \in 0..Cap
  BY FtpfsAssumption
<1>4. ServerOK
  <2>1. server.up \in BOOLEAN /\ server.logged \in BOOLEAN /\ server.binary \in BOOLEAN
    BY <1>1
  <2> QED BY <1>1, <1>2, <1>3, <2>1 DEF ServerOK
<1>5. SuperOK
  <2>1. /\ okay \in BOOLEAN /\ use_passive_connection \in BOOLEAN /\ ctl_connection_busy \in BOOLEAN
        /\ want_stale \in BOOLEAN /\ exact \in BOOLEAN /\ ended \in BOOLEAN
    BY DEF Init
  <2>2. isbinary \in BOOLEAN \cup {None} /\ (super = None => isbinary = None)
    BY DEF Init
  <2>3. super = None /\ strict = "auto" /\ cwdir = None /\ lines = None /\ saved = {}
    BY DEF Init
  <2>4. listing \in [Dirs -> Dirs \cup {None, "home"}]
    BY DEF Init, Unknown
  <2>5. super # "up" => ~ server.up
    BY <1>1
  <2> QED BY <2>1, <2>2, <2>3, <2>4, <2>5 DEF SuperOK
<1>6. CopyOK
  BY <1>3, FtpfsAssumption DEF Init, CopyOK
<1>7. NoData \in Pipes
  BY <1>3 DEF NoData, Pipes
<1>8. \A o \in Owner : data[o] = NoData /\ data[o].flow = 0 /\ data[o].link = "none" /\ data[o].client = FALSE
  BY DEF Init, NoData
<1>9. DataOK
  <2>1. data \in [Owner -> Pipes]
    BY <1>7 DEF Init
  <2> QED BY <1>8, <2>1 DEF DataOK, Init
<1>10. FlowOK
  BY <1>2, FtpfsAssumption DEF Init, FlowOK
<1>11. First(todo).call = "nothing" /\ First(Rest(todo)).call = "nothing" /\ Bottom(todo).call = "nothing"
  BY DEF Init, First, Rest, Bottom, Do, Call
<1>12. Len(todo) = 0 /\ todo = <<>>
  BY DEF Init
<1>13. Standing(todo, src, dst, got, put, poured)
  BY <1>12, EmptyShape DEF Standing, AllFit
<1>14. ~ direct
  BY FtpfsAssumption DEF direct, Init
<1>15. Ends(todo, src, dst, got, put, direct, okay, super)
  BY <1>11, <1>14, FtpfsAssumption DEF Ends, Nobody, Copied, Init
<1>16. TopAt(First(todo), First(Rest(todo)), server, ctl_connection_busy, direct, okay, answer, isbinary, cwdir)
  BY <1>1 DEF TopAt
<1>17. FlowKnown(First(todo), First(Rest(todo)), server, data, okay)
  BY <1>11 DEF FlowKnown
<1> QED BY <1>4, <1>5, <1>6, <1>9, <1>10, <1>13, <1>15, <1>16, <1>17, StackSame, TopSame DEF FtpInv, Kinds

\* and while nothing happens,
LEMMA StutterInv == FtpInv /\ UNCHANGED vars => FtpInv'
<1> SUFFICES ASSUME FtpInv, UNCHANGED vars PROVE FtpInv'
  OBVIOUS
<1>1. /\ UNCHANGED <<todo, answer, okay, server, data, stored, harm>>
      /\ UNCHANGED superVars /\ UNCHANGED cacheVars /\ UNCHANGED copyVars
  BY DEF vars, netVars
<1>2. Kinds'
  BY <1>1 DEF FtpInv, Kinds, ServerOK, SuperOK, CopyOK, DataOK, FlowOK, superVars, cacheVars, copyVars
<1>3. direct' = direct
  BY <1>1 DEF direct, copyVars
<1>4. poured' = poured
  BY <1>1 DEF poured
<1>5. UNCHANGED <<src, dst, got, put, super, isbinary, cwdir, ctl_connection_busy>>
  BY <1>1 DEF superVars, copyVars
<1>6. StackOK' <=> StackOK
  BY <1>1, <1>3, <1>4, <1>5 DEF StackOK
<1>7. TopOK' <=> TopOK
  BY <1>1, <1>3, <1>5 DEF TopOK
<1> QED BY <1>1, <1>2, <1>6, <1>7 DEF FtpInv

\* and after every step of the Commander,
LEMMA CommanderInv == FtpInv /\ Commander => FtpInv'
<1>1. FtpInv /\ DataConnection => FtpInv'
  BY Initconn, Passive1, Port1, Typed, Started1, GaveUp DEF DataConnection, give_up_accept
<1>2. FtpInv /\ Directory => FtpInv'
  BY FindEntry, DirLoad, CwdDone, ReadListing, Failed1, Listed1 DEF Directory
<1>3. FtpInv /\ Opening => FtpInv'
  BY Or1, LinearStart, Lseek, Again, FhOpen, StorOpened DEF Opening
<1>4. FtpInv /\ Transferring => FtpInv'
  BY LocalRead, LinearRead, ReadEnd, ReadFailed, Written1 DEF Transferring
<1>5. FtpInv /\ Ending => FtpInv'
  BY Abort1, Aborting1, Aborted1, CloseSrc, CloseDst, FileStore, StoredOrNot, Chmod1, Flush1, Over1 DEF Ending
<1> QED BY <1>1, <1>2, <1>3, <1>4, <1>5, Command1, Reply1, GetSuper, Setctl, Stale1, Commanded1 DEF Commander

\* of the user,
LEMMA UserInv == FtpInv /\ User => FtpInv'
<1> SUFFICES ASSUME FtpInv, User PROVE FtpInv'
  OBVIOUS
<1>1. ASSUME NEW d \in Dirs, ListDirectory(d) PROVE FtpInv'
  BY <1>1, ListJob
<1>2. ASSUME NEW a \in Copies, Copy(a) PROVE FtpInv'
  BY <1>2, CopyJob
<1> QED BY <1>1, <1>2, DeleteJob, Freed, GaveUp, InterruptListing, InterruptStore, UserAbort DEF User, interrupt_accept

\* and of the server.
LEMMA ServeInv == FtpInv /\ Remote(Serve) => FtpInv'
<1> SUFFICES ASSUME FtpInv, Remote(Serve) PROVE FtpInv'
  OBVIOUS
<1>1. \/ Remote(Obey) \/ Remote(Connect) \/ Remote(Send) \/ Remote(Receive) \/ Remote(End) \/ Remote(Fail)
      \/ Remote(Abort)
  BY DEF Remote, Serve
<1> QED BY <1>1, Obeyed, Connected, Sent1, Received1, Ended1, Aborted2

\* Every step keeps the invariant.
LEMMA NextInv == FtpInv /\ [Next]_vars => FtpInv'
BY CommanderInv, UserInv, AbortTimeout, ServeInv, Dropped, StutterInv DEF Next

\* The invariant, in all states.
THEOREM FtpInvariant == Spec => []FtpInv
<1>1. Init => FtpInv
  BY InitInv
<1>2. FtpInv /\ [Next]_vars => FtpInv'
  BY NextInv
<1> QED BY <1>1, <1>2, PTL DEF Spec

\* The invariant says that the variables are in their types
LEMMA InvTyped == FtpInv => TypeOK
<1> SUFFICES ASSUME FtpInv PROVE TypeOK
  OBVIOUS
<1>1. /\ super \in {None, "up", "stale"} /\ strict \in {"auto", "strict", "daring"}
      /\ isbinary \in BOOLEAN \cup {None} /\ {cwdir, lines} \subseteq Dirs \cup {None, "home"}
      /\ saved \subseteq Dirs /\ listing \in [Dirs -> Dirs \cup {None, "home"}]
  BY DEF FtpInv, Kinds, SuperOK
<1>2. {okay, use_passive_connection, ctl_connection_busy, want_stale, exact, ended} \subseteq BOOLEAN
  BY DEF FtpInv, Kinds, SuperOK
<1>3. /\ src \in {None, "open", "gone"} /\ dst \in {None, "direct", "temp"} /\ put <= got /\ got <= Blocks
      /\ wanted \in Starts \cup {0} /\ told \in {None, "stored", "deleted", "failed"}
      /\ harm \in {None, "astray", "crashed"}
  BY DEF FtpInv, Kinds, CopyOK
<1>4. ctl_connection_busy <=> src = "open"
  BY DEF FtpInv, Kinds, CopyOK
<1>5. server.ready \in Owner \cup {None} /\ server.xfer \in Owner \cup {None}
  BY DEF FtpInv, Kinds, ServerOK
<1>6. \A o \in Owner : data[o].link \in {"none", "open", "closed", "broken"} /\ data[o].flow \in 0..Cap
  BY DEF FtpInv, Kinds, DataOK, Pipes
<1>7. stored # None => stored.n <= Blocks
  BY FtpfsAssumption DEF FtpInv, Kinds, DataOK
<1> QED BY <1>1, <1>2, <1>3, <1>4, <1>5, <1>6, <1>7 DEF TypeOK

\* ... and that the Commander and the server are in step.
LEMMA InvInStep == FtpInv => InStep
<1> SUFFICES ASSUME FtpInv PROVE InStep
  OBVIOUS
<1>1. RepliesRead
  <2> SUFFICES ASSUME Idle \/ (At("command") /\ Arg.name # "ABOR"), ~ ctl_connection_busy, super = "up", server.up
               PROVE  Quiet(server)
    BY DEF RepliesRead, Quiet
  <2>1. CASE Idle
    BY <2>1, AtIdle
  <2>2. CASE At("command") /\ Arg.name # "ABOR"
    <3>1. /\ First(todo).call = "command" /\ Arg = First(todo).arg /\ ~ direct
          /\ TopAt(First(todo), First(Rest(todo)), server, ctl_connection_busy, direct, okay, answer, isbinary, cwdir)
      BY <2>2, AtTop, AtCommand
    <3>2. Rests(server, ctl_connection_busy, direct)
      BY <2>2, <3>1 DEF TopAt, Expected
    <3> QED BY <3>1, <3>2 DEF Rests
  <2> QED BY <2>1, <2>2
<1>2. SessionKnown
  <2> SUFFICES ASSUME Idle, super = "up", server.up, server.logged
               PROVE  isbinary \in {None, server.binary} /\ cwdir \in {None, server.cwd}
    BY DEF SessionKnown
  <2>1. KnownDir(server, cwdir) /\ KnownType(server, isbinary)
    BY AtIdle
  <2>2. isbinary \in {None, server.binary}
    BY <2>1 DEF KnownType
  <2>3. cwdir \in {None, server.cwd}
    BY <2>1 DEF KnownDir
  <2> QED BY <2>2, <2>3
<1> QED BY <1>1, <1>2 DEF InStep

\* The variables keep to what the code can put into them.
THEOREM FtpTyped == Spec => []TypeOK
<1>1. FtpInv => TypeOK
  BY InvTyped
<1> QED BY <1>1, FtpInvariant, PTL

\* Whenever nothing is called, or a command is about to be sent, every reply has been
\* read; and what the superblock remembers of the session is what the session is in.
THEOREM FtpInStep == Spec => []InStep
<1>1. FtpInv => InStep
  BY InvInStep
<1> QED BY <1>1, FtpInvariant, PTL
=============================================================================
