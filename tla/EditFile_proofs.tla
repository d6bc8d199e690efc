---------------------------- MODULE EditFile_proofs ----------------------------
(***************************************************************************)
(* What EditFile promises for any number of editors and files, every mode  *)
(* of saving, and every number of failures and crashes.                    *)
(*                                                                         *)
(* The invariant about types, TInv, says what a command at work may still  *)
(* have to call (Shape) and where a save writes (PathInv); AllLocks says   *)
(* what each process knows of its locks at every call in between; SaveInv  *)
(* what a save has written so far, while one editor is open at a time;     *)
(* LossInv where the saved version of a file is, and that a file which may *)
(* be removed (MayRemove) is not the only one that has it.                 *)
(***************************************************************************)
EXTENDS EditFile, TLAPS

Name == File \cup {NoName, Closed}
Windows == [file : Name, text : Broken..MaxVersion, modified : BOOLEAN,
            locked : BOOLEAN, delete_file : BOOLEAN]

LockCalls   == {"lock", "readlink", "ask", "lock_unlink", "symlink"}
UnlockCalls == {"unlock", "unlock_read", "unlock_unlink"}
\* The calls that write a file, from the choice of where to write first.
Writing     == {"open_save", "write", "backup", "replace"}
Saving      == {"save", "mkstemps"} \cup Writing
Opening     == {"open", "create", "read"}
\* The calls that give the window another file or name.
Replacing   == {"take", "renew", "close", "named"}
\* The calls made for one file, from the question to the end of the save.
ForFile     == {"exists", "saved", "saved_as", "modify"} \cup LockCalls \cup Saving
CallName    == ForFile \cup UnlockCalls \cup Opening \cup Replacing
               \cup {"clean", "unlink", "ask_name"}
Calling     == [call : CallName, file : Name]

\* What a call may be followed by, and whether it may be the last.
MayFollow(c, d) ==
  \/ c.call = "exists" /\ d.call = "lock"
  \/ c.call \in LockCalls /\ d.call \in {"save", "modify"}
  \/ c.call \in Saving /\ d.call \in {"saved", "saved_as"}
  \/ c.call \in Opening /\ d.call \in {"take", "clean"}
  \/ c.call \in {"saved", "saved_as", "named", "ask_name"} /\ d.call = "clean"
  \/ c.call \in UnlockCalls /\ d.call \in {"unlock", "ask_name", "clean", "unlink"} \cup Replacing
  \/ c.call \in {"clean", "unlink"} /\ d.call \in {"take", "renew", "close"}
  \/ c.call = "take" /\ d.call = "unlock"
MayEnd(c) ==
  c.call \in {"saved", "saved_as", "modify", "ask_name", "unlink"} \cup Replacing \cup UnlockCalls

Linked(t) == \A i \in 1..Len(t) : IF i = Len(t) THEN MayEnd(t[i]) ELSE MayFollow(t[i], t[i+1])
OneFile(t) ==
  \A i \in 1..Len(t) : \A j \in 1..i :
    t[i].call \in ForFile => t[j].call \in ForFile /\ t[j].file = t[i].file
UnlocksFirst(t) ==
  \A i \in 1..Len(t) : i > 1 =>
    /\ t[i].call \in UnlockCalls => i = 2 \/ t[i-1].call = "take"
    /\ t[i].call = "unlink" => i = 2 /\ t[1].call \in UnlockCalls

\* The calls a process still has to make.
Shape(t) == t \in Seq(Calling) /\ Linked(t) /\ OneFile(t) /\ UnlocksFirst(t)

\* The k-th call of p is one of these.
Is(p, k, names) == k <= Len(todo[p]) /\ todo[p][k].call \in names

\* Where p writes, while it does.
PathInv(p) ==
  /\ Is(p, 1, Opening) => Top(p).file \in File
  /\ Is(p, 1, Saving \ {"save"}) => Top(p).file \in File
  /\ Is(p, 1, Writing) => savename[p] \in {At(Top(p).file)} \cup Temps
  /\ Is(p, 1, {"backup", "replace"}) => savename[p] \in Temps
  /\ fd[p] # NoPath => Is(p, 1, {"write"})

DataInv ==
  /\ disk \in [Path -> Absent..MaxVersion]
  /\ lock \in [File -> Editor \cup {Dead, NoLock}] /\ alive \subseteq Editor
  /\ ed \in [Editor -> Windows] /\ new \in [Editor -> Windows]
  /\ got \in [Editor -> BOOLEAN] /\ result \in [Editor -> BOOLEAN]
  /\ fd \in [Editor -> Path \cup {NoPath}] /\ savename \in [Editor -> Path \cup {NoPath}]
  /\ option_save_mode \in {"quick", "safe", "backup"} /\ together \in BOOLEAN
  /\ versions \in 0..MaxVersion
  /\ refused \subseteq Editor /\ robbed \subseteq Editor
  /\ acknowledged \in [File -> Broken..MaxVersion]

CallsInv ==
  /\ todo \in [Editor -> Seq(Calling)]
  /\ \A p \in Editor \ alive : todo[p] = <<>>
  /\ \A p \in Editor : Shape(todo[p]) /\ PathInv(p)

TInv == DataInv /\ CallsInv

---------------------------------------------------------------------------
(* The calls that are left *)

\* One call less is left.
LEMMA ShapeOfTail ==
  ASSUME NEW t, Shape(t), t # <<>>
  PROVE  /\ Shape(Tail(t)) /\ Len(Tail(t)) = Len(t) - 1
         /\ \A i \in 1..Len(Tail(t)) : Tail(t)[i] = t[i+1]
         /\ IF Tail(t) = <<>> THEN MayEnd(t[1]) ELSE MayFollow(t[1], Tail(t)[1])
<1> DEFINE r == Tail(t)
<1>1. t \in Seq(Calling) /\ Len(t) \in Nat /\ Len(t) > 0
  BY DEF Shape
<1>2. r \in Seq(Calling) /\ Len(r) = Len(t) - 1 /\ \A i \in 1..Len(r) : r[i] = t[i+1]
  BY <1>1
<1> HIDE DEF r
<1>3. Linked(r)
  <2> SUFFICES ASSUME NEW i \in 1..Len(r)
               PROVE  IF i = Len(r) THEN MayEnd(r[i]) ELSE MayFollow(r[i], r[i+1])
    BY DEF Linked
  <2>1. i + 1 \in 1..Len(t) /\ (i = Len(r) <=> i + 1 = Len(t)) /\ r[i] = t[i+1]
        /\ (i # Len(r) => r[i+1] = t[(i+1)+1])
    BY <1>1, <1>2
  <2> QED
    BY <2>1 DEF Shape, Linked
<1>4. OneFile(r)
  <2> SUFFICES ASSUME NEW i \in 1..Len(r), NEW j \in 1..i, r[i].call \in ForFile
               PROVE  r[j].call \in ForFile /\ r[j].file = r[i].file
    BY DEF OneFile
  <2>1. i + 1 \in 1..Len(t) /\ j + 1 \in 1..(i + 1) /\ j \in 1..Len(r)
    BY <1>1, <1>2
  <2> QED
    BY <1>2, <2>1 DEF Shape, OneFile
<1>5. UnlocksFirst(r)
  <2> SUFFICES ASSUME NEW i \in 1..Len(r), i > 1
               PROVE  /\ r[i].call \in UnlockCalls => i = 2 \/ r[i-1].call = "take"
                      /\ r[i].call = "unlink" => FALSE
    BY DEF UnlocksFirst
  <2>1. i + 1 \in 1..Len(t) /\ i + 1 > 2 /\ i - 1 \in 1..Len(r) /\ (i - 1) + 1 = i /\ (i + 1) - 1 = i
    BY <1>1, <1>2
  <2>2. r[i] = t[i+1] /\ r[i-1] = t[i]
    BY <1>2, <2>1
  <2> QED
    BY <2>1, <2>2 DEF Shape, UnlocksFirst
<1>6. IF r = <<>> THEN MayEnd(t[1]) ELSE MayFollow(t[1], r[1])
  <2>1. IF 1 = Len(t) THEN MayEnd(t[1]) ELSE MayFollow(t[1], t[1+1])
    <3>1. Linked(t) /\ 1 \in 1..Len(t)
      BY <1>1 DEF Shape
    <3> QED
      BY <3>1 DEF Linked
  <2>2. r = <<>> <=> Len(r) = 0
    BY <1>2
  <2>3. r # <<>> => r[1] = t[1+1]
    BY <1>1, <1>2
  <2> QED
    BY <1>1, <1>2, <2>1, <2>2, <2>3
<1> QED
  BY <1>2, <1>3, <1>4, <1>5, <1>6 DEF Shape, r

\* The first call goes on as one of its kind for the same file.
LEMMA ShapeOfGoto ==
  ASSUME NEW t, Shape(t), t # <<>>,
         NEW kind \in {LockCalls, UnlockCalls, Saving, Opening}, t[1].call \in kind,
         NEW name \in kind
  PROVE  LET r == <<Call(name, t[1].file)>> \o Tail(t)
         IN /\ Shape(r) /\ Len(r) = Len(t) /\ r[1] = Call(name, t[1].file)
            /\ \A i \in 1..Len(r) : i > 1 => r[i] = t[i]
<1> DEFINE c == Call(name, t[1].file)
           r == <<c>> \o Tail(t)
<1>1. t \in Seq(Calling) /\ Len(t) \in Nat /\ Len(t) > 0 /\ t[1] \in Calling
  BY DEF Shape
<1>2. c \in Calling /\ c.call = name /\ c.file = t[1].file
  BY <1>1 DEF Calling, CallName, Call, ForFile, Saving
<1> HIDE DEF c
<1>3. r \in Seq(Calling) /\ Len(r) = Len(t) /\ r[1] = c /\ \A i \in 1..Len(r) : i > 1 => r[i] = t[i]
  BY <1>1, <1>2
<1> HIDE DEF r
<1>4. MayEnd(t[1]) => MayEnd(c)
  BY <1>2 DEF MayEnd, LockCalls, UnlockCalls, Saving, Writing, Opening, Replacing
<1>5. ASSUME NEW d, MayFollow(t[1], d) PROVE MayFollow(c, d)
  BY <1>2, <1>5 DEF MayFollow, LockCalls, UnlockCalls, Saving, Writing, Opening, Replacing
<1>6. Linked(r)
  <2> SUFFICES ASSUME NEW i \in 1..Len(r)
               PROVE  IF i = Len(r) THEN MayEnd(r[i]) ELSE MayFollow(r[i], r[i+1])
    BY DEF Linked
  <2>1. IF i = Len(t) THEN MayEnd(t[i]) ELSE MayFollow(t[i], t[i+1])
    BY <1>3 DEF Shape, Linked
  <2>2. i < Len(r) => r[i+1] = t[i+1]
    BY <1>1, <1>3
  <2> QED
    BY <1>3, <1>4, <1>5, <2>1, <2>2
<1>7. t[1].call \in ForFile <=> c.call \in ForFile
  BY <1>2 DEF ForFile, LockCalls, UnlockCalls, Saving, Writing, Opening
<1>8. OneFile(r)
  BY <1>1, <1>2, <1>3, <1>7 DEF Shape, OneFile
<1>9. UnlocksFirst(r)
  <2>1. t[1].call \in UnlockCalls <=> c.call \in UnlockCalls
    BY <1>2 DEF LockCalls, UnlockCalls, Saving, Writing, Opening
  <2>2. c.call # "take" /\ t[1].call # "take"
    BY <1>2 DEF LockCalls, UnlockCalls, Saving, Writing, Opening
  <2> QED
    BY <1>1, <1>3, <2>1, <2>2 DEF Shape, UnlocksFirst
<1> QED
  BY <1>3, <1>6, <1>8, <1>9 DEF Shape, r, c

\* Calls are put before those that are left, which begin with the end of the
\* window or its replacement.
LEMMA ShapeOfConcat ==
  ASSUME NEW s, NEW r, Shape(s), Shape(r), s # <<>>,
         r # <<>> => MayFollow(s[Len(s)], r[1]) /\ r[1].call \in {"clean", "take", "renew", "close"}
  PROVE  /\ Shape(s \o r) /\ Len(s \o r) = Len(s) + Len(r)
         /\ \A i \in 1..Len(s) : (s \o r)[i] = s[i]
         /\ \A i \in 1..Len(r) : (s \o r)[Len(s) + i] = r[i]
<1> DEFINE n == Len(s)
           u == s \o r
<1>1. s \in Seq(Calling) /\ r \in Seq(Calling) /\ n \in Nat /\ n > 0 /\ Len(r) \in Nat
      /\ (r # <<>> <=> Len(r) > 0)
  BY DEF Shape
<1>2. u \in Seq(Calling) /\ Len(u) = n + Len(r) /\ (\A i \in 1..n : u[i] = s[i])
      /\ \A i \in 1..Len(u) : i > n => i - n \in 1..Len(r) /\ u[i] = r[i - n]
  BY <1>1
<1>3. \A i \in 1..Len(r) : u[n + i] = r[i]
  BY <1>1
<1> HIDE DEF u, n
<1>4. \A i \in 1..Len(r) : r[i].call \notin ForFile
  BY <1>1 DEF Shape, OneFile, ForFile, LockCalls, Saving, Writing
<1>5. \A i \in 1..Len(r) : r[i].call \in UnlockCalls => i > 1 /\ r[i-1].call = "take"
  <2> SUFFICES ASSUME NEW i \in 1..Len(r), r[i].call \in UnlockCalls
               PROVE  i > 1 /\ r[i-1].call = "take"
    OBVIOUS
  <2>1. i # 1
    BY <1>1 DEF UnlockCalls
  <2>2. CASE i = 2
    <3>1. MayFollow(r[1], r[2])
      BY <1>1, <2>2 DEF Shape, Linked
    <3> QED
      BY <1>1, <2>2, <3>1 DEF MayFollow, UnlockCalls, LockCalls, Saving, Writing, Opening, Replacing
  <2> QED
    BY <1>1, <2>1, <2>2 DEF Shape, UnlocksFirst
<1>6. \A i \in 1..Len(r) : r[i].call # "unlink"
  BY <1>1 DEF Shape, UnlocksFirst, UnlockCalls
<1>7. Linked(u)
  <2> SUFFICES ASSUME NEW i \in 1..Len(u)
               PROVE  IF i = Len(u) THEN MayEnd(u[i]) ELSE MayFollow(u[i], u[i+1])
    BY DEF Linked
  <2>1. CASE i < n
    <3>1. i + 1 \in 1..n /\ u[i] = s[i] /\ u[i+1] = s[i+1] /\ i # Len(u)
      BY <1>1, <1>2, <2>1
    <3> QED
      BY <1>1, <2>1, <3>1 DEF Shape, Linked, n
  <2>2. CASE i = n /\ r = <<>>
    BY <1>1, <1>2, <2>2 DEF Shape, Linked, n
  <2>3. CASE i = n /\ r # <<>>
    <3>1. u[i] = s[n] /\ u[i+1] = r[1] /\ i # Len(u)
      BY <1>1, <1>2, <1>3, <2>3
    <3> QED
      BY <2>3, <3>1 DEF n
  <2>4. CASE i > n
    <3> DEFINE k == i - n
    <3>1. k \in 1..Len(r) /\ u[i] = r[k] /\ i = n + k
      <4>1. i - n \in 1..Len(r) /\ u[i] = r[i - n]
        BY <1>2, <2>4
      <4> QED
        BY <1>1, <1>2, <4>1
    <3> HIDE DEF k
    <3>2. i = Len(u) <=> k = Len(r)
      <4>1. Len(u) = n + Len(r) /\ k \in Nat /\ n \in Nat /\ Len(r) \in Nat /\ i = n + k
        BY <1>1, <1>2, <3>1
      <4> QED
        BY <4>1
    <3>3. k # Len(r) => k + 1 \in 1..Len(r) /\ i + 1 = n + (k + 1)
      BY <1>1, <3>1
    <3>4. k # Len(r) => u[i+1] = r[k+1]
      BY <1>3, <3>3
    <3>5. IF k = Len(r) THEN MayEnd(r[k]) ELSE MayFollow(r[k], r[k+1])
      BY <3>1 DEF Shape, Linked
    <3> QED
      BY <3>1, <3>2, <3>4, <3>5
  <2> QED
    BY <1>1, <2>1, <2>2, <2>3, <2>4
<1>8. OneFile(u)
  <2> SUFFICES ASSUME NEW i \in 1..Len(u), NEW j \in 1..i, u[i].call \in ForFile
               PROVE  u[j].call \in ForFile /\ u[j].file = u[i].file
    BY DEF OneFile
  <2>1. i > n => u[i].call \notin ForFile
    BY <1>2, <1>4
  <2>2. i \in 1..n /\ j \in 1..n
    BY <1>1, <1>2, <2>1
  <2> QED
    BY <1>1, <1>2, <2>2 DEF Shape, OneFile, n
<1>9. UnlocksFirst(u)
  <2> SUFFICES ASSUME NEW i \in 1..Len(u), i > 1
               PROVE  /\ u[i].call \in UnlockCalls => i = 2 \/ u[i-1].call = "take"
                      /\ u[i].call = "unlink" => i = 2 /\ u[1].call \in UnlockCalls
    BY DEF UnlocksFirst
  <2>1. CASE i <= n
    <3>1. i \in 1..n /\ i - 1 \in 1..n /\ 1 \in 1..n
      BY <1>1, <2>1
    <3> QED
      BY <1>1, <1>2, <3>1 DEF Shape, UnlocksFirst, n
  <2>2. CASE i > n
    <3>1. i - n \in 1..Len(r) /\ u[i] = r[i-n]
      BY <1>2, <2>2
    <3>2. u[i].call \in UnlockCalls => u[i-1].call = "take"
      <4> SUFFICES ASSUME u[i].call \in UnlockCalls PROVE u[i-1].call = "take"
        OBVIOUS
      <4>1. i - n > 1 /\ r[(i-n)-1].call = "take"
        BY <1>5, <3>1
      <4>2. i - 1 > n /\ i - 1 \in 1..Len(u) /\ (i - 1) - n = (i - n) - 1
        BY <1>1, <1>2, <2>2, <4>1
      <4> QED
        BY <1>2, <4>1, <4>2
    <3> QED
      BY <1>6, <3>1, <3>2
  <2> QED
    BY <1>1, <2>1, <2>2
<1> QED
  BY <1>1, <1>2, <1>3, <1>7, <1>8, <1>9 DEF Shape, u, n

\* Sequences of a few calls.
LEMMA ShapeOfFew ==
  /\ Shape(<<>>)
  /\ \A a \in Calling : MayEnd(a) => Shape(<<a>>)
  /\ \A a, b \in Calling :
       MayFollow(a, b) /\ MayEnd(b) /\ (b.call \in ForFile => a.call \in ForFile /\ a.file = b.file)
       /\ (b.call = "unlink" => a.call \in UnlockCalls)
       => Shape(<<a, b>>)
  /\ \A a, b, c \in Calling :
       MayFollow(a, b) /\ MayFollow(b, c) /\ MayEnd(c)
       /\ (b.call \in ForFile => a.call \in ForFile /\ a.file = b.file)
       /\ (c.call \in ForFile => b.call \in ForFile /\ b.file = c.file)
       /\ b.call # "unlink" /\ c.call \notin UnlockCalls \cup {"unlink"}
       => Shape(<<a, b, c>>)
  /\ \A a, b, c, d \in Calling :
       MayFollow(a, b) /\ MayFollow(b, c) /\ MayFollow(c, d) /\ MayEnd(d)
       /\ (b.call \in ForFile => a.call \in ForFile /\ a.file = b.file)
       /\ (c.call \in ForFile => b.call \in ForFile /\ b.file = c.file)
       /\ (d.call \in ForFile => c.call \in ForFile /\ c.file = d.file)
       /\ b.call # "unlink" /\ c.call \notin UnlockCalls \cup {"unlink"}
       /\ d.call # "unlink" /\ (d.call \in UnlockCalls => c.call = "take")
       => Shape(<<a, b, c, d>>)
<1>1. Shape(<<>>)
  BY DEF Shape, Linked, OneFile, UnlocksFirst
<1>2. ASSUME NEW a \in Calling, MayEnd(a) PROVE Shape(<<a>>)
  BY <1>2 DEF Shape, Linked, OneFile, UnlocksFirst
<1>3. ASSUME NEW a \in Calling, NEW b \in Calling,
             MayFollow(a, b), MayEnd(b), b.call \in ForFile => a.call \in ForFile /\ a.file = b.file,
             b.call = "unlink" => a.call \in UnlockCalls
      PROVE  Shape(<<a, b>>)
  BY <1>3 DEF Shape, Linked, OneFile, UnlocksFirst
<1>4. ASSUME NEW a \in Calling, NEW b \in Calling, NEW c \in Calling,
             MayFollow(a, b), MayFollow(b, c), MayEnd(c),
             b.call \in ForFile => a.call \in ForFile /\ a.file = b.file,
             c.call \in ForFile => b.call \in ForFile /\ b.file = c.file,
             b.call # "unlink" /\ c.call \notin UnlockCalls \cup {"unlink"}
      PROVE  Shape(<<a, b, c>>)
  BY <1>4 DEF Shape, Linked, OneFile, UnlocksFirst
<1>5. ASSUME NEW a \in Calling, NEW b \in Calling, NEW c \in Calling, NEW d \in Calling,
             MayFollow(a, b), MayFollow(b, c), MayFollow(c, d), MayEnd(d),
             b.call \in ForFile => a.call \in ForFile /\ a.file = b.file,
             c.call \in ForFile => b.call \in ForFile /\ b.file = c.file,
             d.call \in ForFile => c.call \in ForFile /\ c.file = d.file,
             b.call # "unlink" /\ c.call \notin UnlockCalls \cup {"unlink"},
             d.call # "unlink" /\ (d.call \in UnlockCalls => c.call = "take")
      PROVE  Shape(<<a, b, c, d>>)
  BY <1>5 DEF Shape, Linked, OneFile, UnlocksFirst
<1> QED
  BY <1>1, <1>2, <1>3, <1>4, <1>5

---------------------------------------------------------------------------
(* A step and the calls it leaves *)

\* Tuples that are put together.
LEMMA SameSequence ==
  ASSUME NEW S, NEW s \in Seq(S), NEW t \in Seq(S), Len(s) = Len(t),
         \A i \in 1..Len(s) : s[i] = t[i]
  PROVE  s = t
  OBVIOUS

LEMMA Together ==
  /\ \A s : s \in Seq(Calling) => <<>> \o s = s /\ s \o <<>> = s
  /\ \A a, b \in Calling : <<a>> \o <<b>> = <<a, b>>
  /\ \A a, b, c \in Calling : <<a>> \o <<b, c>> = <<a, b, c>>
  /\ \A a, b, c \in Calling : <<a, b>> \o <<c>> = <<a, b, c>>
  /\ \A a, b, c, d \in Calling : <<a, b, c>> \o <<d>> = <<a, b, c, d>>
  /\ \A a, b, c, d \in Calling : <<a, b>> \o <<c, d>> = <<a, b, c, d>>
<1>1. \A s : s \in Seq(Calling) => <<>> \o s = s /\ s \o <<>> = s
  OBVIOUS
<1>2. ASSUME NEW a \in Calling, NEW b \in Calling PROVE <<a>> \o <<b>> = <<a, b>>
  <2> DEFINE s == <<a>> \o <<b>>
             t == <<a, b>>
  <2>1. s \in Seq(Calling) /\ t \in Seq(Calling) /\ Len(s) = 2 /\ Len(t) = 2
        /\ s[1] = t[1] /\ s[2] = t[2]
    OBVIOUS
  <2> HIDE DEF s, t
  <2>2. s = t
    BY <2>1, SameSequence
  <2> QED
    BY <2>2 DEF s, t
<1>3. ASSUME NEW a \in Calling, NEW b \in Calling, NEW c \in Calling PROVE <<a>> \o <<b, c>> = <<a, b, c>>
  <2> DEFINE s == <<a>> \o <<b, c>>
             t == <<a, b, c>>
  <2>1. s \in Seq(Calling) /\ t \in Seq(Calling) /\ Len(s) = 3 /\ Len(t) = 3
        /\ s[1] = t[1] /\ s[2] = t[2] /\ s[3] = t[3]
    OBVIOUS
  <2> HIDE DEF s, t
  <2>2. s = t
    BY <2>1, SameSequence
  <2> QED
    BY <2>2 DEF s, t
<1>4. ASSUME NEW a \in Calling, NEW b \in Calling, NEW c \in Calling PROVE <<a, b>> \o <<c>> = <<a, b, c>>
  <2> DEFINE s == <<a, b>> \o <<c>>
             t == <<a, b, c>>
  <2>1. s \in Seq(Calling) /\ t \in Seq(Calling) /\ Len(s) = 3 /\ Len(t) = 3
        /\ s[1] = t[1] /\ s[2] = t[2] /\ s[3] = t[3]
    OBVIOUS
  <2> HIDE DEF s, t
  <2>2. s = t
    BY <2>1, SameSequence
  <2> QED
    BY <2>2 DEF s, t
<1>5. ASSUME NEW a \in Calling, NEW b \in Calling, NEW c \in Calling, NEW d \in Calling PROVE <<a, b, c>> \o <<d>> = <<a, b, c, d>>
  <2> DEFINE s == <<a, b, c>> \o <<d>>
             t == <<a, b, c, d>>
  <2>1. s \in Seq(Calling) /\ t \in Seq(Calling) /\ Len(s) = 4 /\ Len(t) = 4
        /\ s[1] = t[1] /\ s[2] = t[2] /\ s[3] = t[3] /\ s[4] = t[4]
    OBVIOUS
  <2> HIDE DEF s, t
  <2>2. s = t
    BY <2>1, SameSequence
  <2> QED
    BY <2>2 DEF s, t
<1>6. ASSUME NEW a \in Calling, NEW b \in Calling, NEW c \in Calling, NEW d \in Calling PROVE <<a, b>> \o <<c, d>> = <<a, b, c, d>>
  <2> DEFINE s == <<a, b>> \o <<c, d>>
             t == <<a, b, c, d>>
  <2>1. s \in Seq(Calling) /\ t \in Seq(Calling) /\ Len(s) = 4 /\ Len(t) = 4
        /\ s[1] = t[1] /\ s[2] = t[2] /\ s[3] = t[3] /\ s[4] = t[4]
    OBVIOUS
  <2> HIDE DEF s, t
  <2>2. s = t
    BY <2>1, SameSequence
  <2> QED
    BY <2>2 DEF s, t
<1> QED
  BY <1>1, <1>2, <1>3, <1>4, <1>5, <1>6

\* A call returns.
LEMMA DoneFacts ==
  ASSUME TInv, NEW p \in Editor, todo[p] # <<>>, Done(p)
  PROVE  /\ \A q \in Editor : q # p => todo'[q] = todo[q]
         /\ todo' \in [Editor -> Seq(Calling)]
         /\ Shape(todo[p]) /\ Shape(todo'[p]) /\ Top(p) = todo[p][1] /\ Top(p) \in Calling
         /\ Len(todo[p]) \in Nat /\ Len(todo'[p]) = Len(todo[p]) - 1
         /\ \A i \in 1..Len(todo'[p]) : todo'[p][i] = todo[p][i+1]
         /\ IF todo'[p] = <<>> THEN MayEnd(Top(p)) ELSE MayFollow(Top(p), todo'[p][1])
<1>1. todo \in [Editor -> Seq(Calling)] /\ Shape(todo[p]) /\ todo[p] \in Seq(Calling)
  BY DEF TInv, DataInv, CallsInv
<1>2. <<>> \o Tail(todo[p]) = Tail(todo[p])
  BY <1>1
<1>3. todo' = [todo EXCEPT ![p] = Tail(todo[p])]
  BY <1>2 DEF Done, Become
<1>4. todo'[p] = Tail(todo[p]) /\ \A q \in Editor : q # p => todo'[q] = todo[q]
  BY <1>1, <1>3
<1>5. Shape(todo'[p]) /\ Len(todo'[p]) = Len(todo[p]) - 1
      /\ \A i \in 1..Len(todo'[p]) : todo'[p][i] = todo[p][i+1]
  BY <1>1, <1>4, ShapeOfTail
<1>6. todo' \in [Editor -> Seq(Calling)]
  BY <1>1, <1>3
<1>7. Len(todo[p]) \in Nat /\ Len(todo[p]) > 0 /\ Top(p) = todo[p][1] /\ todo[p][1] \in Calling
  BY <1>1 DEF Top
<1>8. IF todo'[p] = <<>> THEN MayEnd(Top(p)) ELSE MayFollow(Top(p), todo'[p][1])
  BY <1>1, <1>4, <1>7, ShapeOfTail
<1> QED
  BY <1>1, <1>4, <1>5, <1>6, <1>7, <1>8

\* A call goes on.
LEMMA GotoFacts ==
  ASSUME TInv, NEW p \in Editor, todo[p] # <<>>,
         NEW kind \in {LockCalls, UnlockCalls, Saving, Opening}, Top(p).call \in kind,
         NEW name \in kind, Goto(p, name)
  PROVE  /\ \A q \in Editor : q # p => todo'[q] = todo[q]
         /\ todo' \in [Editor -> Seq(Calling)]
         /\ Shape(todo[p]) /\ Shape(todo'[p]) /\ Top(p) = todo[p][1] /\ Top(p) \in Calling
         /\ Len(todo[p]) \in Nat /\ Len(todo'[p]) = Len(todo[p]) /\ Len(todo[p]) > 0
         /\ todo'[p][1] = Call(name, Top(p).file)
         /\ \A i \in 1..Len(todo'[p]) : i > 1 => todo'[p][i] = todo[p][i]
<1>1. todo \in [Editor -> Seq(Calling)] /\ Shape(todo[p]) /\ todo[p] \in Seq(Calling)
  BY DEF TInv, DataInv, CallsInv
<1>2. Top(p) = todo[p][1] /\ Top(p) \in Calling /\ Len(todo[p]) \in Nat /\ Len(todo[p]) > 0
  BY <1>1 DEF Top
<1>3. todo' = [todo EXCEPT ![p] = <<Call(name, todo[p][1].file)>> \o Tail(todo[p])]
  BY <1>2 DEF Goto, Become
<1> DEFINE r == <<Call(name, todo[p][1].file)>> \o Tail(todo[p])
<1>4. Shape(r) /\ Len(r) = Len(todo[p]) /\ r[1] = Call(name, todo[p][1].file)
      /\ \A i \in 1..Len(r) : i > 1 => r[i] = todo[p][i]
  BY <1>1, <1>2, ShapeOfGoto
<1>5. r \in Seq(Calling)
  BY <1>4 DEF Shape
<1> HIDE DEF r
<1>6. todo' = [todo EXCEPT ![p] = r]
  BY <1>3 DEF r
<1> QED
  BY <1>1, <1>2, <1>4, <1>5, <1>6

\* The paths, the names and the numbers.
LEMMA PathFacts ==
  /\ \A f \in File : At(f) \in Path /\ Backup(f) \in Path
  /\ \A q \in Temps : q \in Path
  /\ \A d : (\E q \in Temps : IsFree(d, q)) => FreeTemp(d) \in Temps /\ IsFree(d, FreeTemp(d))
  /\ Absent..MaxVersion = {Absent} \cup (Broken..MaxVersion)
  /\ MaxVersion \in Nat \ {0} /\ Absent = -2 /\ Broken = -1
  /\ \A f \in File : f \in Name
  /\ NoName \in Name /\ Closed \in Name /\ NoName \notin File /\ Closed \notin File
<1>1. \A f \in File : At(f) \in Path /\ Backup(f) \in Path
  BY DEF Path
<1>2. \A q \in Temps : q \in Path
  BY DEF Path
<1>3. \A d : (\E q \in Temps : IsFree(d, q)) => FreeTemp(d) \in Temps /\ IsFree(d, FreeTemp(d))
  BY Zenon DEF FreeTemp
<1>4. MaxVersion \in Nat \ {0} /\ NoName \notin File /\ Closed \notin File
  BY EditFileAssumption
<1>5. Absent..MaxVersion = {Absent} \cup (Broken..MaxVersion)
  BY <1>4 DEF Absent, Broken
<1> QED
  BY <1>1, <1>2, <1>3, <1>4, <1>5 DEF Absent, Broken, Name

\* The windows, and with a field changed.
LEMMA EdFacts ==
  ASSUME DataInv, NEW p \in Editor
  PROVE  /\ ed \in [Editor -> Windows] /\ ed[p] \in Windows
         /\ ed[p].file \in Name /\ ed[p].text \in Broken..MaxVersion
         /\ ed[p].locked \in BOOLEAN /\ ed[p].modified \in BOOLEAN /\ ed[p].delete_file \in BOOLEAN
         /\ \A f \in Name, v \in Broken..MaxVersion, b \in BOOLEAN :
              [ed EXCEPT ![p] = Window(f, v, b)] \in [Editor -> Windows]
         /\ [ed EXCEPT ![p].locked = FALSE] \in [Editor -> Windows]
         /\ \A v \in Broken..MaxVersion, b \in BOOLEAN :
              [ed EXCEPT ![p].text = v, ![p].modified = TRUE, ![p].locked = b] \in [Editor -> Windows]
         /\ \A f \in Name :
              [ed EXCEPT ![p].file = f, ![p].modified = FALSE, ![p].delete_file = FALSE]
                \in [Editor -> Windows]
<1>1. ed \in [Editor -> Windows] /\ ed[p] \in Windows
  BY DEF DataInv
<1>2. ed[p].file \in Name /\ ed[p].text \in Broken..MaxVersion
      /\ ed[p].locked \in BOOLEAN /\ ed[p].modified \in BOOLEAN /\ ed[p].delete_file \in BOOLEAN
  BY <1>1 DEF Windows
<1>3. ASSUME NEW f \in Name, NEW v \in Broken..MaxVersion, NEW b \in BOOLEAN
      PROVE  [ed EXCEPT ![p] = Window(f, v, b)] \in [Editor -> Windows]
  <2>1. Window(f, v, b) \in Windows
    BY DEF Window, Windows
  <2> QED
    BY <1>1, <2>1
<1>4. [ed EXCEPT ![p].locked = FALSE] \in [Editor -> Windows]
  BY <1>1, <1>2 DEF Windows
<1>5. \A v \in Broken..MaxVersion, b \in BOOLEAN :
       [ed EXCEPT ![p].text = v, ![p].modified = TRUE, ![p].locked = b] \in [Editor -> Windows]
  BY <1>1, <1>2 DEF Windows
<1>6. \A f \in Name :
       [ed EXCEPT ![p].file = f, ![p].modified = FALSE, ![p].delete_file = FALSE]
         \in [Editor -> Windows]
  BY <1>1, <1>2 DEF Windows
<1> QED
  BY <1>1, <1>2, <1>3, <1>4, <1>5, <1>6

LEMMA NewFacts ==
  ASSUME DataInv, NEW p \in Editor
  PROVE  /\ new \in [Editor -> Windows] /\ new[p] \in Windows
         /\ new[p].file \in Name /\ new[p].text \in Broken..MaxVersion
         /\ new[p].locked \in BOOLEAN /\ new[p].modified \in BOOLEAN /\ new[p].delete_file \in BOOLEAN
         /\ \A f \in Name, v \in Broken..MaxVersion, b \in BOOLEAN :
              [new EXCEPT ![p] = Window(f, v, b)] \in [Editor -> Windows]
         /\ [ed EXCEPT ![p] = new[p]] \in [Editor -> Windows]
         /\ \A v \in Broken..MaxVersion : [new EXCEPT ![p].text = v] \in [Editor -> Windows]
<1>1. new \in [Editor -> Windows] /\ new[p] \in Windows
  BY DEF DataInv
<1>2. new[p].file \in Name /\ new[p].text \in Broken..MaxVersion
      /\ new[p].locked \in BOOLEAN /\ new[p].modified \in BOOLEAN /\ new[p].delete_file \in BOOLEAN
  BY <1>1 DEF Windows
<1>3. ASSUME NEW f \in Name, NEW v \in Broken..MaxVersion, NEW b \in BOOLEAN
      PROVE  [new EXCEPT ![p] = Window(f, v, b)] \in [Editor -> Windows]
  <2>1. Window(f, v, b) \in Windows
    BY DEF Window, Windows
  <2> QED
    BY <1>1, <2>1
<1>4. [ed EXCEPT ![p] = new[p]] \in [Editor -> Windows]
  BY <1>1, <1>2 DEF DataInv
<1>5. \A v \in Broken..MaxVersion : [new EXCEPT ![p].text = v] \in [Editor -> Windows]
  BY <1>1, <1>2 DEF Windows
<1> QED
  BY <1>1, <1>2, <1>3, <1>4, <1>5

LEMMA FollowType ==
  ASSUME DataInv, NEW from, NEW to, to \in Path \/ from \notin Path \cup {NoPath}, Follow(from, to)
  PROVE  fd' \in [Editor -> Path \cup {NoPath}]
  BY DEF DataInv, Follow

LEMMA RenameType ==
  ASSUME DataInv, NEW from \in Path, NEW to \in Path, Rename(from, to)
  PROVE  disk' \in [Path -> Absent..MaxVersion] /\ fd' \in [Editor -> Path \cup {NoPath}]
  BY FollowType, PathFacts DEF DataInv, Rename

LEMMA ReturnsType ==
  ASSUME DataInv, NEW p \in Editor, NEW ok \in BOOLEAN, Returns(p, ok)
  PROVE  result' \in [Editor -> BOOLEAN] /\ acknowledged' \in [File -> Broken..MaxVersion]
  BY EdFacts DEF DataInv, Returns

\* The call that is made.
LEMMA TopFacts ==
  ASSUME TInv, NEW p \in Editor, todo[p] # <<>>
  PROVE  /\ p \in alive /\ Shape(todo[p]) /\ PathInv(p)
         /\ Top(p) = todo[p][1] /\ Top(p) \in Calling /\ Top(p).file \in Name
         /\ Len(todo[p]) \in Nat /\ Len(todo[p]) > 0 /\ 1 \in 1..Len(todo[p])
         /\ \A names : Is(p, 1, names) <=> Top(p).call \in names
<1>1. p \in alive /\ Shape(todo[p]) /\ PathInv(p) /\ todo[p] \in Seq(Calling)
  BY DEF TInv, CallsInv
<1>2. Top(p) = todo[p][1] /\ Top(p) \in Calling /\ Len(todo[p]) \in Nat /\ Len(todo[p]) > 0
  BY <1>1 DEF Top
<1>3. Top(p).file \in Name
  BY <1>2 DEF Calling
<1>4. \A names : Is(p, 1, names) <=> Top(p).call \in names
  BY <1>2 DEF Is
<1> QED
  BY <1>1, <1>2, <1>3, <1>4

\* Where a save is, its file and the path it writes are known; and so is a file that is opened.
LEMMA SavingFacts ==
  ASSUME TInv, NEW p \in Editor, todo[p] # <<>>
  PROVE  /\ Top(p).call \in Opening => Top(p).file \in File
         /\ Top(p).call \in Saving \ {"save"} => Top(p).file \in File
         /\ Top(p).call \in Writing => savename[p] \in {At(Top(p).file)} \cup Temps /\ savename[p] \in Path
         /\ Top(p).call \in {"backup", "replace"} => savename[p] \in Temps
         /\ fd[p] # NoPath => Top(p).call = "write"
<1>1. PathInv(p) /\ \A names : Is(p, 1, names) <=> Top(p).call \in names
  BY TopFacts
<1>2. /\ Top(p).call \in Opening => Top(p).file \in File
      /\ Top(p).call \in Saving \ {"save"} => Top(p).file \in File
      /\ Top(p).call \in Writing => savename[p] \in {At(Top(p).file)} \cup Temps
      /\ Top(p).call \in {"backup", "replace"} => savename[p] \in Temps
      /\ fd[p] # NoPath => Top(p).call \in {"write"}
  BY <1>1 DEF PathInv
<1>3. Top(p).call \in Writing => Top(p).file \in File
  BY <1>2 DEF Saving, Writing
<1> QED
  BY <1>2, <1>3, PathFacts

LEMMA DataStep ==
  ASSUME TInv, NEW p \in Editor, Step(p)
  PROVE  DataInv'
<1>a. DataInv
  BY DEF TInv
<1>b. todo[p] # <<>> =>
        /\ Top(p).file \in Name
        /\ Top(p).call \in Opening => Top(p).file \in File
        /\ Top(p).call \in Saving \ {"save"} => Top(p).file \in File
        /\ Top(p).call \in Writing => savename[p] \in Path
  BY SavingFacts, TopFacts
<1>c. [ed EXCEPT ![p].locked = FALSE] \in [Editor -> Windows]
  BY <1>a, EdFacts
<1>d. Closed \in Name /\ NoName \in Name /\ 0 \in Broken..MaxVersion
  BY PathFacts
<1>e. \A f \in Name, v \in Broken..MaxVersion, b \in BOOLEAN :
        /\ [ed EXCEPT ![p] = Window(f, v, b)] \in [Editor -> Windows]
        /\ [new EXCEPT ![p] = Window(f, v, b)] \in [Editor -> Windows]
  BY <1>a, EdFacts, NewFacts
<1>f. \A v \in Broken..MaxVersion, b \in BOOLEAN :
        [ed EXCEPT ![p].text = v, ![p].modified = TRUE, ![p].locked = b] \in [Editor -> Windows]
  BY <1>a, EdFacts
<1> USE DEF historyVars, boundVars, modeVars, Calls
<1>1. CASE Lock(p)
  BY <1>a, <1>1 DEF Lock, DataInv
<1>2. CASE LockRead(p)
  BY <1>a, <1>2 DEF LockRead, DataInv
<1>3. CASE LockAnswer(p)
  BY <1>a, <1>3 DEF LockAnswer, DataInv
<1>4. CASE LockUnlink(p)
  BY <1>a, <1>4 DEF LockUnlink, Unlinked, DataInv
<1>5. CASE LockSymlink(p)
  <2>1. PICK ok \in BOOLEAN : /\ lock' = IF ok THEN [lock EXCEPT ![Top(p).file] = p] ELSE lock
                              /\ got' = [got EXCEPT ![p] = ok]
                              /\ robbed' = IF ok THEN robbed \ {p} ELSE robbed
    BY <1>5 DEF LockSymlink
  <2>2. lock' \in [File -> Editor \cup {Dead, NoLock}] /\ got' \in [Editor -> BOOLEAN] /\ robbed' \subseteq Editor
    BY <1>a, <2>1 DEF DataInv
  <2>3. UNCHANGED <<disk, alive, ed, new, result, fd, savename, versions, refused, acknowledged,
                    option_save_mode, together>>
    BY <1>5 DEF LockSymlink
  <2> QED
    BY <1>a, <2>2, <2>3 DEF DataInv
<1>6. CASE Unlock(p)
  <2>1. ed' = ed \/ ed' = [ed EXCEPT ![p].locked = FALSE]
    BY <1>6 DEF Unlock, Unlocked
  <2>2. ed' \in [Editor -> Windows]
    BY <1>a, <2>1, <1>c DEF DataInv
  <2>3. UNCHANGED <<disk, lock, alive, new, got, result, fd, savename, versions, refused, robbed,
                    acknowledged, option_save_mode, together>>
    BY <1>6 DEF Unlock
  <2> QED
    BY <1>a, <2>2, <2>3 DEF DataInv
<1>7. CASE UnlockRead(p)
  <2>1. ed' = ed \/ ed' = [ed EXCEPT ![p].locked = FALSE]
    BY <1>7 DEF UnlockRead, Unlocked
  <2>2. ed' \in [Editor -> Windows]
    BY <1>a, <2>1, <1>c DEF DataInv
  <2>3. UNCHANGED <<disk, lock, alive, new, got, result, fd, savename, versions, refused, robbed,
                    acknowledged, option_save_mode, together>>
    BY <1>7 DEF UnlockRead
  <2> QED
    BY <1>a, <2>2, <2>3 DEF DataInv
<1>8. CASE UnlockUnlink(p)
  <2>1. ed' = ed \/ ed' = [ed EXCEPT ![p].locked = FALSE]
    BY <1>8 DEF UnlockUnlink, Unlocked
  <2>2. ed' \in [Editor -> Windows]
    BY <1>a, <2>1, <1>c DEF DataInv
  <2>3. lock' \in [File -> Editor \cup {Dead, NoLock}] /\ robbed' \subseteq Editor
    BY <1>a, <1>8 DEF UnlockUnlink, Unlinked, DataInv
  <2>4. UNCHANGED <<disk, alive, new, got, result, fd, savename, versions, refused, acknowledged,
                    option_save_mode, together>>
    BY <1>8 DEF UnlockUnlink
  <2> QED
    BY <1>a, <2>2, <2>3, <2>4 DEF DataInv
<1>9. CASE Save(p)
  <2>1. IF Top(p).file \notin File THEN Returns(p, FALSE) /\ UNCHANGED savename
        ELSE /\ \E q \in {At(Top(p).file), NoPath} : savename' = [savename EXCEPT ![p] = q]
             /\ \E v \in {0, acknowledged[Top(p).file]} : acknowledged' = [acknowledged EXCEPT ![Top(p).file] = v]
             /\ UNCHANGED result
    BY <1>9 DEF Save
  <2>2. savename' \in [Editor -> Path \cup {NoPath}]
        /\ result' \in [Editor -> BOOLEAN] /\ acknowledged' \in [File -> Broken..MaxVersion]
    <3>1. CASE Top(p).file \in File
      <4>1. At(Top(p).file) \in Path /\ 0 \in Broken..MaxVersion
        BY <3>1, PathFacts
      <4>2. PICK q \in {At(Top(p).file), NoPath} : savename' = [savename EXCEPT ![p] = q]
        BY <2>1, <3>1
      <4>3. savename' \in [Editor -> Path \cup {NoPath}]
        BY <1>a, <4>1, <4>2 DEF DataInv
      <4>4. PICK v \in {0, acknowledged[Top(p).file]} :
              acknowledged' = [acknowledged EXCEPT ![Top(p).file] = v]
        BY <2>1, <3>1
      <4>5. acknowledged' \in [File -> Broken..MaxVersion]
        BY <1>a, <3>1, <4>1, <4>4 DEF DataInv
      <4> QED
        BY <1>a, <2>1, <3>1, <4>3, <4>5 DEF DataInv
    <3>2. CASE Top(p).file \notin File
      BY <1>a, <2>1, <3>2, ReturnsType DEF DataInv
    <3> QED
      BY <3>1, <3>2
  <2>3. UNCHANGED <<disk, lock, alive, ed, new, got, fd, versions, refused, robbed,
                    option_save_mode, together>>
    BY <1>9 DEF Save
  <2> QED
    BY <1>a, <2>2, <2>3 DEF DataInv
<1>10. CASE SaveTemp(p)
  <2>1. PICK ok \in BOOLEAN : /\ ok => \E q \in Temps : IsFree(disk, q)
                              /\ IF ok THEN /\ disk' = [disk EXCEPT ![FreeTemp(disk)] = 0]
                                            /\ savename' = [savename EXCEPT ![p] = FreeTemp(disk)]
                                            /\ UNCHANGED <<result, acknowledged>>
                                 ELSE Returns(p, FALSE) /\ UNCHANGED <<disk, savename>>
    BY <1>10 DEF SaveTemp
  <2>2. disk' \in [Path -> Absent..MaxVersion] /\ savename' \in [Editor -> Path \cup {NoPath}]
        /\ result' \in [Editor -> BOOLEAN] /\ acknowledged' \in [File -> Broken..MaxVersion]
    <3>1. CASE ok
      <4>1. FreeTemp(disk) \in Path
        BY <2>1, <3>1, PathFacts
      <4> QED
        BY <1>a, <2>1, <3>1, <4>1, PathFacts DEF DataInv
    <3>2. CASE ~ok
      BY <1>a, <2>1, <3>2, ReturnsType DEF DataInv
    <3> QED
      BY <3>1, <3>2
  <2>3. UNCHANGED <<lock, alive, ed, new, got, fd, versions, refused, robbed, option_save_mode,
                    together>>
    BY <1>10 DEF SaveTemp
  <2> QED
    BY <1>a, <2>2, <2>3 DEF DataInv
<1>11. CASE SaveOpen(p)
  <2>1. PICK ok \in BOOLEAN : IF ok THEN /\ disk' = [disk EXCEPT ![savename[p]] = Broken]
                                         /\ fd' = [fd EXCEPT ![p] = savename[p]]
                                         /\ UNCHANGED <<result, acknowledged>>
                                    ELSE Returns(p, FALSE) /\ UNCHANGED <<disk, fd>>
    BY <1>11 DEF SaveOpen
  <2>2. disk' \in [Path -> Absent..MaxVersion] /\ fd' \in [Editor -> Path \cup {NoPath}]
        /\ result' \in [Editor -> BOOLEAN] /\ acknowledged' \in [File -> Broken..MaxVersion]
    <3>1. CASE ok
      BY <1>a, <2>1, <3>1, PathFacts DEF DataInv
    <3>2. CASE ~ok
      BY <1>a, <2>1, <3>2, ReturnsType DEF DataInv
    <3> QED
      BY <3>1, <3>2
  <2>3. UNCHANGED <<lock, alive, ed, new, got, savename, versions, refused, robbed,
                    option_save_mode, together>>
    BY <1>11 DEF SaveOpen
  <2> QED
    BY <1>a, <2>2, <2>3 DEF DataInv
<1>12. CASE SaveWrite(p)
  <2>1. PICK ok \in BOOLEAN :
          /\ disk' = IF ok /\ fd[p] \in Path THEN [disk EXCEPT ![fd[p]] = ed[p].text] ELSE disk
          /\ IF SeemsWhole(p, ok) THEN AfterWrite(p) ELSE Returns(p, FALSE)
          /\ fd' = [fd EXCEPT ![p] = NoPath]
    BY <1>12 DEF SaveWrite, Close
  <2>2. disk' \in [Path -> Absent..MaxVersion] /\ fd' \in [Editor -> Path \cup {NoPath}]
    BY <1>a, <2>1, EdFacts, PathFacts DEF DataInv
  <2>3. Returns(p, TRUE) \/ Returns(p, FALSE) \/ UNCHANGED <<result, acknowledged>>
    BY <2>1 DEF AfterWrite
  <2>4. result' \in [Editor -> BOOLEAN] /\ acknowledged' \in [File -> Broken..MaxVersion]
    BY <1>a, <2>3, ReturnsType DEF DataInv
  <2>5. UNCHANGED <<lock, alive, ed, new, got, savename, versions, refused, robbed,
                    option_save_mode, together>>
    BY <1>12 DEF SaveWrite
  <2> QED
    BY <1>a, <2>2, <2>4, <2>5 DEF DataInv
<1>13. CASE SaveBackup(p)
  <2>0. Top(p).file \in File
    BY <1>b, <1>13 DEF SaveBackup, Saving, Writing
  <2>1. PICK ok \in BOOLEAN :
          IF ok THEN Rename(At(Top(p).file), Backup(Top(p).file)) /\ UNCHANGED <<result, acknowledged>>
                ELSE Returns(p, FALSE) /\ UNCHANGED <<disk, fd>>
    BY <1>13 DEF SaveBackup
  <2>2. disk' \in [Path -> Absent..MaxVersion] /\ fd' \in [Editor -> Path \cup {NoPath}]
        /\ result' \in [Editor -> BOOLEAN] /\ acknowledged' \in [File -> Broken..MaxVersion]
    <3>1. CASE ok
      BY <1>a, <2>0, <2>1, <3>1, PathFacts, RenameType DEF DataInv
    <3>2. CASE ~ok
      BY <1>a, <2>1, <3>2, ReturnsType DEF DataInv
    <3> QED
      BY <3>1, <3>2
  <2>3. UNCHANGED <<lock, alive, ed, new, got, savename, versions, refused, robbed,
                    option_save_mode, together>>
    BY <1>13 DEF SaveBackup
  <2> QED
    BY <1>a, <2>2, <2>3 DEF DataInv
<1>14. CASE SaveReplace(p)
  <2>0. Top(p).file \in File /\ savename[p] \in Path
    BY <1>b, <1>14 DEF SaveReplace, Saving, Writing
  <2>1. PICK ok \in BOOLEAN :
          /\ IF ok THEN Rename(savename[p], At(Top(p).file)) ELSE UNCHANGED <<disk, fd>>
          /\ Returns(p, ok)
    BY <1>14 DEF SaveReplace
  <2>2. disk' \in [Path -> Absent..MaxVersion] /\ fd' \in [Editor -> Path \cup {NoPath}]
    BY <1>a, <2>0, <2>1, PathFacts, RenameType DEF DataInv
  <2>3. result' \in [Editor -> BOOLEAN] /\ acknowledged' \in [File -> Broken..MaxVersion]
    BY <1>a, <2>1, ReturnsType
  <2>4. UNCHANGED <<lock, alive, ed, new, got, savename, versions, refused, robbed,
                    option_save_mode, together>>
    BY <1>14 DEF SaveReplace
  <2> QED
    BY <1>a, <2>2, <2>3, <2>4 DEF DataInv
<1>15. CASE Saved(p)
  BY <1>a, <1>15 DEF Saved, Forget, DataInv
<1>16. CASE AskName(p)
  BY <1>a, <1>16 DEF AskName, DataInv
<1>17. CASE Exists(p)
  BY <1>a, <1>17 DEF Exists, DataInv
<1>18. CASE SavedAs(p)
  BY <1>a, <1>18 DEF SavedAs, Forget, DataInv
<1>19. CASE Named(p)
  <2>1. todo[p] # <<>>
        /\ ed' = [ed EXCEPT ![p].file = Top(p).file, ![p].modified = FALSE, ![p].delete_file = FALSE]
    BY <1>19 DEF Named
  <2>2. ed' \in [Editor -> Windows]
    BY <1>a, <1>b, <2>1, EdFacts
  <2>3. UNCHANGED <<disk, lock, alive, new, got, result, fd, savename, versions, refused, robbed,
                    acknowledged, option_save_mode, together>>
    BY <1>19 DEF Named
  <2> QED
    BY <1>a, <2>2, <2>3 DEF DataInv
<1>20. CASE Modified(p)
  <2>1. versions < MaxVersion /\ versions' = versions + 1 /\ got' = [got EXCEPT ![p] = FALSE]
        /\ ed' = [ed EXCEPT ![p].text = versions + 1, ![p].modified = TRUE, ![p].locked = got[p]]
        /\ refused' \in {refused \ {p}, refused \cup {p}}
    BY <1>20 DEF Modified, Change
  <2>2. versions + 1 \in Broken..MaxVersion /\ versions + 1 \in 0..MaxVersion /\ got[p] \in BOOLEAN
    BY <1>a, <2>1, PathFacts DEF DataInv
  <2>3. ed' \in [Editor -> Windows]
    BY <1>f, <2>1, <2>2
  <2>4. versions' \in 0..MaxVersion /\ got' \in [Editor -> BOOLEAN] /\ refused' \subseteq Editor
    BY <1>a, <2>1, <2>2 DEF DataInv
  <2>5. UNCHANGED <<disk, lock, alive, new, result, fd, savename, robbed, acknowledged,
                    option_save_mode, together>>
    BY <1>20 DEF Modified
  <2> QED
    BY <1>a, <2>3, <2>4, <2>5 DEF DataInv
<1>21. CASE Open(p)
  <2>1. Top(p).file \in File
    BY <1>b, <1>21 DEF Open, Opening
  <2>2. \/ UNCHANGED new
        \/ disk[At(Top(p).file)] # Absent /\ new' = [new EXCEPT ![p] = Window(Top(p).file, disk[At(Top(p).file)], FALSE)]
    BY <1>21 DEF Open
  <2>3. disk[At(Top(p).file)] \in Absent..MaxVersion
    BY <1>a, <2>1, PathFacts DEF DataInv
  <2>4. disk[At(Top(p).file)] # Absent => disk[At(Top(p).file)] \in Broken..MaxVersion
    BY <2>3 DEF Absent, Broken
  <2>5. new' \in [Editor -> Windows]
    <3>1. disk[At(Top(p).file)] # Absent =>
            [new EXCEPT ![p] = Window(Top(p).file, disk[At(Top(p).file)], FALSE)] \in [Editor -> Windows]
      BY <1>b, <1>e, <1>21, <2>4 DEF Open
    <3> QED
      BY <1>a, <2>2, <3>1 DEF DataInv
  <2>6. UNCHANGED <<disk, lock, alive, ed, got, result, fd, savename, versions, refused, robbed,
                    acknowledged, option_save_mode, together>>
    BY <1>21 DEF Open
  <2> QED
    BY <1>a, <2>5, <2>6 DEF DataInv
<1>22. CASE Create(p)
  <2>1. Top(p).file \in File
    BY <1>b, <1>22 DEF Create, Opening
  <2>2. \/ UNCHANGED <<disk, new>>
        \/ /\ disk' = [disk EXCEPT ![At(Top(p).file)] = 0]
           /\ new' = [new EXCEPT ![p] = Window(Top(p).file, 0, TRUE)]
    BY <1>22 DEF Create
  <2>3. 0 \in Broken..MaxVersion /\ 0 \in Absent..MaxVersion
    BY PathFacts
  <2>4. new' \in [Editor -> Windows]
    <3>1. [new EXCEPT ![p] = Window(Top(p).file, 0, TRUE)] \in [Editor -> Windows]
      BY <1>b, <1>e, <1>22, <2>3 DEF Create
    <3> QED
      BY <1>a, <2>2, <3>1 DEF DataInv
  <2>5. disk' \in [Path -> Absent..MaxVersion]
    BY <1>a, <2>2, <2>3 DEF DataInv
  <2>6. UNCHANGED <<lock, alive, ed, got, result, fd, savename, versions, refused, robbed,
                    acknowledged, option_save_mode, together>>
    BY <1>22 DEF Create
  <2> QED
    BY <1>a, <2>4, <2>5, <2>6 DEF DataInv
<1>23. CASE Read(p)
  <2>1. Top(p).file \in File
    BY <1>b, <1>23 DEF Read, Opening
  <2>2. \/ UNCHANGED new
        \/ disk[At(Top(p).file)] > 0 /\ new' = [new EXCEPT ![p].text = disk[At(Top(p).file)]]
        \/ new' = [new EXCEPT ![p].text = Broken]
    BY <1>23 DEF Read
  <2>3. disk[At(Top(p).file)] \in Absent..MaxVersion
    BY <1>a, <2>1, PathFacts DEF DataInv
  <2>4. disk[At(Top(p).file)] > 0 => disk[At(Top(p).file)] \in Broken..MaxVersion
    BY <2>3 DEF Absent, Broken
  <2>5. Broken \in Broken..MaxVersion
    BY PathFacts
  <2>6. new' \in [Editor -> Windows]
    BY <1>a, <2>2, <2>4, <2>5, NewFacts
  <2>7. UNCHANGED <<disk, lock, alive, ed, got, result, fd, savename, versions, refused, robbed,
                    acknowledged, option_save_mode, together>>
    BY <1>23 DEF Read
  <2> QED
    BY <1>a, <2>6, <2>7 DEF DataInv
<1>24. CASE Take(p)
  <2>1. ed' = [ed EXCEPT ![p] = new[p]] /\ new' = [new EXCEPT ![p] = Window(Closed, 0, FALSE)]
        /\ refused' = refused \ {p}
    BY <1>24 DEF Take
  <2>2. ed' \in [Editor -> Windows]
    BY <1>a, <2>1, NewFacts
  <2>3. new' \in [Editor -> Windows]
    BY <1>d, <1>e, <2>1
  <2>4. refused' \subseteq Editor
    BY <1>a, <2>1 DEF DataInv
  <2>5. UNCHANGED <<disk, lock, alive, got, result, fd, savename, versions, robbed, acknowledged,
                    option_save_mode, together>>
    BY <1>24 DEF Take
  <2> QED
    BY <1>a, <2>2, <2>3, <2>4, <2>5 DEF DataInv
<1>25. CASE Clean(p)
  BY <1>a, <1>25 DEF Clean, DataInv
<1>26. CASE Unlink(p)
  <2>1. disk' = [disk EXCEPT ![At(Top(p).file)] = Absent] /\ Follow(<<"nowhere">>, At(Top(p).file))
    BY <1>26 DEF Unlink
  <2>2. disk' \in [Path -> Absent..MaxVersion]
    BY <1>a, <2>1, PathFacts DEF DataInv
  <2>3. fd' \in [Editor -> Path \cup {NoPath}]
    <3>1. <<"nowhere">> \notin Path \cup {NoPath}
      BY DEF Path, Temps, At, Backup, NoPath
    <3> QED
      BY <1>a, <2>1, <3>1, FollowType
  <2>4. UNCHANGED <<lock, alive, ed, new, got, result, savename, versions, refused, robbed,
                    acknowledged, option_save_mode, together>>
    BY <1>26 DEF Unlink
  <2> QED
    BY <1>a, <2>2, <2>3, <2>4 DEF DataInv
<1>27. CASE Leave(p)
  <2>1. PICK f \in {Closed, NoName} : ed' = [ed EXCEPT ![p] = Window(f, 0, FALSE)]
    BY <1>27 DEF Leave
  <2>2. ed' \in [Editor -> Windows]
    <3>1. [ed EXCEPT ![p] = Window(f, 0, FALSE)] \in [Editor -> Windows]
      BY <1>d, <1>e
    <3> QED
      BY <2>1, <3>1
  <2>3. refused' \subseteq Editor /\ robbed' \subseteq Editor
    BY <1>a, <1>27 DEF Leave, DataInv
  <2>4. UNCHANGED <<disk, lock, alive, new, got, result, fd, savename, versions, acknowledged,
                    option_save_mode, together>>
    BY <1>27 DEF Leave
  <2> QED
    BY <1>a, <2>2, <2>3, <2>4 DEF DataInv
<1>28. CASE SaveCommand(p)
  BY <1>a, <1>28 DEF SaveCommand, Command, DataInv
<1>29. CASE SaveAsCommand(p)
  BY <1>a, <1>29 DEF SaveAsCommand, Command, DataInv
<1>30. CASE Modify(p)
  <2>1. \/ UNCHANGED <<versions, ed>>
        \/ /\ versions < MaxVersion /\ versions' = versions + 1
           /\ ed' = [ed EXCEPT ![p].text = versions + 1, ![p].modified = TRUE, ![p].locked = ed[p].locked]
    BY <1>30 DEF Modify, Change
  <2>2. versions < MaxVersion => versions + 1 \in Broken..MaxVersion /\ versions + 1 \in 0..MaxVersion
    BY <1>a, PathFacts DEF DataInv
  <2>3. ed[p].locked \in BOOLEAN
    BY <1>a, EdFacts
  <2>4. ed' \in [Editor -> Windows]
    <3>1. versions < MaxVersion =>
            [ed EXCEPT ![p].text = versions + 1, ![p].modified = TRUE, ![p].locked = ed[p].locked]
              \in [Editor -> Windows]
      BY <1>f, <2>2, <2>3
    <3> QED
      BY <1>a, <2>1, <3>1 DEF DataInv
  <2>5. versions' \in 0..MaxVersion
    BY <1>a, <2>1, <2>2 DEF DataInv
  <2>6. got' \in [Editor -> BOOLEAN]
    BY <1>a, <1>30 DEF Modify, Command, DataInv
  <2>7. UNCHANGED <<disk, lock, alive, new, result, fd, savename, refused, robbed, acknowledged,
                    option_save_mode, together>>
    BY <1>30 DEF Modify
  <2> QED
    BY <1>a, <2>4, <2>5, <2>6, <2>7 DEF DataInv
<1>31. CASE Start(p)
  BY <1>a, <1>31 DEF Start, Command, DataInv
<1>32. CASE LoadCommand(p)
  BY <1>a, <1>32 DEF LoadCommand, Command, DataInv
<1>33. CASE NewCommand(p)
  BY <1>a, <1>33 DEF NewCommand, Command, DataInv
<1>34. CASE QuitCommand(p)
  BY <1>a, <1>34 DEF QuitCommand, Command, DataInv
<1>35. CASE Crash(p)
  <2>1. ed' = [ed EXCEPT ![p] = Window(Closed, 0, FALSE)]
        /\ new' = [new EXCEPT ![p] = Window(Closed, 0, FALSE)]
    BY <1>35 DEF Crash
  <2>2. ed' \in [Editor -> Windows]
    BY <1>d, <1>e, <2>1
  <2>3. new' \in [Editor -> Windows]
    BY <1>d, <1>e, <2>1
  <2>4. alive' \subseteq Editor /\ refused' \subseteq Editor /\ robbed' \subseteq Editor
        /\ fd' \in [Editor -> Path \cup {NoPath}] /\ savename' \in [Editor -> Path \cup {NoPath}]
        /\ got' \in [Editor -> BOOLEAN] /\ result' \in [Editor -> BOOLEAN]
    BY <1>a, <1>35 DEF Crash, Forget, DataInv
  <2>5. UNCHANGED <<disk, lock, versions, acknowledged, option_save_mode, together>>
    BY <1>35 DEF Crash
  <2> QED
    BY <1>a, <2>2, <2>3, <2>4, <2>5 DEF DataInv
<1> QED
  BY <1>1, <1>2, <1>3, <1>4, <1>5, <1>6, <1>7, <1>8, <1>9, <1>10, <1>11, <1>12, <1>13, <1>14, <1>15, <1>16, <1>17, <1>18, <1>19, <1>20, <1>21, <1>22, <1>23, <1>24, <1>25, <1>26, <1>27, <1>28, <1>29, <1>30, <1>31, <1>32, <1>33, <1>34, <1>35 DEF Step

\* What belongs to the other processes stays, but for the file that one of them writes,
\* which may lose its path or get another.
LEMMA Frame ==
  ASSUME TInv, NEW p \in Editor, Step(p), NEW q \in Editor, q # p
  PROVE  /\ todo'[q] = todo[q] /\ ed'[q] = ed[q] /\ new'[q] = new[q] /\ got'[q] = got[q]
         /\ savename'[q] = savename[q] /\ (q \in alive' <=> q \in alive)
         /\ fd[q] = NoPath => fd'[q] = NoPath
<1>a. /\ todo \in [Editor -> Seq(Calling)] /\ ed \in [Editor -> Windows] /\ new \in [Editor -> Windows]
      /\ got \in [Editor -> BOOLEAN] /\ savename \in [Editor -> Path \cup {NoPath}]
      /\ fd \in [Editor -> Path \cup {NoPath}]
  BY DEF TInv, DataInv, CallsInv
<1>b. \A f : NoPath # At(f) /\ (savename[p] \in Temps => savename[p] # NoPath) /\ NoPath # <<"nowhere">>
  BY DEF NoPath, At, Temps
<1>c. todo[p] # <<>> => (Top(p).call = "replace" => savename[p] \in Temps)
  BY SavingFacts
<1> USE DEF historyVars, boundVars, modeVars, Calls
<1>1. CASE Lock(p)
  BY <1>a, <1>1 DEF Lock, Goto, Done, Become
<1>2. CASE LockRead(p)
  BY <1>a, <1>2 DEF LockRead, Goto, Done, Become
<1>3. CASE LockAnswer(p)
  BY <1>a, <1>3 DEF LockAnswer, Goto, Done, Become
<1>4. CASE LockUnlink(p)
  BY <1>a, <1>4 DEF LockUnlink, Goto, Become
<1>5. CASE LockSymlink(p)
  BY <1>a, <1>5 DEF LockSymlink, Done, Become
<1>6. CASE Unlock(p)
  BY <1>a, <1>6 DEF Unlock, Unlocked, Goto, Done, Become
<1>7. CASE UnlockRead(p)
  BY <1>a, <1>7 DEF UnlockRead, Unlocked, Goto, Done, Become
<1>8. CASE UnlockUnlink(p)
  BY <1>a, <1>8 DEF UnlockUnlink, Unlocked, Done, Become
<1>9. CASE Save(p)
  BY <1>a, <1>9 DEF Save, Returns, Goto, Done, Become
<1>10. CASE SaveTemp(p)
  BY <1>a, <1>10 DEF SaveTemp, Returns, Goto, Done, Become
<1>11. CASE SaveOpen(p)
  BY <1>a, <1>11 DEF SaveOpen, Returns, Goto, Done, Become
<1>12. CASE SaveWrite(p)
  BY <1>a, <1>12 DEF SaveWrite, AfterWrite, Close, Returns, Goto, Done, Become
<1>13. CASE SaveBackup(p)
  BY <1>a, <1>b, <1>13 DEF SaveBackup, Rename, Follow, Returns, Goto, Done, Become
<1>14. CASE SaveReplace(p)
  BY <1>a, <1>b, <1>c, <1>14 DEF SaveReplace, Rename, Follow, Returns, Done, Become
<1>15. CASE Saved(p)
  BY <1>a, <1>15 DEF Saved, Forget, Become
<1>16. CASE AskName(p)
  BY <1>a, <1>16 DEF AskName, EndWith, Become
<1>17. CASE Exists(p)
  BY <1>a, <1>17 DEF Exists, EndWith, Done, Become
<1>18. CASE SavedAs(p)
  BY <1>a, <1>18 DEF SavedAs, Forget, EndWith, Become
<1>19. CASE Named(p)
  BY <1>a, <1>19 DEF Named, Done, Become
<1>20. CASE Modified(p)
  BY <1>a, <1>20 DEF Modified, Change, Done, Become
<1>21. CASE Open(p)
  BY <1>a, <1>21 DEF Open, Goto, Become
<1>22. CASE Create(p)
  BY <1>a, <1>22 DEF Create, Goto, EndWith, Become
<1>23. CASE Read(p)
  BY <1>a, <1>23 DEF Read, Done, EndWith, Become
<1>24. CASE Take(p)
  BY <1>a, <1>24 DEF Take, Done, Become
<1>25. CASE Clean(p)
  BY <1>a, <1>25 DEF Clean, Become
<1>26. CASE Unlink(p)
  BY <1>a, <1>b, <1>26 DEF Unlink, Follow, Done, Become
<1>27. CASE Leave(p)
  BY <1>a, <1>27 DEF Leave, Done, Become
<1>28. CASE SaveCommand(p)
  BY <1>a, <1>28 DEF SaveCommand, Command, EndWith
<1>29. CASE SaveAsCommand(p)
  BY <1>a, <1>29 DEF SaveAsCommand, Command, EndWith
<1>30. CASE Modify(p)
  BY <1>a, <1>30 DEF Modify, Change, Command, EndWith
<1>31. CASE Start(p)
  BY <1>a, <1>31 DEF Start, Command, EndWith
<1>32. CASE LoadCommand(p)
  BY <1>a, <1>32 DEF LoadCommand, Command, EndWith
<1>33. CASE NewCommand(p)
  BY <1>a, <1>33 DEF NewCommand, Command, EndWith
<1>34. CASE QuitCommand(p)
  BY <1>a, <1>34 DEF QuitCommand, Command, EndWith
<1>35. CASE Crash(p)
  BY <1>a, <1>35 DEF Crash, Forget
<1> QED
  BY <1>1, <1>2, <1>3, <1>4, <1>5, <1>6, <1>7, <1>8, <1>9, <1>10, <1>11, <1>12, <1>13, <1>14, <1>15, <1>16, <1>17, <1>18, <1>19, <1>20, <1>21, <1>22, <1>23, <1>24, <1>25, <1>26, <1>27, <1>28, <1>29, <1>30, <1>31, <1>32, <1>33, <1>34, <1>35 DEF Step

\* The calls of the commands, as they are made one after the other.
LEMMA CallTypes ==
  ASSUME NEW f \in Name, NEW name \in CallName
  PROVE  Call(name, f) \in Calling /\ Call(name, f).call = name /\ Call(name, f).file = f
  BY DEF Call, Calling

LEMMA ShapeOfSave ==
  ASSUME TInv, NEW p \in Editor
  PROVE  LET f == ed[p].file
             s == <<Call("save", f), Call("saved", f)>>
         IN /\ SaveCalls(p) = IF ~ed[p].locked /\ ~ed[p].delete_file
                              THEN <<Call("lock", f), Call("save", f), Call("saved", f)>> ELSE s
            /\ Shape(SaveCalls(p)) /\ Len(SaveCalls(p)) \in {2, 3}
            /\ SaveCalls(p)[Len(SaveCalls(p))].call = "saved"
            /\ SaveCalls(p)[1].call \in {"lock", "save"}
<1> DEFINE f == ed[p].file
<1>1. f \in Name
  BY EdFacts DEF TInv
<1> HIDE DEF f
<1>2. /\ Call("lock", f) \in Calling /\ Call("save", f) \in Calling /\ Call("saved", f) \in Calling
      /\ Call("lock", f).call = "lock" /\ Call("save", f).call = "save" /\ Call("saved", f).call = "saved"
      /\ Call("lock", f).file = f /\ Call("save", f).file = f /\ Call("saved", f).file = f
  BY <1>1, CallTypes DEF CallName, ForFile, LockCalls, Saving
<1> DEFINE a == Call("lock", f)
           b == Call("save", f)
           c == Call("saved", f)
<1> HIDE DEF a, b, c
<1>3. SaveCalls(p) = IF ~ed[p].locked /\ ~ed[p].delete_file THEN <<a, b, c>> ELSE <<b, c>>
  <2>1. <<a>> \o <<b, c>> = <<a, b, c>> /\ <<>> \o <<b, c>> = <<b, c>>
    <3>1. a \in Calling /\ b \in Calling /\ c \in Calling /\ <<b, c>> \in Seq(Calling)
      BY <1>2 DEF a, b, c
    <3> QED
      BY <3>1, Together
  <2> QED
    BY <2>1 DEF SaveCalls, If, a, b, c, f
<1>4. Shape(<<a, b, c>>) /\ Shape(<<b, c>>)
  <2>1. MayFollow(a, b) /\ MayFollow(b, c) /\ MayEnd(c)
    BY <1>2 DEF MayFollow, MayEnd, LockCalls, Saving, a, b, c
  <2>2. a \in Calling /\ b \in Calling /\ c \in Calling /\ a.file = f /\ b.file = f /\ c.file = f
        /\ a.call \in ForFile /\ b.call \in ForFile /\ c.call \in ForFile
        /\ b.call # "unlink" /\ c.call \notin UnlockCalls \cup {"unlink"}
    BY <1>2 DEF a, b, c, ForFile, LockCalls, Saving, UnlockCalls
  <2> QED
    BY <2>1, <2>2, ShapeOfFew
<1> QED
  BY <1>2, <1>3, <1>4 DEF a, b, c, f

LEMMA ShapeOfSaveAs ==
  ASSUME TInv, NEW p \in Editor, NEW exp \in File
  PROVE  LET o == Call("exists", exp)
             a == Call("lock", exp)
             b == Call("save", exp)
             c == Call("saved_as", exp)
             s == SaveAsCalls(p, exp)
         IN /\ s = IF exp # ed[p].file THEN <<o, a, b, c>>
                   ELSE IF ~ed[p].locked /\ ~ed[p].delete_file THEN <<a, b, c>> ELSE <<b, c>>
            /\ Shape(s) /\ Len(s) \in 2..4 /\ s[Len(s)].call = "saved_as"
            /\ s[1].call \in {"exists", "lock", "save"}
<1>1. exp \in Name
  BY PathFacts
<1>2. /\ Call("exists", exp) \in Calling /\ Call("exists", exp).call = "exists" /\ Call("exists", exp).file = exp
      /\ Call("lock", exp) \in Calling /\ Call("lock", exp).call = "lock" /\ Call("lock", exp).file = exp
      /\ Call("save", exp) \in Calling /\ Call("save", exp).call = "save" /\ Call("save", exp).file = exp
      /\ Call("saved_as", exp) \in Calling /\ Call("saved_as", exp).call = "saved_as"
      /\ Call("saved_as", exp).file = exp
  BY <1>1, CallTypes DEF CallName, ForFile, LockCalls, Saving
<1> DEFINE o == Call("exists", exp)
           a == Call("lock", exp)
           b == Call("save", exp)
           c == Call("saved_as", exp)
<1>3. /\ o \in Calling /\ o.call = "exists" /\ o.file = exp /\ a \in Calling /\ a.call = "lock" /\ a.file = exp
      /\ b \in Calling /\ b.call = "save" /\ b.file = exp /\ c \in Calling /\ c.call = "saved_as" /\ c.file = exp
  BY <1>2
<1> HIDE DEF o, a, b, c
<1>4. SaveAsCalls(p, exp) = IF exp # ed[p].file THEN <<o, a, b, c>>
                            ELSE IF ~ed[p].locked /\ ~ed[p].delete_file THEN <<a, b, c>> ELSE <<b, c>>
  <2>1. <<a>> \o <<b, c>> = <<a, b, c>> /\ <<>> \o <<b, c>> = <<b, c>> /\ <<o, a>> \o <<b, c>> = <<o, a, b, c>>
    <3>1. <<b, c>> \in Seq(Calling)
      BY <1>3
    <3>2. o \in Calling /\ a \in Calling /\ b \in Calling /\ c \in Calling
      BY <1>3
    <3>3. /\ \A x, y, z \in Calling : <<x>> \o <<y, z>> = <<x, y, z>>
          /\ \A x, y, z, t \in Calling : <<x, y>> \o <<z, t>> = <<x, y, z, t>>
      BY Together
    <3>4. <<>> \o <<b, c>> = <<b, c>>
      BY <3>1, Together
    <3>5. <<a>> \o <<b, c>> = <<a, b, c>> /\ <<o, a>> \o <<b, c>> = <<o, a, b, c>>
      BY <3>2, <3>3, Zenon
    <3> QED
      BY <3>4, <3>5
  <2> QED
    BY <2>1 DEF SaveAsCalls, If, o, a, b, c
<1>5. Shape(<<o, a, b, c>>) /\ Shape(<<a, b, c>>) /\ Shape(<<b, c>>)
  <2>1. MayFollow(o, a) /\ MayFollow(a, b) /\ MayFollow(b, c) /\ MayEnd(c)
    BY <1>3 DEF MayFollow, MayEnd, LockCalls, Saving
  <2>2. o.call \in ForFile /\ a.call \in ForFile /\ b.call \in ForFile /\ c.call \in ForFile
        /\ a.call # "unlink" /\ b.call # "unlink" /\ b.call \notin UnlockCalls \cup {"unlink"}
        /\ c.call \notin UnlockCalls \cup {"unlink"}
    BY <1>3 DEF ForFile, LockCalls, Saving, UnlockCalls
  <2> QED
    BY <1>3, <2>1, <2>2, ShapeOfFew
<1> QED
  BY <1>3, <1>4, <1>5 DEF o, a, b, c

\* What unlocking, removing and the rest of a save can look like.
LEMMA ShapeOfUnlocks ==
  ASSUME NEW u \in Calling, u.call = "unlock", NEW v \in Calling, v.call = "unlock",
         NEW w \in Calling, w.call \in {"named", "ask_name", "unlink"}
  PROVE  /\ Shape(<<u>>) /\ Shape(<<u, v>>) /\ Shape(<<w>>) /\ Shape(<<u, w>>)
         /\ w.call = "named" => Shape(<<u, v, w>>)
         /\ <<u>> \o <<v>> = <<u, v>> /\ <<u>> \o <<w>> = <<u, w>> /\ <<u, v>> \o <<w>> = <<u, v, w>>
         /\ <<>> \o <<u>> = <<u>> /\ <<>> \o <<v>> = <<v>> /\ <<>> \o <<w>> = <<w>> /\ <<u>> \o <<>> = <<u>>
         /\ <<>> \o <<>> = <<>> /\ Shape(<<>>)
<1>2. MayFollow(u, v) /\ MayFollow(u, w) /\ MayFollow(v, w) /\ MayEnd(u) /\ MayEnd(v) /\ MayEnd(w)
  BY DEF MayFollow, MayEnd, UnlockCalls, Replacing
<1>3. u.call \notin ForFile /\ v.call \notin ForFile /\ w.call \notin ForFile
  BY DEF ForFile, LockCalls, Saving, Writing
<1>4. u.call \in UnlockCalls /\ v.call \in UnlockCalls /\ w.call \notin UnlockCalls
      /\ v.call # "unlink" /\ u.call # "unlink"
  BY DEF UnlockCalls
<1>5. Shape(<<u>>) /\ Shape(<<w>>) /\ Shape(<<>>)
  BY <1>2, ShapeOfFew
<1>6. Shape(<<u, v>>) /\ Shape(<<u, w>>)
  BY <1>2, <1>3, <1>4, ShapeOfFew
<1>7. w.call = "named" => Shape(<<u, v, w>>)
  <2> SUFFICES ASSUME w.call = "named" PROVE Shape(<<u, v, w>>)
    OBVIOUS
  <2>1. w.call \notin UnlockCalls \cup {"unlink"}
    BY <1>4
  <2> QED
    BY <1>2, <1>3, <1>4, <2>1, ShapeOfFew
<1>8. /\ <<u>> \o <<v>> = <<u, v>> /\ <<u>> \o <<w>> = <<u, w>> /\ <<u, v>> \o <<w>> = <<u, v, w>>
      /\ <<>> \o <<u>> = <<u>> /\ <<>> \o <<v>> = <<v>> /\ <<>> \o <<w>> = <<w>> /\ <<u>> \o <<>> = <<u>>
      /\ <<>> \o <<>> = <<>>
  <2>1. <<u>> \in Seq(Calling) /\ <<v>> \in Seq(Calling) /\ <<w>> \in Seq(Calling) /\ <<>> \in Seq(Calling)
    OBVIOUS
  <2> QED
    BY <2>1, Together
<1> QED
  BY <1>5, <1>6, <1>7, <1>8

\* The locks that a save under a name gives back.
LEMMA Drops ==
  ASSUME TInv, NEW p \in Editor, NEW exp \in Name
  PROVE  LET u == Call("unlock", exp)
             v == Call("unlock", ed[p].file)
         IN LocksToDrop(p, exp) = IF exp # ed[p].file /\ got[p]
                                  THEN IF result[p] => ed[p].locked THEN <<u, v>> ELSE <<u>>
                                  ELSE IF got[p] \/ (result[p] /\ ed[p].locked) THEN <<v>> ELSE <<>>
<1>1. ed[p].file \in Name /\ got[p] \in BOOLEAN /\ result[p] \in BOOLEAN /\ ed[p].locked \in BOOLEAN
  BY EdFacts DEF TInv, DataInv
<1> DEFINE u == Call("unlock", exp)
           v == Call("unlock", ed[p].file)
<1>2. /\ <<u>> \o <<v>> = <<u, v>> /\ <<>> \o <<v>> = <<v>> /\ <<u>> \o <<>> = <<u>> /\ <<>> \o <<>> = <<>>
  <2>1. u \in Calling /\ v \in Calling
    BY <1>1, CallTypes DEF CallName, UnlockCalls
  <2> HIDE DEF u, v
  <2>2. <<u>> \in Seq(Calling) /\ <<v>> \in Seq(Calling) /\ <<>> \in Seq(Calling)
    BY <2>1
  <2> QED
    BY <2>1, <2>2, Together
<1> HIDE DEF u, v
<1>3. CASE exp # ed[p].file /\ got[p]
  <2>1. LocksToDrop(p, exp) = <<u>> \o (IF result[p] THEN (IF ed[p].locked THEN <<v>> ELSE <<>>) ELSE <<v>>)
    BY <1>1, <1>3 DEF LocksToDrop, If, u, v
  <2> QED
    BY <1>1, <1>2, <1>3, <2>1 DEF u, v
<1>4. CASE ~(exp # ed[p].file /\ got[p])
  <2>1. LocksToDrop(p, exp) = <<>> \o (IF got[p] \/ (result[p] /\ ed[p].locked) THEN <<v>> ELSE <<>>)
    BY <1>1, <1>4 DEF LocksToDrop, If, u, v
  <2> QED
    BY <1>1, <1>2, <1>4, <2>1 DEF u, v
<1> QED
  BY <1>3, <1>4

\* Calls are put before those that are left when the first is made.
LEMMA BecomeFacts ==
  ASSUME TInv, NEW p \in Editor, todo[p] # <<>>, NEW calls, Shape(calls), calls # <<>>,
         \A d : MayFollow(Top(p), d) =>
           MayFollow(calls[Len(calls)], d) /\ d.call \in {"clean", "take", "renew", "close"},
         Become(p, calls)
  PROVE  /\ Shape(todo'[p]) /\ Len(todo'[p]) = Len(calls) + Len(todo[p]) - 1 /\ todo'[p] # <<>>
         /\ todo'[p][1] = calls[1] /\ Len(calls) \in Nat /\ Len(calls) > 0 /\ Len(todo[p]) \in Nat /\ Len(todo[p]) > 0
         /\ \A i \in 1..Len(calls) : todo'[p][i] = calls[i]
         /\ \A i \in 1..Len(todo[p])-1 : todo'[p][Len(calls) + i] = todo[p][i+1]
<1> DEFINE r == Tail(todo[p])
<1>1. todo \in [Editor -> Seq(Calling)] /\ Shape(todo[p]) /\ Top(p) = todo[p][1]
      /\ Len(todo[p]) \in Nat /\ Len(todo[p]) > 0
  BY TopFacts DEF TInv, CallsInv
<1>2. Shape(r) /\ Len(r) = Len(todo[p]) - 1 /\ (\A i \in 1..Len(r) : r[i] = todo[p][i+1])
      /\ IF r = <<>> THEN MayEnd(Top(p)) ELSE MayFollow(Top(p), r[1])
  BY <1>1, ShapeOfTail
<1>3. todo'[p] = calls \o r
  BY <1>1 DEF Become
<1> HIDE DEF r
<1>4. calls \in Seq(Calling) /\ Len(calls) \in Nat /\ Len(calls) > 0 /\ 1 \in 1..Len(calls)
  BY DEF Shape
<1>5. r # <<>> => MayFollow(calls[Len(calls)], r[1]) /\ r[1].call \in {"clean", "take", "renew", "close"}
  BY <1>2
<1>6. /\ Shape(calls \o r) /\ Len(calls \o r) = Len(calls) + Len(r)
      /\ \A i \in 1..Len(calls) : (calls \o r)[i] = calls[i]
      /\ \A i \in 1..Len(r) : (calls \o r)[Len(calls) + i] = r[i]
  <2>1. Shape(r) /\ Shape(calls)
    BY <1>2
  <2> QED
    BY <1>5, <2>1, ShapeOfConcat
<1>7. \A i \in 1..Len(todo[p])-1 : todo'[p][Len(calls) + i] = todo[p][i+1]
  BY <1>1, <1>2, <1>3, <1>6
<1>8. Len(todo'[p]) > 0 /\ todo'[p] \in Seq(Calling)
  BY <1>1, <1>2, <1>3, <1>4, <1>6 DEF Shape
<1> QED
  BY <1>1, <1>2, <1>3, <1>4, <1>6, <1>7, <1>8

\* Only its own calls change when a process takes a step.
LEMMA TodoStep ==
  ASSUME TInv, NEW p \in Editor, Step(p)
  PROVE  \E t : todo' = [todo EXCEPT ![p] = t]
<1>a. todo \in [Editor -> Seq(Calling)]
  BY DEF TInv, CallsInv
<1>1. CASE Lock(p)
  BY <1>a, <1>1 DEF Lock, Goto, Done, Become
<1>2. CASE LockRead(p)
  BY <1>a, <1>2 DEF LockRead, Goto, Done, Become
<1>3. CASE LockAnswer(p)
  BY <1>a, <1>3 DEF LockAnswer, Goto, Done, Become
<1>4. CASE LockUnlink(p)
  BY <1>a, <1>4 DEF LockUnlink, Goto, Become
<1>5. CASE LockSymlink(p)
  BY <1>a, <1>5 DEF LockSymlink, Done, Become
<1>6. CASE Unlock(p)
  BY <1>a, <1>6 DEF Unlock, Unlocked, Goto, Done, Become
<1>7. CASE UnlockRead(p)
  BY <1>a, <1>7 DEF UnlockRead, Unlocked, Goto, Done, Become
<1>8. CASE UnlockUnlink(p)
  BY <1>a, <1>8 DEF UnlockUnlink, Unlocked, Done, Become
<1>9. CASE Save(p)
  BY <1>a, <1>9 DEF Save, Returns, Goto, Done, Become
<1>10. CASE SaveTemp(p)
  BY <1>a, <1>10 DEF SaveTemp, Returns, Goto, Done, Become
<1>11. CASE SaveOpen(p)
  BY <1>a, <1>11 DEF SaveOpen, Returns, Goto, Done, Become
<1>12. CASE SaveWrite(p)
  BY <1>a, <1>12 DEF SaveWrite, AfterWrite, Returns, Goto, Done, Become
<1>13. CASE SaveBackup(p)
  BY <1>a, <1>13 DEF SaveBackup, Returns, Goto, Done, Become
<1>14. CASE SaveReplace(p)
  BY <1>a, <1>14 DEF SaveReplace, Returns, Done, Become
<1>15. CASE Saved(p)
  BY <1>a, <1>15 DEF Saved, Become
<1>16. CASE AskName(p)
  BY <1>a, <1>16 DEF AskName, EndWith, Become
<1>17. CASE Exists(p)
  BY <1>a, <1>17 DEF Exists, EndWith, Done, Become
<1>18. CASE SavedAs(p)
  BY <1>a, <1>18 DEF SavedAs, EndWith, Become
<1>19. CASE Named(p)
  BY <1>a, <1>19 DEF Named, Done, Become
<1>20. CASE Modified(p)
  BY <1>a, <1>20 DEF Modified, Done, Become
<1>21. CASE Open(p)
  BY <1>a, <1>21 DEF Open, Goto, Become
<1>22. CASE Create(p)
  BY <1>a, <1>22 DEF Create, Goto, EndWith, Become
<1>23. CASE Read(p)
  BY <1>a, <1>23 DEF Read, Done, EndWith, Become
<1>24. CASE Take(p)
  BY <1>a, <1>24 DEF Take, Done, Become
<1>25. CASE Clean(p)
  BY <1>a, <1>25 DEF Clean, Become
<1>26. CASE Unlink(p)
  BY <1>a, <1>26 DEF Unlink, Done, Become
<1>27. CASE Leave(p)
  BY <1>a, <1>27 DEF Leave, Done, Become
<1>28. CASE SaveCommand(p)
  BY <1>a, <1>28 DEF SaveCommand, Command, EndWith
<1>29. CASE SaveAsCommand(p)
  BY <1>a, <1>29 DEF SaveAsCommand, Command, EndWith
<1>30. CASE Modify(p)
  BY <1>a, <1>30 DEF Modify, Command, EndWith
<1>31. CASE Start(p)
  BY <1>a, <1>31 DEF Start, Command, EndWith
<1>32. CASE LoadCommand(p)
  BY <1>a, <1>32 DEF LoadCommand, Command, EndWith
<1>33. CASE NewCommand(p)
  BY <1>a, <1>33 DEF NewCommand, Command, EndWith
<1>34. CASE QuitCommand(p)
  BY <1>a, <1>34 DEF QuitCommand, Command, EndWith
<1>35. CASE Crash(p)
  BY <1>a, <1>35 DEF Crash
<1> QED
  BY <1>1, <1>2, <1>3, <1>4, <1>5, <1>6, <1>7, <1>8, <1>9, <1>10, <1>11, <1>12, <1>13, <1>14, <1>15, <1>16, <1>17, <1>18, <1>19, <1>20, <1>21, <1>22, <1>23, <1>24, <1>25, <1>26, <1>27, <1>28, <1>29, <1>30, <1>31, <1>32, <1>33, <1>34, <1>35 DEF Step

\* A process that does not save or open writes nowhere.
LEMMA Quiet ==
  ASSUME TInv, NEW p \in Editor, Shape(todo'[p]), fd'[p] = NoPath,
         todo'[p] = <<>> \/ todo'[p][1].call \notin Opening \cup (Saving \ {"save"})
  PROVE  PathInv(p)' /\ ~Is(p, 1, Opening)' /\ ~Is(p, 1, Saving \ {"save"})'
<1>1. \A names : names \subseteq Opening \cup (Saving \ {"save"}) => ~Is(p, 1, names)'
  BY DEF Is, Shape
<1>2. Writing \subseteq Saving \ {"save"} /\ {"backup", "replace"} \subseteq Saving \ {"save"}
  BY DEF Writing, Saving
<1> QED
  BY <1>1, <1>2 DEF PathInv

LEMMA CallsDone ==
  ASSUME TInv, NEW p \in Editor, todo[p] # <<>>, Done(p), fd'[p] = NoPath
  PROVE  Shape(todo'[p]) /\ PathInv(p)' /\ ~Is(p, 1, Opening)' /\ ~Is(p, 1, Saving \ {"save"})'
<1>1. Shape(todo'[p]) /\ IF todo'[p] = <<>> THEN MayEnd(Top(p)) ELSE MayFollow(Top(p), todo'[p][1])
  BY DoneFacts
<1>2. todo'[p] # <<>> => todo'[p][1].call \notin Opening \cup (Saving \ {"save"})
  BY <1>1 DEF MayFollow, Opening, Saving, Writing, Replacing
<1> QED
  BY <1>1, <1>2, Quiet

\* The calls of locking and unlocking follow one another.
LEMMA CallsQuiet ==
  ASSUME TInv, NEW p \in Editor, todo[p] # <<>>, fd'[p] = NoPath,
         NEW kind \in {LockCalls, UnlockCalls}, Top(p).call \in kind,
         Done(p) \/ \E name \in kind : Goto(p, name)
  PROVE  Shape(todo'[p]) /\ PathInv(p)' /\ ~Is(p, 1, Opening)' /\ ~Is(p, 1, Saving \ {"save"})'
<1>1. CASE Done(p)
  BY <1>1, CallsDone
<1>2. ASSUME NEW name \in kind, Goto(p, name)
      PROVE  Shape(todo'[p]) /\ PathInv(p)' /\ ~Is(p, 1, Opening)' /\ ~Is(p, 1, Saving \ {"save"})'
  <2>1. Shape(todo'[p]) /\ todo'[p][1] = Call(name, Top(p).file)
    BY <1>2, GotoFacts
  <2>2. todo'[p][1].call \notin Opening \cup (Saving \ {"save"})
    BY <2>1 DEF Call, LockCalls, UnlockCalls, Opening, Saving, Writing
  <2> QED
    BY <2>1, <2>2, Quiet
<1> QED
  BY <1>1, <1>2

LEMMA CallsSaving ==
  ASSUME TInv, NEW p \in Editor, todo[p] # <<>>, Top(p).call \in Saving, Top(p).file \in File,
         NEW name \in Saving \ {"save"}, Goto(p, name),
         name \in Writing => savename'[p] \in {At(Top(p).file)} \cup Temps,
         name \in {"backup", "replace"} => savename'[p] \in Temps,
         fd'[p] # NoPath => name = "write"
  PROVE  Shape(todo'[p]) /\ PathInv(p)' /\ ~Is(p, 1, Opening)'
<1>1. Shape(todo'[p]) /\ todo'[p][1] = Call(name, Top(p).file) /\ Len(todo'[p]) \in Nat /\ Len(todo'[p]) > 0
  BY GotoFacts
<1>2. todo'[p] \in Seq(Calling) /\ Head(todo'[p]) = todo'[p][1]
  BY <1>1 DEF Shape
<1>3. \A names : Is(p, 1, names)' <=> name \in names
  BY <1>1 DEF Is, Call
<1>4. Head(todo'[p]).file = Top(p).file
  BY <1>1, <1>2 DEF Call
<1>5. name \notin Opening
  BY DEF Opening, Saving, Writing
<1> QED
  BY <1>1, <1>3, <1>4, <1>5 DEF PathInv, Top

LEMMA CallsOpening ==
  ASSUME TInv, NEW p \in Editor, Shape(todo'[p]), todo'[p] # <<>>, fd'[p] = NoPath,
         todo'[p][1].call \in Opening, todo'[p][1].file \in File
  PROVE  PathInv(p)' /\ ~Is(p, 1, Saving \ {"save"})'
<1>1. todo'[p] \in Seq(Calling) /\ Head(todo'[p]) = todo'[p][1]
  BY DEF Shape
<1>2. \A names : Is(p, 1, names)' => todo'[p][1].call \in names
  BY DEF Is
<1>3. Opening \cap Saving = {}
  BY DEF Opening, Saving, Writing
<1>4. Writing \subseteq Saving /\ {"backup", "replace"} \subseteq Saving
  BY DEF Writing, Saving
<1> QED
  BY <1>1, <1>2, <1>3, <1>4 DEF PathInv, Top

\* Leaving a window.
LEMMA ShapeOfLeave ==
  ASSUME NEW u \in Calling, u.call = "unlock", NEW b \in Calling, b.call = "clean",
         NEW c \in Calling, c.call \in {"renew", "close"}
  PROVE  /\ <<>> \o <<b, c>> = <<b, c>> /\ <<u>> \o <<b, c>> = <<u, b, c>>
         /\ Shape(<<b, c>>) /\ Shape(<<u, b, c>>)
<1>2. MayFollow(u, b) /\ MayFollow(b, c) /\ MayEnd(c)
  BY DEF MayFollow, MayEnd, Opening, Replacing, UnlockCalls
<1>3. /\ b.call \notin ForFile /\ c.call \notin ForFile
      /\ b.call # "unlink" /\ c.call \notin UnlockCalls \cup {"unlink"}
  BY DEF ForFile, LockCalls, Saving, Writing, UnlockCalls
<1>4. Shape(<<b, c>>) /\ Shape(<<u, b, c>>)
  BY <1>2, <1>3, ShapeOfFew
<1>5. <<>> \o <<b, c>> = <<b, c>> /\ <<u>> \o <<b, c>> = <<u, b, c>>
  <2>1. <<b, c>> \in Seq(Calling)
    OBVIOUS
  <2>2. <<>> \o <<b, c>> = <<b, c>>
    BY <2>1, Together
  <2>3. \A x, y, z \in Calling : <<x>> \o <<y, z>> = <<x, y, z>>
    BY Together
  <2>4. u \in Calling /\ b \in Calling /\ c \in Calling
    OBVIOUS
  <2>5. <<u>> \o <<b, c>> = <<u, b, c>>
    BY <2>3, <2>4, Zenon
  <2> QED
    BY <2>2, <2>5
<1> QED
  BY <1>4, <1>5

\* The steps after which p is in the middle of a save, or opens a file.
Saves(p) == Save(p) \/ SaveTemp(p) \/ SaveOpen(p) \/ SaveWrite(p) \/ SaveBackup(p)
Opens(p) == Open(p) \/ Create(p) \/ Start(p) \/ LoadCommand(p)

LEMMA CallsStep ==
  ASSUME TInv, NEW p \in Editor, Step(p)
  PROVE  /\ CallsInv'
         /\ Is(p, 1, Saving \ {"save"})' => Saves(p)
         /\ Is(p, 1, Opening)' => Opens(p)
<1>a. /\ todo \in [Editor -> Seq(Calling)] /\ savename \in [Editor -> Path \cup {NoPath}]
      /\ fd \in [Editor -> Path \cup {NoPath}] /\ alive \subseteq Editor
  BY DEF TInv, DataInv, CallsInv
<1>b. todo[p] # <<>> =>
        /\ Top(p).call \in Saving \ {"save"} => Top(p).file \in File
        /\ Top(p).call \in Writing => savename[p] \in {At(Top(p).file)} \cup Temps
        /\ Top(p).call \in {"backup", "replace"} => savename[p] \in Temps
  BY SavingFacts
<1>c. (todo[p] = <<>> => fd[p] = NoPath) /\ (todo[p] # <<>> /\ Top(p).call # "write" => fd[p] = NoPath)
  <2>1. todo[p] = <<>> => fd[p] = NoPath
    BY DEF TInv, CallsInv, PathInv, Is
  <2> QED
    BY <2>1, SavingFacts
<1>d. todo[p] # <<>> => p \in alive
  BY TopFacts
<1>e. (\A f : NoPath # At(f)) /\ (\A t \in Temps : t # NoPath) /\ NoPath # <<"nowhere">>
  BY DEF NoPath, At, Temps
<1>f. ASSUME NEW s, Shape(s), EndWith(p, s), fd'[p] = NoPath,
             s = <<>> \/ s[1].call \notin Opening \cup (Saving \ {"save"})
      PROVE  Shape(todo'[p]) /\ PathInv(p)' /\ ~Is(p, 1, Opening)' /\ ~Is(p, 1, Saving \ {"save"})'
  <2>1. todo'[p] = s
    BY <1>a, <1>f DEF EndWith
  <2> QED
    BY <1>f, <2>1, Quiet
<1>g. ASSUME NEW name \in Opening, Goto(p, name), todo[p] # <<>>, Top(p).call \in Opening, fd'[p] = NoPath
      PROVE  Shape(todo'[p]) /\ PathInv(p)' /\ ~Is(p, 1, Saving \ {"save"})'
  <2>1. /\ Shape(todo'[p]) /\ todo'[p][1] = Call(name, Top(p).file) /\ Len(todo'[p]) > 0
    BY <1>g, GotoFacts
  <2>2. Top(p).file \in File
    BY <1>g, SavingFacts
  <2>3. todo'[p] # <<>> /\ todo'[p][1].call = name /\ todo'[p][1].file = Top(p).file
    BY <2>1 DEF Call, Shape
  <2> QED
    BY <1>g, <2>1, <2>2, <2>3, CallsOpening
<1>h. ed[p].file \in Name
  BY EdFacts DEF TInv
<1>i. ASSUME NEW f \in Name, NEW name \in {"renew", "close"}
      PROVE  LET u == Call("unlock", f)
                 s == <<Call("clean", f), Call(name, f)>>
             IN /\ Shape(<<>> \o s) /\ Shape(<<u>> \o s) /\ Shape(s) /\ s[1].call = "clean"
                /\ (<<>> \o s)[1].call \notin Opening \cup (Saving \ {"save"})
                /\ (<<u>> \o s)[1].call \notin Opening \cup (Saving \ {"save"})
  <2> DEFINE u == Call("unlock", f)
             b == Call("clean", f)
             c == Call(name, f)
  <2>3. u \in Calling /\ u.call = "unlock" /\ b \in Calling /\ b.call = "clean" /\ c \in Calling /\ c.call = name
    BY CallTypes DEF CallName, UnlockCalls, Replacing
  <2> HIDE DEF u, b, c
  <2>1. /\ <<>> \o <<b, c>> = <<b, c>> /\ <<u>> \o <<b, c>> = <<u, b, c>>
        /\ Shape(<<b, c>>) /\ Shape(<<u, b, c>>)
    BY <2>3, ShapeOfLeave
  <2>4. <<b, c>>[1] = b /\ <<u, b, c>>[1] = u
    OBVIOUS
  <2>2. /\ Shape(<<>> \o <<b, c>>) /\ Shape(<<u>> \o <<b, c>>) /\ Shape(<<b, c>>) /\ <<b, c>>[1].call = "clean"
        /\ (<<>> \o <<b, c>>)[1].call \notin Opening \cup (Saving \ {"save"})
        /\ (<<u>> \o <<b, c>>)[1].call \notin Opening \cup (Saving \ {"save"})
    BY <2>1, <2>3, <2>4 DEF Opening, Saving, Writing
  <2> QED
    BY <2>2 DEF u, b, c
<1>j. Shape(<<>>)
  BY ShapeOfFew
<1> SUFFICES /\ Shape(todo'[p]) /\ PathInv(p)' /\ (p \in alive' \/ todo'[p] = <<>>)
             /\ Is(p, 1, Saving \ {"save"})' => Saves(p)
             /\ Is(p, 1, Opening)' => Opens(p)
  <2>1. PICK t : todo' = [todo EXCEPT ![p] = t]
    BY TodoStep
  <2>2. todo'[p] = t
    BY <1>a, <2>1
  <2>3. todo' \in [Editor -> Seq(Calling)]
    BY <1>a, <2>1, <2>2 DEF Shape
  <2>4. ASSUME NEW q \in Editor, q # p
        PROVE  Shape(todo'[q]) /\ PathInv(q)' /\ (q \notin alive' => todo'[q] = <<>>)
    <3>1. /\ todo'[q] = todo[q] /\ savename'[q] = savename[q] /\ (q \in alive' <=> q \in alive)
          /\ fd[q] = NoPath => fd'[q] = NoPath
      BY <2>4, Frame
    <3>2. Shape(todo[q]) /\ PathInv(q) /\ (q \notin alive => todo[q] = <<>>)
      BY DEF TInv, CallsInv
    <3> QED
      BY <3>1, <3>2 DEF PathInv, Is, Top
  <2> QED
    BY <2>3, <2>4 DEF CallsInv
<1> USE DEF historyVars, boundVars, modeVars, Calls
<1>1. CASE Lock(p)
  <2>1. /\ todo[p] # <<>> /\ Top(p).call \in LockCalls /\ fd'[p] = NoPath /\ (p \in alive' <=> p \in alive)
        /\ Done(p) \/ \E name \in LockCalls : Goto(p, name)
    BY <1>c, <1>1 DEF Lock, LockCalls
  <2> QED
    BY <1>d, <2>1, CallsQuiet
<1>2. CASE LockRead(p)
  <2>1. /\ todo[p] # <<>> /\ Top(p).call \in LockCalls /\ fd'[p] = NoPath /\ (p \in alive' <=> p \in alive)
        /\ Done(p) \/ \E name \in LockCalls : Goto(p, name)
    BY <1>c, <1>2 DEF LockRead, LockCalls
  <2> QED
    BY <1>d, <2>1, CallsQuiet
<1>3. CASE LockAnswer(p)
  <2>1. /\ todo[p] # <<>> /\ Top(p).call \in LockCalls /\ fd'[p] = NoPath /\ (p \in alive' <=> p \in alive)
        /\ Done(p) \/ \E name \in LockCalls : Goto(p, name)
    BY <1>c, <1>3 DEF LockAnswer, LockCalls
  <2> QED
    BY <1>d, <2>1, CallsQuiet
<1>4. CASE LockUnlink(p)
  <2>1. /\ todo[p] # <<>> /\ Top(p).call \in LockCalls /\ fd'[p] = NoPath /\ (p \in alive' <=> p \in alive)
        /\ Done(p) \/ \E name \in LockCalls : Goto(p, name)
    BY <1>c, <1>4 DEF LockUnlink, LockCalls
  <2> QED
    BY <1>d, <2>1, CallsQuiet
<1>5. CASE LockSymlink(p)
  <2>1. /\ todo[p] # <<>> /\ Top(p).call \in LockCalls /\ fd'[p] = NoPath /\ (p \in alive' <=> p \in alive)
        /\ Done(p) \/ \E name \in LockCalls : Goto(p, name)
    BY <1>c, <1>5 DEF LockSymlink, LockCalls
  <2> QED
    BY <1>d, <2>1, CallsQuiet
<1>6. CASE Unlock(p)
  <2>1. /\ todo[p] # <<>> /\ Top(p).call \in UnlockCalls /\ fd'[p] = NoPath /\ (p \in alive' <=> p \in alive)
        /\ Done(p) \/ \E name \in UnlockCalls : Goto(p, name)
    BY <1>c, <1>6 DEF Unlock, UnlockCalls, Unlocked
  <2> QED
    BY <1>d, <2>1, CallsQuiet
<1>7. CASE UnlockRead(p)
  <2>1. /\ todo[p] # <<>> /\ Top(p).call \in UnlockCalls /\ fd'[p] = NoPath /\ (p \in alive' <=> p \in alive)
        /\ Done(p) \/ \E name \in UnlockCalls : Goto(p, name)
    BY <1>c, <1>7 DEF UnlockRead, UnlockCalls, Unlocked
  <2> QED
    BY <1>d, <2>1, CallsQuiet
<1>8. CASE UnlockUnlink(p)
  <2>1. /\ todo[p] # <<>> /\ Top(p).call \in UnlockCalls /\ fd'[p] = NoPath /\ (p \in alive' <=> p \in alive)
        /\ Done(p) \/ \E name \in UnlockCalls : Goto(p, name)
    BY <1>c, <1>8 DEF UnlockUnlink, UnlockCalls, Unlocked
  <2> QED
    BY <1>d, <2>1, CallsQuiet
<1>9. CASE Save(p)
  <2>1. todo[p] # <<>> /\ Top(p).call \in Saving /\ fd'[p] = NoPath /\ (p \in alive' <=> p \in alive)
    BY <1>c, <1>9 DEF Save, Saving
  <2>2. \/ Done(p)
        \/ /\ Top(p).file \in File
           /\ \/ Goto(p, "mkstemps")
              \/ Goto(p, "open_save") /\ savename' = [savename EXCEPT ![p] = At(Top(p).file)]
    BY <1>9 DEF Save, Returns
  <2>3. CASE Done(p)
    BY <1>d, <2>1, <2>3, CallsDone
  <2>4. CASE Top(p).file \in File /\ Goto(p, "mkstemps")
    <3>1. "mkstemps" \in Saving \ {"save"} /\ "mkstemps" \notin Writing
      BY DEF Saving, Writing
    <3> QED
      BY <1>9, <1>d, <2>1, <2>4, <3>1, CallsSaving DEF Saves
  <2>5. CASE /\ Top(p).file \in File /\ Goto(p, "open_save")
             /\ savename' = [savename EXCEPT ![p] = At(Top(p).file)]
    <3>1. "open_save" \in Saving \ {"save"} /\ savename'[p] = At(Top(p).file)
      BY <1>a, <2>5 DEF Saving, Writing
    <3> QED
      BY <1>9, <1>d, <2>1, <2>5, <3>1, CallsSaving DEF Saves
  <2> QED
    BY <2>2, <2>3, <2>4, <2>5
<1>10. CASE SaveTemp(p)
  <2>1. todo[p] # <<>> /\ Top(p).call \in Saving \ {"save"} /\ (p \in alive' <=> p \in alive)
        /\ (Top(p).call \in {"mkstemps", "open_save", "backup", "replace"} => fd[p] = NoPath)
    BY <1>c, <1>10 DEF SaveTemp, Saving, Writing
  <2>2. Top(p).file \in File
    BY <1>b, <2>1
  <2>3. \/ Done(p) /\ fd'[p] = NoPath
        \/ /\ Goto(p, "open_save") /\ (\E q \in Temps : IsFree(disk, q)) /\ fd'[p] = NoPath
           /\ savename' = [savename EXCEPT ![p] = FreeTemp(disk)]
    BY <1>a, <1>c, <1>10 DEF SaveTemp, Returns
  <2>4. CASE Done(p) /\ fd'[p] = NoPath
    BY <1>d, <2>1, <2>4, CallsDone
  <2>5. CASE /\ Goto(p, "open_save") /\ (\E q \in Temps : IsFree(disk, q)) /\ fd'[p] = NoPath
             /\ savename' = [savename EXCEPT ![p] = FreeTemp(disk)]
    <3>1. savename'[p] \in Temps
      BY <1>a, <2>5, PathFacts
    <3>2. "open_save" \in Saving \ {"save"}
      BY DEF Saving, Writing
    <3> QED
      BY <1>10, <1>d, <2>1, <2>2, <2>5, <3>1, <3>2, CallsSaving DEF Saves
  <2> QED
    BY <2>3, <2>4, <2>5
<1>11. CASE SaveOpen(p)
  <2>1. todo[p] # <<>> /\ Top(p).call \in Saving \ {"save"} /\ (p \in alive' <=> p \in alive)
        /\ (Top(p).call \in {"mkstemps", "open_save", "backup", "replace"} => fd[p] = NoPath)
    BY <1>c, <1>11 DEF SaveOpen, Saving, Writing
  <2>2. Top(p).file \in File
    BY <1>b, <2>1
  <2>3. \/ Done(p) /\ fd'[p] = NoPath
        \/ Goto(p, "write") /\ UNCHANGED savename
    BY <1>a, <1>c, <1>11 DEF SaveOpen, Returns
  <2>4. CASE Done(p) /\ fd'[p] = NoPath
    BY <1>d, <2>1, <2>4, CallsDone
  <2>5. CASE Goto(p, "write") /\ UNCHANGED savename
    <3>1. savename'[p] \in {At(Top(p).file)} \cup Temps
      BY <1>b, <1>11, <2>1, <2>5 DEF SaveOpen, Writing
    <3>2. "write" \in Saving \ {"save"}
      BY DEF Saving, Writing
    <3> QED
      BY <1>11, <1>d, <2>1, <2>2, <2>5, <3>1, <3>2, CallsSaving DEF Saves
  <2> QED
    BY <2>3, <2>4, <2>5
<1>12. CASE SaveWrite(p)
  <2>1. todo[p] # <<>> /\ Top(p).call \in Saving \ {"save"} /\ (p \in alive' <=> p \in alive)
        /\ (Top(p).call \in {"mkstemps", "open_save", "backup", "replace"} => fd[p] = NoPath)
    BY <1>c, <1>12 DEF SaveWrite, Saving, Writing
  <2>2. Top(p).file \in File
    BY <1>b, <2>1
  <2>3. \/ Done(p) /\ fd'[p] = NoPath
        \/ /\ fd'[p] = NoPath /\ savename[p] # At(Top(p).file) /\ UNCHANGED savename
           /\ \E name \in {"backup", "replace"} : Goto(p, name)
    BY <1>a, <1>c, <1>12 DEF SaveWrite, Returns, AfterWrite, Close
  <2>4. CASE Done(p) /\ fd'[p] = NoPath
    BY <1>d, <2>1, <2>4, CallsDone
  <2>5. CASE /\ fd'[p] = NoPath /\ savename[p] # At(Top(p).file) /\ UNCHANGED savename
             /\ \E name \in {"backup", "replace"} : Goto(p, name)
    <3>1. savename'[p] \in Temps
      BY <1>b, <1>12, <2>1, <2>5 DEF SaveWrite, Writing
    <3>2. {"backup", "replace"} \subseteq Saving \ {"save"}
      BY DEF Saving, Writing
    <3>3. PICK name \in {"backup", "replace"} : Goto(p, name)
      BY <2>5
    <3> QED
      BY <1>12, <1>d, <2>1, <2>2, <2>5, <3>1, <3>2, <3>3, CallsSaving DEF Saves
  <2> QED
    BY <2>3, <2>4, <2>5
<1>13. CASE SaveBackup(p)
  <2>1. todo[p] # <<>> /\ Top(p).call \in Saving \ {"save"} /\ (p \in alive' <=> p \in alive)
        /\ (Top(p).call \in {"mkstemps", "open_save", "backup", "replace"} => fd[p] = NoPath)
    BY <1>c, <1>13 DEF SaveBackup, Saving, Writing
  <2>2. Top(p).file \in File
    BY <1>b, <2>1
  <2>3. \/ Done(p) /\ fd'[p] = NoPath
        \/ Goto(p, "replace") /\ fd'[p] = NoPath /\ UNCHANGED savename
    BY <1>a, <1>c, <1>e, <1>13 DEF SaveBackup, Returns, Rename, Follow
  <2>4. CASE Done(p) /\ fd'[p] = NoPath
    BY <1>d, <2>1, <2>4, CallsDone
  <2>5. CASE Goto(p, "replace") /\ fd'[p] = NoPath /\ UNCHANGED savename
    <3>1. savename'[p] \in Temps
      BY <1>b, <1>13, <2>1, <2>5 DEF SaveBackup
    <3>2. "replace" \in Saving \ {"save"}
      BY DEF Saving, Writing
    <3> QED
      BY <1>13, <1>d, <2>1, <2>2, <2>5, <3>1, <3>2, CallsSaving DEF Saves
  <2> QED
    BY <2>3, <2>4, <2>5
<1>14. CASE SaveReplace(p)
  <2>1. todo[p] # <<>> /\ Top(p).call = "replace" /\ (p \in alive' <=> p \in alive) /\ Done(p) /\ fd[p] = NoPath
    BY <1>c, <1>14 DEF SaveReplace, Returns
  <2>2. savename[p] # NoPath
    BY <1>b, <1>e, <2>1
  <2>3. fd'[p] = NoPath
    BY <1>a, <2>1, <2>2, <1>14 DEF SaveReplace, Rename, Follow
  <2> QED
    BY <1>d, <2>1, <2>3, CallsDone
<1>15. CASE Saved(p)
  <2> DEFINE f == ed[p].file
             u == Call("unlock", f)
  <2>1. f \in Name
    BY <1>h
  <2> HIDE DEF f
  <2>2. /\ todo[p] # <<>> /\ Top(p).call = "saved" /\ fd'[p] = NoPath /\ (p \in alive' <=> p \in alive)
        /\ \E name \in {"named", "ask_name"} :
             Become(p, <<>> \o <<Call(name, f)>>) \/ Become(p, <<u>> \o <<Call(name, f)>>)
    BY <1>c, <1>15 DEF Saved, If, f
  <2>3. PICK name \in {"named", "ask_name"} :
          Become(p, <<>> \o <<Call(name, f)>>) \/ Become(p, <<u>> \o <<Call(name, f)>>)
    BY <2>2
  <2> DEFINE w == Call(name, f)
  <2>8. u \in Calling /\ u.call = "unlock" /\ w \in Calling /\ w.call = name
    BY <2>1, CallTypes DEF CallName, UnlockCalls, Replacing
  <2> HIDE DEF u, w
  <2>4. /\ <<>> \o <<w>> = <<w>> /\ <<u>> \o <<w>> = <<u, w>> /\ Shape(<<w>>) /\ Shape(<<u, w>>)
        /\ u.call = "unlock" /\ w.call = name
    BY <2>8, ShapeOfUnlocks
  <2>5. \A d : MayFollow(Top(p), d) => MayFollow(w, d) /\ d.call \in {"clean", "take", "renew", "close"}
    BY <2>2, <2>4 DEF MayFollow, LockCalls, UnlockCalls, Saving, Writing, Opening, Replacing
  <2>6. ASSUME NEW s \in {<<w>>, <<u, w>>}, Become(p, s)
        PROVE  Shape(todo'[p]) /\ PathInv(p)' /\ ~Is(p, 1, Opening)' /\ ~Is(p, 1, Saving \ {"save"})'
    <3>1. Shape(s) /\ s # <<>> /\ s[Len(s)] = w /\ s[1].call \in {"unlock", "named", "ask_name"}
      BY <2>4
    <3>2. Shape(todo'[p]) /\ todo'[p][1] = s[1]
      BY <2>2, <2>5, <2>6, <3>1, BecomeFacts
    <3>3. todo'[p][1].call \notin Opening \cup (Saving \ {"save"})
      BY <3>1, <3>2 DEF Opening, Saving, Writing
    <3> QED
      BY <2>2, <3>2, <3>3, Quiet
  <2>7. Become(p, <<w>>) \/ Become(p, <<u, w>>)
    BY <2>3, <2>4 DEF w
  <2> QED
    BY <1>d, <2>2, <2>6, <2>7
<1>16. CASE AskName(p)
  <2>1. /\ todo[p] # <<>> /\ Top(p).call = "ask_name" /\ fd'[p] = NoPath /\ (p \in alive' <=> p \in alive)
        /\ EndWith(p, <<>>) \/ \E exp \in File : Become(p, SaveAsCalls(p, exp))
    BY <1>c, <1>16 DEF AskName
  <2>2. CASE EndWith(p, <<>>)
    BY <1>d, <1>f, <1>j, <2>1, <2>2
  <2>3. ASSUME NEW exp \in File, Become(p, SaveAsCalls(p, exp))
        PROVE  Shape(todo'[p]) /\ PathInv(p)' /\ ~Is(p, 1, Opening)' /\ ~Is(p, 1, Saving \ {"save"})'
    <3> DEFINE s == SaveAsCalls(p, exp)
    <3>1. Shape(s) /\ Len(s) \in 2..4 /\ s[Len(s)].call = "saved_as" /\ s[1].call \in {"exists", "lock", "save"}
      BY ShapeOfSaveAs
    <3> HIDE DEF s
    <3>2. s # <<>>
      BY <3>1 DEF Shape
    <3>3. \A d : MayFollow(Top(p), d) => MayFollow(s[Len(s)], d) /\ d.call \in {"clean", "take", "renew", "close"}
      BY <2>1, <3>1 DEF MayFollow, LockCalls, UnlockCalls, Saving, Writing, Opening, Replacing
    <3>4. Become(p, s)
      BY <2>3 DEF s
    <3>5. Shape(todo'[p]) /\ todo'[p][1] = s[1]
      BY <2>1, <3>1, <3>2, <3>3, <3>4, BecomeFacts
    <3>6. todo'[p][1].call \notin Opening \cup (Saving \ {"save"})
      BY <3>1, <3>5 DEF Opening, Saving, Writing
    <3> QED
      BY <2>1, <3>5, <3>6, Quiet
  <2> QED
    BY <1>d, <2>1, <2>2, <2>3
<1>17. CASE Exists(p)
  <2>1. todo[p] # <<>> /\ (p \in alive' <=> p \in alive) /\ fd'[p] = NoPath /\ (Done(p) \/ EndWith(p, <<>>))
    BY <1>c, <1>17 DEF Exists
  <2>2. CASE Done(p)
    BY <1>d, <2>1, <2>2, CallsDone
  <2>3. CASE EndWith(p, <<>>)
    BY <1>d, <1>f, <1>j, <2>1, <2>3
  <2> QED
    BY <2>1, <2>2, <2>3
<1>18. CASE SavedAs(p)
  <2> DEFINE exp == Top(p).file
             u == Call("unlock", exp)
             v == Call("unlock", ed[p].file)
             w == Call("named", exp)
             l == LocksToDrop(p, exp)
  <2>1. /\ todo[p] # <<>> /\ Top(p).call = "saved_as" /\ fd'[p] = NoPath /\ (p \in alive' <=> p \in alive)
        /\ Become(p, l \o <<w>>) \/ EndWith(p, l)
    BY <1>c, <1>18 DEF SavedAs
  <2>2. exp \in Name /\ ed[p].file \in Name
    BY <1>h, <2>1, TopFacts
  <2>3. l \in {<<u, v>>, <<u>>, <<v>>, <<>>}
    BY <2>2, Drops
  <2>10. /\ u \in Calling /\ u.call = "unlock" /\ v \in Calling /\ v.call = "unlock"
         /\ w \in Calling /\ w.call = "named"
    BY <2>2, CallTypes DEF CallName, UnlockCalls, Replacing
  <2> HIDE DEF u, v, w, l, exp
  <2>4. /\ <<>> \o <<w>> = <<w>> /\ <<u>> \o <<w>> = <<u, w>> /\ <<u, v>> \o <<w>> = <<u, v, w>>
        /\ Shape(<<u>>) /\ Shape(<<u, v>>) /\ Shape(<<w>>) /\ Shape(<<u, w>>) /\ Shape(<<u, v, w>>) /\ Shape(<<>>)
        /\ u.call = "unlock" /\ w.call = "named"
    BY <2>10, ShapeOfUnlocks
  <2>5. <<v>> \o <<w>> = <<v, w>> /\ Shape(<<v>>) /\ Shape(<<v, w>>) /\ v.call = "unlock"
    BY <2>10, ShapeOfUnlocks
  <2>6. \A d : MayFollow(Top(p), d) => MayFollow(w, d) /\ d.call \in {"clean", "take", "renew", "close"}
    BY <2>1, <2>4 DEF MayFollow, LockCalls, UnlockCalls, Saving, Writing, Opening, Replacing
  <2>7. ASSUME NEW s \in {<<w>>, <<u, w>>, <<v, w>>, <<u, v, w>>}, Become(p, s)
        PROVE  Shape(todo'[p]) /\ PathInv(p)' /\ ~Is(p, 1, Opening)' /\ ~Is(p, 1, Saving \ {"save"})'
    <3>6. Shape(s)
      BY <2>4, <2>5
    <3>7. s # <<>> /\ s[Len(s)] = w
      OBVIOUS
    <3>1. Shape(s) /\ s # <<>> /\ s[Len(s)] = w
      BY <3>6, <3>7
    <3>4. s[1] \in {u, v, w}
      OBVIOUS
    <3>5. s[1].call \in {"unlock", "named"}
      BY <2>10, <3>4
    <3>2. Shape(todo'[p]) /\ todo'[p][1] = s[1]
      BY <2>1, <2>6, <2>7, <3>1, BecomeFacts
    <3>3. todo'[p][1].call \notin Opening \cup (Saving \ {"save"})
      BY <3>2, <3>5 DEF Opening, Saving, Writing
    <3> QED
      BY <2>1, <3>2, <3>3, Quiet
  <2>8. CASE Become(p, l \o <<w>>)
    BY <1>d, <2>1, <2>3, <2>4, <2>5, <2>7, <2>8
  <2>9. CASE EndWith(p, l)
    <3>1. Shape(l) /\ (l # <<>> => l[1].call \notin Opening \cup (Saving \ {"save"}))
      BY <2>3, <2>4, <2>5 DEF Opening, Saving, Writing
    <3> QED
      BY <1>d, <1>f, <2>1, <2>9, <3>1
  <2> QED
    BY <2>1, <2>8, <2>9
<1>19. CASE Named(p)
  <2>1. todo[p] # <<>> /\ (p \in alive' <=> p \in alive) /\ Done(p) /\ fd'[p] = NoPath
    BY <1>a, <1>c, <1>e, <1>19 DEF Named
  <2> QED
    BY <1>d, <2>1, CallsDone
<1>20. CASE Modified(p)
  <2>1. todo[p] # <<>> /\ (p \in alive' <=> p \in alive) /\ Done(p) /\ fd'[p] = NoPath
    BY <1>a, <1>c, <1>e, <1>20 DEF Modified
  <2> QED
    BY <1>d, <2>1, CallsDone
<1>21. CASE Open(p)
  <2>1. /\ todo[p] # <<>> /\ Top(p).call = "open" /\ fd'[p] = NoPath /\ (p \in alive' <=> p \in alive)
        /\ \E name \in Opening : Goto(p, name)
    BY <1>c, <1>21 DEF Open, Opening
  <2>2. PICK name \in Opening : Goto(p, name)
    BY <2>1
  <2>3. "open" \in Opening
    BY DEF Opening
  <2> QED
    BY <1>21, <1>d, <1>g, <2>1, <2>2, <2>3 DEF Opens
<1>22. CASE Create(p)
  <2>1. /\ todo[p] # <<>> /\ Top(p).call = "create" /\ fd'[p] = NoPath /\ (p \in alive' <=> p \in alive)
        /\ Goto(p, "read") \/ EndWith(p, <<>>)
    BY <1>c, <1>22 DEF Create
  <2>2. {"create", "read"} \subseteq Opening
    BY DEF Opening
  <2>3. CASE Goto(p, "read")
    BY <1>22, <1>d, <1>g, <2>1, <2>2, <2>3 DEF Opens
  <2>4. CASE EndWith(p, <<>>)
    BY <1>d, <1>f, <1>j, <2>1, <2>4
  <2> QED
    BY <2>1, <2>3, <2>4
<1>23. CASE Read(p)
  <2>1. /\ todo[p] # <<>> /\ Top(p).call = "read" /\ fd'[p] = NoPath /\ (p \in alive' <=> p \in alive)
        /\ Done(p) \/ EndWith(p, <<>>) \/ EndWith(p, <<Call("unlink", Top(p).file)>>)
    BY <1>c, <1>23 DEF Read, If
  <2>2. CASE Done(p)
    BY <1>d, <2>1, <2>2, CallsDone
  <2>3. CASE EndWith(p, <<>>)
    BY <1>d, <1>f, <1>j, <2>1, <2>3
  <2>4. CASE EndWith(p, <<Call("unlink", Top(p).file)>>)
    <3>1. Top(p).file \in Name
      BY <2>1, TopFacts
    <3>4. /\ Call("unlink", Top(p).file) \in Calling /\ Call("unlink", Top(p).file).call = "unlink"
          /\ MayEnd(Call("unlink", Top(p).file))
      BY <3>1, CallTypes DEF CallName, MayEnd
    <3>2. Shape(<<Call("unlink", Top(p).file)>>) /\ Call("unlink", Top(p).file).call = "unlink"
      BY <3>4, ShapeOfFew
    <3>3. <<Call("unlink", Top(p).file)>>[1].call \notin Opening \cup (Saving \ {"save"})
      BY <3>2 DEF Opening, Saving, Writing
    <3> QED
      BY <1>d, <1>f, <2>1, <2>4, <3>2, <3>3
  <2> QED
    BY <2>1, <2>2, <2>3, <2>4
<1>24. CASE Take(p)
  <2>1. todo[p] # <<>> /\ (p \in alive' <=> p \in alive) /\ Done(p) /\ fd'[p] = NoPath
    BY <1>a, <1>c, <1>e, <1>24 DEF Take
  <2> QED
    BY <1>d, <2>1, CallsDone
<1>25. CASE Clean(p)
  <2> DEFINE f == ed[p].file
             u == Call("unlock", f)
             w == Call("unlink", f)
  <2>1. f \in Name
    BY <1>h
  <2>2. /\ todo[p] # <<>> /\ Top(p).call = "clean" /\ fd'[p] = NoPath /\ (p \in alive' <=> p \in alive)
        /\ \/ Become(p, <<>> \o <<>>) \/ Become(p, <<>> \o <<w>>)
           \/ Become(p, <<u>> \o <<>>) \/ Become(p, <<u>> \o <<w>>)
    BY <1>c, <1>25 DEF Clean, CleanCalls, If
  <2>7. u \in Calling /\ u.call = "unlock" /\ w \in Calling /\ w.call = "unlink"
    BY <2>1, CallTypes DEF CallName, UnlockCalls
  <2> HIDE DEF f, u, w
  <2>3. /\ <<>> \o <<w>> = <<w>> /\ <<u>> \o <<w>> = <<u, w>> /\ <<u>> \o <<>> = <<u>> /\ <<>> \o <<>> = <<>>
        /\ Shape(<<w>>) /\ Shape(<<u, w>>) /\ Shape(<<u>>) /\ u.call = "unlock" /\ w.call = "unlink"
    BY <2>7, ShapeOfUnlocks
  <2>4. \A d : MayFollow(Top(p), d) =>
          MayFollow(u, d) /\ MayFollow(w, d) /\ d.call \in {"clean", "take", "renew", "close"}
    BY <2>2, <2>3 DEF MayFollow, LockCalls, UnlockCalls, Saving, Writing, Opening, Replacing
  <2>5. ASSUME NEW s \in {<<w>>, <<u, w>>, <<u>>}, Become(p, s)
        PROVE  Shape(todo'[p]) /\ PathInv(p)' /\ ~Is(p, 1, Opening)' /\ ~Is(p, 1, Saving \ {"save"})'
    <3>1. Shape(s) /\ s # <<>> /\ s[Len(s)] \in {u, w} /\ s[1].call \in {"unlock", "unlink"}
      BY <2>3
    <3>2. \A d : MayFollow(Top(p), d) => MayFollow(s[Len(s)], d) /\ d.call \in {"clean", "take", "renew", "close"}
      BY <2>4, <3>1
    <3>3. Shape(todo'[p]) /\ todo'[p][1] = s[1]
      BY <2>2, <2>5, <3>1, <3>2, BecomeFacts
    <3>4. todo'[p][1].call \notin Opening \cup (Saving \ {"save"})
      BY <3>1, <3>3 DEF Opening, Saving, Writing
    <3> QED
      BY <2>2, <3>3, <3>4, Quiet
  <2>6. CASE Become(p, <<>> \o <<>>)
    <3>1. Done(p)
      BY <2>3, <2>6 DEF Done
    <3> QED
      BY <1>d, <2>2, <3>1, CallsDone
  <2> QED
    BY <1>d, <2>2, <2>3, <2>5, <2>6
<1>26. CASE Unlink(p)
  <2>1. todo[p] # <<>> /\ (p \in alive' <=> p \in alive) /\ Done(p) /\ fd'[p] = NoPath
    BY <1>a, <1>c, <1>e, <1>26 DEF Unlink, Follow
  <2> QED
    BY <1>d, <2>1, CallsDone
<1>27. CASE Leave(p)
  <2>1. todo[p] # <<>> /\ (p \in alive' <=> p \in alive) /\ Done(p) /\ fd'[p] = NoPath
    BY <1>a, <1>c, <1>e, <1>27 DEF Leave
  <2> QED
    BY <1>d, <2>1, CallsDone
<1>28. CASE SaveCommand(p)
  <2>1. p \in alive /\ p \in alive' /\ todo[p] = <<>> /\ fd'[p] = NoPath
    BY <1>c, <1>28 DEF SaveCommand, Editing, AtRest
  <2>2. EndWith(p, SaveCalls(p))
    BY <1>28 DEF SaveCommand, Command
  <2> DEFINE s == SaveCalls(p)
  <2>3. Shape(s) /\ s[1].call \in {"lock", "save"}
    BY ShapeOfSave
  <2> HIDE DEF s
  <2>4. s[1].call \notin Opening \cup (Saving \ {"save"})
    BY <2>3 DEF Opening, Saving, Writing
  <2>5. EndWith(p, s)
    BY <2>2 DEF s
  <2> QED
    BY <1>f, <2>1, <2>3, <2>4, <2>5
<1>29. CASE SaveAsCommand(p)
  <2>1. p \in alive /\ p \in alive' /\ todo[p] = <<>> /\ fd'[p] = NoPath
    BY <1>c, <1>29 DEF SaveAsCommand, Editing, AtRest
  <2>2. PICK exp \in File : EndWith(p, SaveAsCalls(p, exp))
    BY <1>29 DEF SaveAsCommand, Command
  <2> DEFINE s == SaveAsCalls(p, exp)
  <2>3. Shape(s) /\ s[1].call \in {"exists", "lock", "save"}
    BY ShapeOfSaveAs
  <2> HIDE DEF s
  <2>4. s[1].call \notin Opening \cup (Saving \ {"save"})
    BY <2>3 DEF Opening, Saving, Writing
  <2>5. EndWith(p, s)
    BY <2>2 DEF s
  <2> QED
    BY <1>f, <2>1, <2>3, <2>4, <2>5
<1>30. CASE Modify(p)
  <2>1. p \in alive /\ p \in alive' /\ todo[p] = <<>> /\ fd'[p] = NoPath
    BY <1>c, <1>30 DEF Modify, Editing, AtRest
  <2> DEFINE f == ed[p].file
             a == Call("lock", f)
             b == Call("modify", f)
  <2>2. EndWith(p, <<>>) \/ EndWith(p, <<a, b>>)
    BY <1>30 DEF Modify, Command
  <2>3. /\ a \in Calling /\ a.call = "lock" /\ b \in Calling /\ b.call = "modify" /\ a.file = b.file
    BY <1>h, CallTypes DEF CallName, ForFile, LockCalls
  <2> HIDE DEF f, a, b
  <2>4. MayFollow(a, b) /\ MayEnd(b) /\ a.call \in ForFile /\ b.call # "unlink"
    BY <2>3 DEF MayFollow, MayEnd, LockCalls, ForFile
  <2>5. Shape(<<a, b>>)
    BY <2>3, <2>4, ShapeOfFew
  <2>6. <<a, b>>[1].call \notin Opening \cup (Saving \ {"save"})
    BY <2>3 DEF Opening, Saving, Writing
  <2> QED
    BY <1>f, <1>j, <2>1, <2>2, <2>5, <2>6
<1>31. CASE Start(p)
  <2>1. p \in alive /\ p \in alive' /\ todo[p] = <<>> /\ fd'[p] = NoPath
    BY <1>c, <1>31 DEF Start, Editing, AtRest
  <2>2. (\E f \in File : EndWith(p, <<Call("open", f), Call("take", f)>>)) \/ EndWith(p, <<Call("renew", NoName)>>)
    BY <1>31 DEF Start, Command
  <2>3. ASSUME NEW f \in File, EndWith(p, <<Call("open", f), Call("take", f)>>)
        PROVE  Shape(todo'[p]) /\ PathInv(p)' /\ ~Is(p, 1, Saving \ {"save"})'
    <3> DEFINE a == Call("open", f)
               b == Call("take", f)
    <3>1. a \in Calling /\ a.call = "open" /\ a.file = f /\ b \in Calling /\ b.call = "take"
      BY PathFacts, CallTypes DEF CallName, Opening, Replacing
    <3>2. EndWith(p, <<a, b>>)
      BY <2>3
    <3> HIDE DEF a, b
    <3>3. MayFollow(a, b) /\ MayEnd(b) /\ b.call \notin ForFile /\ b.call # "unlink" /\ a.call \in Opening
      BY <3>1 DEF MayFollow, MayEnd, Opening, Replacing, ForFile, LockCalls, Saving, Writing
    <3>4. Shape(<<a, b>>)
      BY <3>1, <3>3, ShapeOfFew
    <3>5. todo'[p] = <<a, b>>
      BY <1>a, <3>2 DEF EndWith
    <3>6. todo'[p][1] = a /\ todo'[p] # <<>>
      BY <3>5
    <3> QED
      BY <2>1, <3>1, <3>3, <3>4, <3>5, <3>6, CallsOpening
  <2>4. CASE EndWith(p, <<Call("renew", NoName)>>)
    <3> DEFINE b == Call("renew", NoName)
    <3>1. b \in Calling /\ b.call = "renew"
      BY PathFacts, CallTypes DEF CallName, Replacing
    <3>2. EndWith(p, <<b>>)
      BY <2>4
    <3> HIDE DEF b
    <3>3. Shape(<<b>>)
      BY <3>1, ShapeOfFew DEF MayEnd, Replacing
    <3>4. <<b>>[1].call \notin Opening \cup (Saving \ {"save"})
      BY <3>1 DEF Opening, Saving, Writing
    <3> QED
      BY <1>f, <2>1, <3>2, <3>3, <3>4
  <2> QED
    BY <1>31, <2>1, <2>2, <2>3, <2>4 DEF Opens
<1>32. CASE LoadCommand(p)
  <2>1. p \in alive /\ p \in alive' /\ todo[p] = <<>> /\ fd'[p] = NoPath
    BY <1>c, <1>32 DEF LoadCommand, Editing, AtRest
  <2>2. PICK f \in File : \E r \in {<<>>, <<Call("unlock", ed[p].file)>>} :
          EndWith(p, <<Call("open", f), Call("clean", f), Call("take", f)>> \o r)
    BY <1>32 DEF LoadCommand, Command, If
  <2> DEFINE a == Call("open", f)
             b == Call("clean", f)
             c == Call("take", f)
             u == Call("unlock", ed[p].file)
  <2>3. /\ a \in Calling /\ a.call = "open" /\ a.file = f /\ b \in Calling /\ b.call = "clean"
        /\ c \in Calling /\ c.call = "take" /\ u \in Calling /\ u.call = "unlock"
    BY <1>h, PathFacts, CallTypes DEF CallName, Opening, Replacing, UnlockCalls
  <2>4. \E r \in {<<>>, <<u>>} : EndWith(p, <<a, b, c>> \o r)
    BY <2>2
  <2> HIDE DEF a, b, c, u
  <2>5. <<a, b, c>> \o <<>> = <<a, b, c>> /\ <<a, b, c>> \o <<u>> = <<a, b, c, u>>
    <3>1. <<a, b, c>> \in Seq(Calling)
      BY <2>3
    <3>2. <<a, b, c>> \o <<>> = <<a, b, c>>
      BY <3>1, Together
    <3>3. \A x, y, z, t \in Calling : <<x, y, z>> \o <<t>> = <<x, y, z, t>>
      BY Together
    <3>4. a \in Calling /\ b \in Calling /\ c \in Calling /\ u \in Calling
      BY <2>3
    <3>5. <<a, b, c>> \o <<u>> = <<a, b, c, u>>
      BY <3>3, <3>4, Zenon
    <3> QED
      BY <3>2, <3>5
  <2>6. MayFollow(a, b) /\ MayFollow(b, c) /\ MayFollow(c, u) /\ MayEnd(c) /\ MayEnd(u)
    BY <2>3 DEF MayFollow, MayEnd, Opening, Replacing, UnlockCalls
  <2>7. /\ b.call \notin ForFile /\ c.call \notin ForFile /\ u.call \notin ForFile /\ a.call \in Opening
        /\ b.call # "unlink" /\ c.call \notin UnlockCalls \cup {"unlink"} /\ u.call # "unlink"
    BY <2>3 DEF ForFile, LockCalls, Saving, Writing, Opening, UnlockCalls
  <2>8. Shape(<<a, b, c>>) /\ Shape(<<a, b, c, u>>)
    BY <2>3, <2>6, <2>7, ShapeOfFew
  <2>9. todo'[p] \in {<<a, b, c>>, <<a, b, c, u>>}
    BY <1>a, <2>4, <2>5 DEF EndWith
  <2>10. Shape(todo'[p]) /\ todo'[p][1] = a /\ todo'[p] # <<>>
    BY <2>8, <2>9
  <2> QED
    BY <1>32, <2>1, <2>3, <2>7, <2>10, CallsOpening DEF Opens
<1>33. CASE NewCommand(p)
  <2>1. p \in alive /\ p \in alive' /\ todo[p] = <<>> /\ fd'[p] = NoPath
    BY <1>c, <1>33 DEF NewCommand, Editing, AtRest
  <2>2. ed[p].file \in Name
    BY <1>h
  <2> DEFINE f == ed[p].file
             u == Call("unlock", f)
             s == <<Call("clean", f), Call("renew", f)>>
  <2>3. EndWith(p, <<>> \o s) \/ EndWith(p, <<u>> \o s)
    BY <1>33 DEF NewCommand, Command, If
  <2> QED
    BY <1>f, <1>i, <2>1, <2>2, <2>3
<1>34. CASE QuitCommand(p)
  <2>1. p \in alive /\ p \in alive' /\ todo[p] = <<>> /\ fd'[p] = NoPath
    BY <1>c, <1>34 DEF QuitCommand, Editing, AtRest
  <2>2. ed[p].file \in Name
    BY <1>h
  <2> DEFINE f == ed[p].file
             u == Call("unlock", f)
             s == <<Call("clean", f), Call("close", f)>>
  <2>3. EndWith(p, <<>> \o s) \/ EndWith(p, <<u>> \o s) \/ EndWith(p, SaveCalls(p) \o s)
    BY <1>34 DEF QuitCommand, Command, If
  <2>4. CASE EndWith(p, <<>> \o s) \/ EndWith(p, <<u>> \o s)
    BY <1>f, <1>i, <2>1, <2>2, <2>4
  <2>5. CASE EndWith(p, SaveCalls(p) \o s)
    <3> DEFINE t == SaveCalls(p)
    <3>1. Shape(t) /\ Len(t) \in {2, 3} /\ t[Len(t)].call = "saved" /\ t[1].call \in {"lock", "save"}
      BY ShapeOfSave
    <3>2. Shape(s) /\ s[1].call = "clean"
      BY <1>i, <2>2
    <3>3. EndWith(p, t \o s)
      BY <2>5
    <3> HIDE DEF t, s
    <3>4. t # <<>> /\ 1 \in 1..Len(t)
      BY <3>1 DEF Shape
    <3>5. MayFollow(t[Len(t)], s[1])
      BY <3>1, <3>2 DEF MayFollow
    <3>6. Shape(t \o s) /\ (t \o s)[1] = t[1]
      BY <3>1, <3>2, <3>4, <3>5, ShapeOfConcat
    <3>7. (t \o s)[1].call \notin Opening \cup (Saving \ {"save"})
      BY <3>1, <3>6 DEF Opening, Saving, Writing
    <3> QED
      BY <1>f, <2>1, <3>3, <3>6, <3>7
  <2> QED
    BY <2>3, <2>4, <2>5
<1>35. CASE Crash(p)
  <2>1. todo'[p] = <<>> /\ fd'[p] = NoPath
    BY <1>a, <1>35 DEF Crash
  <2>2. Shape(todo'[p])
    BY <2>1, ShapeOfFew
  <2> QED
    BY <2>1, <2>2, Quiet
<1> QED
  BY <1>1, <1>2, <1>3, <1>4, <1>5, <1>6, <1>7, <1>8, <1>9, <1>10, <1>11, <1>12, <1>13, <1>14, <1>15, <1>16, <1>17, <1>18, <1>19, <1>20, <1>21, <1>22, <1>23, <1>24, <1>25, <1>26, <1>27, <1>28, <1>29, <1>30, <1>31, <1>32, <1>33, <1>34, <1>35 DEF Step

LEMMA InitTypes == Init => TInv
<1> SUFFICES ASSUME Init PROVE TInv
  OBVIOUS
<1> USE DEF Init
<1>1. ed \in [Editor -> Windows] /\ new \in [Editor -> Windows]
  <2>1. Window(Closed, 0, FALSE) \in Windows
    BY PathFacts DEF Window, Windows
  <2> QED
    BY <2>1
<1>2. disk \in [Path -> Absent..MaxVersion]
  <2>1. {Absent, 1} \subseteq Absent..MaxVersion
    BY PathFacts
  <2> QED
    BY <2>1
<1>3. option_save_mode \in {"quick", "safe", "backup"}
  BY EditFileAssumption
<1>4. versions \in 0..MaxVersion /\ acknowledged \in [File -> Broken..MaxVersion]
  BY PathFacts
<1>5. DataInv
  BY <1>1, <1>2, <1>3, <1>4 DEF DataInv
<1>6. \A p \in Editor : todo[p] = <<>> /\ fd[p] = NoPath
  OBVIOUS
<1>7. \A p \in Editor : \A names : ~Is(p, 1, names)
  BY <1>6 DEF Is
<1>8. CallsInv
  BY <1>6, <1>7, ShapeOfFew DEF CallsInv, PathInv
<1> QED
  BY <1>5, <1>8 DEF TInv

LEMMA TypesStep == TInv /\ [Next]_vars => TInv'
<1> SUFFICES ASSUME TInv, [Next]_vars PROVE TInv'
  OBVIOUS
<1>1. CASE Next
  BY <1>1, DataStep, CallsStep DEF Next, TInv
<1>2. CASE UNCHANGED vars
  <2>1. DataInv'
    BY <1>2 DEF TInv, DataInv, vars, procVars, modeVars, boundVars, historyVars
  <2>2. CallsInv'
    BY <1>2 DEF TInv, CallsInv, PathInv, Is, Top, vars, procVars
  <2> QED
    BY <2>1, <2>2 DEF TInv
<1> QED
  BY <1>1, <1>2

LEMMA TypesHold == Spec => []TInv
  BY InitTypes, TypesStep, PTL DEF Spec

\* The types hold, and a file is open only while it is written: every way out of a save closes
\* it, whatever fails, and no command ends with it open.
THEOREM TypeCorrect == Spec => []TypeOK
<1>1. TInv => TypeOK
  <2> SUFFICES ASSUME TInv PROVE TypeOK
    OBVIOUS
  <2>1. DataInv /\ CallsInv
    BY DEF TInv
  <2>2. ASSUME NEW p \in Editor
        PROVE  /\ {ed[p].file, new[p].file} \subseteq File \cup {NoName, Closed}
               /\ ed[p].text \in Broken..MaxVersion
    <3>1. ed[p].file \in Name /\ new[p].file \in Name /\ ed[p].text \in Broken..MaxVersion
      BY <2>1, EdFacts, NewFacts
    <3> QED
      BY <3>1 DEF Name
  <2>3. ASSUME NEW p \in Editor, NEW i \in DOMAIN todo[p] PROVE todo[p][i].file \in File \cup {NoName, Closed}
    <3>1. todo[p] \in Seq(Calling)
      BY <2>1 DEF CallsInv
    <3>2. todo[p][i] \in Calling
      BY <3>1
    <3> QED
      BY <3>2 DEF Calling, Name
  <2>4. ASSUME NEW p \in Editor, fd[p] # NoPath PROVE Calls(p, "write")
    <3>1. todo[p] # <<>>
      BY <2>1, <2>4 DEF CallsInv, PathInv, Is
    <3> QED
      BY <2>4, <3>1, SavingFacts DEF Calls
  <2> QED
    BY <2>1, <2>2, <2>3, <2>4 DEF TypeOK, DataInv
<1> QED
  BY <1>1, TypesHold, PTL

---------------------------------------------------------------------------
(* The locks *)

\* p gives back the lock of f next.
GivesBack(p, f) ==
  Is(p, 1, UnlockCalls) /\ (todo[p][1].file = f \/ (Is(p, 2, UnlockCalls) /\ todo[p][2].file = f))

\* The next thing p does, but for unlocking and removing, is to replace its window.
Replaces(p) ==
  \/ Is(p, 1, Replacing)
  \/ Is(p, 1, UnlockCalls \cup Opening \cup {"unlink"}) /\ Is(p, 2, Replacing)
  \/ Is(p, 1, UnlockCalls) /\ Is(p, 2, UnlockCalls \cup {"unlink"}) /\ Is(p, 3, Replacing)

\* p took the lock of f in the command that is at work.
Grabbed(p, f) == got[p] /\ f = Top(p).file

\* The window knows of its lock, and loses it only when it has given the lock back.
KnowsLock(p) ==
  /\ ed[p].locked => ed[p].file \in File /\ ed[p].modified
  /\ ~new[p].locked
  /\ Replaces(p) /\ ed[p].locked => GivesBack(p, ed[p].file)

\* A lock that was taken is used for the save or change it was taken for.
UsesLock(p) ==
  /\ got[p] => /\ Is(p, 1, Saving \cup {"saved", "saved_as", "modify"}) /\ Top(p).file \in File
               /\ lock[Top(p).file] = p \/ p \in robbed
  /\ Is(p, 1, LockCalls \ {"lock"}) => Top(p).file \in File

\* The calls are those of this window, which locks its file once.
Fits(c, w) ==
  /\ c.call \in {"saved", "modify"} => c.file = w.file
  /\ c.call \in LockCalls \cup {"exists", "modify"} /\ c.file = w.file => ~w.locked
CallsOfWindow(p) == \A i \in 1..Len(todo[p]) : Fits(todo[p][i], ed[p])

\* The locks that name p are those it knows of, has just taken or gives back, and those it
\* knows of are there unless another process took them away.
OwnLocks(p) ==
  /\ \A f \in File : lock[f] = p =>
       (ed[p].file = f /\ ed[p].locked) \/ Grabbed(p, f) \/ GivesBack(p, f)
  /\ ed[p].locked => \/ lock[ed[p].file] = p \/ p \in robbed
                     \/ got[p] /\ Top(p).file # ed[p].file
                     \/ GivesBack(p, ed[p].file)

LockInv(p) == KnowsLock(p) /\ UsesLock(p) /\ CallsOfWindow(p) /\ OwnLocks(p)

AllLocks == \A p \in alive : LockInv(p)

\* Another process's locks go only when it is robbed of them, and it gets none.
LEMMA LockFrame ==
  ASSUME TInv, NEW p \in Editor, Step(p), NEW q \in Editor, q # p
  PROVE  /\ q \in robbed => q \in robbed'
         /\ \A f \in File : (lock'[f] = q => lock[f] = q) /\ (lock[f] = q => lock'[f] = q \/ q \in robbed')
<1>a. lock \in [File -> Editor \cup {Dead, NoLock}] /\ NoLock \notin Editor
  BY EditFileAssumption DEF TInv, DataInv
<1> USE DEF historyVars, boundVars, modeVars, Calls
<1>1. CASE Lock(p)
  BY <1>a, <1>1 DEF Lock
<1>2. CASE LockRead(p)
  BY <1>a, <1>2 DEF LockRead
<1>3. CASE LockAnswer(p)
  BY <1>a, <1>3 DEF LockAnswer
<1>4. CASE LockUnlink(p)
  BY <1>a, <1>4 DEF LockUnlink, Unlinked
<1>5. CASE LockSymlink(p)
  BY <1>a, <1>5 DEF LockSymlink
<1>6. CASE Unlock(p)
  BY <1>a, <1>6 DEF Unlock
<1>7. CASE UnlockRead(p)
  BY <1>a, <1>7 DEF UnlockRead
<1>8. CASE UnlockUnlink(p)
  BY <1>a, <1>8 DEF UnlockUnlink, Unlinked
<1>9. CASE Save(p)
  BY <1>a, <1>9 DEF Save
<1>10. CASE SaveTemp(p)
  BY <1>a, <1>10 DEF SaveTemp
<1>11. CASE SaveOpen(p)
  BY <1>a, <1>11 DEF SaveOpen
<1>12. CASE SaveWrite(p)
  BY <1>a, <1>12 DEF SaveWrite
<1>13. CASE SaveBackup(p)
  BY <1>a, <1>13 DEF SaveBackup
<1>14. CASE SaveReplace(p)
  BY <1>a, <1>14 DEF SaveReplace
<1>15. CASE Saved(p)
  BY <1>a, <1>15 DEF Saved
<1>16. CASE AskName(p)
  BY <1>a, <1>16 DEF AskName
<1>17. CASE Exists(p)
  BY <1>a, <1>17 DEF Exists
<1>18. CASE SavedAs(p)
  BY <1>a, <1>18 DEF SavedAs
<1>19. CASE Named(p)
  BY <1>a, <1>19 DEF Named
<1>20. CASE Modified(p)
  BY <1>a, <1>20 DEF Modified
<1>21. CASE Open(p)
  BY <1>a, <1>21 DEF Open
<1>22. CASE Create(p)
  BY <1>a, <1>22 DEF Create
<1>23. CASE Read(p)
  BY <1>a, <1>23 DEF Read
<1>24. CASE Take(p)
  BY <1>a, <1>24 DEF Take
<1>25. CASE Clean(p)
  BY <1>a, <1>25 DEF Clean
<1>26. CASE Unlink(p)
  BY <1>a, <1>26 DEF Unlink
<1>27. CASE Leave(p)
  BY <1>a, <1>27 DEF Leave
<1>28. CASE SaveCommand(p)
  BY <1>a, <1>28 DEF SaveCommand
<1>29. CASE SaveAsCommand(p)
  BY <1>a, <1>29 DEF SaveAsCommand
<1>30. CASE Modify(p)
  BY <1>a, <1>30 DEF Modify
<1>31. CASE Start(p)
  BY <1>a, <1>31 DEF Start
<1>32. CASE LoadCommand(p)
  BY <1>a, <1>32 DEF LoadCommand
<1>33. CASE NewCommand(p)
  BY <1>a, <1>33 DEF NewCommand
<1>34. CASE QuitCommand(p)
  BY <1>a, <1>34 DEF QuitCommand
<1>35. CASE Crash(p)
  BY <1>a, <1>35 DEF Crash
<1> QED
  BY <1>1, <1>2, <1>3, <1>4, <1>5, <1>6, <1>7, <1>8, <1>9, <1>10, <1>11, <1>12, <1>13, <1>14, <1>15, <1>16, <1>17, <1>18, <1>19, <1>20, <1>21, <1>22, <1>23, <1>24, <1>25, <1>26, <1>27, <1>28, <1>29, <1>30, <1>31, <1>32, <1>33, <1>34, <1>35 DEF Step

\* What is known of a process with calls to make.
LEMMA IsFacts ==
  ASSUME TInv, NEW p \in Editor, todo[p] # <<>>
  PROVE  /\ \A names : Is(p, 1, names) <=> Top(p).call \in names
         /\ \A k \in Nat : \A names : Is(p, k, names) <=> k <= Len(todo[p]) /\ todo[p][k].call \in names
  BY TopFacts DEF Is

\* The locks of a process that is at rest, or makes a call that neither has a lock nor
\* gives one back.
LEMMA Idle ==
  ASSUME TInv, NEW p \in Editor, LockInv(p),
         todo[p] = <<>> \/ Top(p).call \notin Saving \cup {"saved", "saved_as", "modify"} \cup UnlockCalls
  PROVE  got[p] = FALSE /\ \A f : ~Grabbed(p, f) /\ ~GivesBack(p, f)
<1>1. todo[p] = <<>> => \A names : ~Is(p, 1, names)
  BY DEF Is
<1>2. todo[p] # <<>> => \A names : Is(p, 1, names) <=> Top(p).call \in names
  BY TopFacts
<1>3. got[p] \in BOOLEAN
  BY DEF TInv, DataInv
<1> QED
  BY <1>1, <1>2, <1>3 DEF LockInv, UsesLock, Grabbed, GivesBack

\* Such a process goes on with other calls.
LEMMA LockNew ==
  ASSUME TInv, NEW p \in Editor, LockInv(p),
         todo[p] = <<>> \/ Top(p).call \notin Saving \cup {"saved", "saved_as", "modify"} \cup UnlockCalls,
         ed'[p] = ed[p], lock' = lock, p \in robbed => p \in robbed', ~new'[p].locked, got'[p] = FALSE,
         CallsOfWindow(p)', Replaces(p)' /\ ed[p].locked => GivesBack(p, ed[p].file)',
         ~Is(p, 1, LockCalls \ {"lock"})'
  PROVE  LockInv(p)'
<1>1. got[p] = FALSE /\ \A f : ~Grabbed(p, f) /\ ~GivesBack(p, f)
  BY Idle
<1>2. KnowsLock(p)'
  BY DEF LockInv, KnowsLock, GivesBack, Is
<1>3. UsesLock(p)'
  BY DEF UsesLock
<1>4. OwnLocks(p)'
  BY <1>1 DEF LockInv, OwnLocks
<1> QED
  BY <1>2, <1>3, <1>4 DEF LockInv

\* A call goes on.
LEMMA LockGoto ==
  ASSUME TInv, NEW p \in Editor, LockInv(p), todo[p] # <<>>,
         NEW kind \in {LockCalls, UnlockCalls, Saving, Opening}, Top(p).call \in kind,
         NEW name \in kind, Goto(p, name), name \in LockCalls \ {"lock"} => Top(p).file \in File,
         ed'[p] = ed[p], \A f \in File : lock'[f] = p <=> lock[f] = p,
         p \in robbed => p \in robbed', ~new'[p].locked, got'[p] = got[p]
  PROVE  LockInv(p)'
<1>1. /\ Shape(todo'[p]) /\ Len(todo[p]) \in Nat /\ Len(todo'[p]) = Len(todo[p]) /\ Len(todo[p]) > 0
      /\ Top(p) = todo[p][1] /\ todo'[p][1] = Call(name, Top(p).file)
      /\ \A i \in 1..Len(todo'[p]) : i > 1 => todo'[p][i] = todo[p][i]
  BY GotoFacts
<1>2. todo'[p][1].call = name /\ todo'[p][1].file = todo[p][1].file /\ Top(p)' = todo'[p][1]
  BY <1>1 DEF Call, Top, Shape
<1>3. \A names : Is(p, 2, names)' <=> Is(p, 2, names)
  BY <1>1 DEF Is
<1>4. \A names : Is(p, 3, names)' <=> Is(p, 3, names)
  BY <1>1 DEF Is
<1>5. \A names : (kind \subseteq names \/ kind \cap names = {}) => (Is(p, 1, names)' <=> Is(p, 1, names))
  BY <1>1, <1>2 DEF Is
<1>6. /\ Is(p, 1, UnlockCalls)' <=> Is(p, 1, UnlockCalls)
      /\ Is(p, 1, Replacing)' <=> Is(p, 1, Replacing)
      /\ Is(p, 1, UnlockCalls \cup Opening \cup {"unlink"})' <=> Is(p, 1, UnlockCalls \cup Opening \cup {"unlink"})
      /\ Is(p, 1, Saving \cup {"saved", "saved_as", "modify"})' <=> Is(p, 1, Saving \cup {"saved", "saved_as", "modify"})
  <2>1. UnlockCalls \cap (LockCalls \cup Saving \cup Opening) = {} /\ Saving \cap (LockCalls \cup Opening) = {}
        /\ Opening \cap LockCalls = {}
    BY DEF UnlockCalls, LockCalls, Saving, Writing, Opening
  <2>2. Replacing \cap (LockCalls \cup UnlockCalls \cup Saving \cup Opening) = {}
        /\ {"unlink", "saved", "saved_as", "modify"} \cap (LockCalls \cup UnlockCalls \cup Saving \cup Opening) = {}
    BY DEF UnlockCalls, LockCalls, Saving, Writing, Opening, Replacing
  <2>3. \A names \in {UnlockCalls, Replacing, UnlockCalls \cup Opening \cup {"unlink"},
                      Saving \cup {"saved", "saved_as", "modify"}} :
          kind \subseteq names \/ kind \cap names = {}
    BY <2>1, <2>2
  <2> QED
    BY <1>5, <2>3
<1>7. \A f : GivesBack(p, f)' <=> GivesBack(p, f)
  <2>1. Is(p, 2, UnlockCalls) => todo'[p][2] = todo[p][2]
    BY <1>1 DEF Is
  <2> QED
    BY <1>2, <1>3, <1>6, <2>1 DEF GivesBack
<1>8. Replaces(p)' <=> Replaces(p)
  BY <1>3, <1>4, <1>6 DEF Replaces
<1>9. KnowsLock(p)'
  BY <1>7, <1>8 DEF LockInv, KnowsLock
<1>10. UsesLock(p)'
  <2>1. Is(p, 1, LockCalls \ {"lock"})' => name \in LockCalls \ {"lock"}
    BY <1>2 DEF Is
  <2> QED
    BY <1>1, <1>2, <1>6, <2>1 DEF LockInv, UsesLock
<1>11. CallsOfWindow(p)'
  <2> SUFFICES ASSUME NEW i \in 1..Len(todo'[p]) PROVE Fits(todo'[p][i], ed[p])
    BY DEF CallsOfWindow
  <2>1. Fits(todo[p][i], ed[p])
    BY <1>1 DEF LockInv, CallsOfWindow
  <2>2. CASE i > 1
    BY <1>1, <2>1, <2>2
  <2>3. CASE i = 1
    <3>1. name \notin {"saved", "modify"}
          /\ (name \in LockCalls \cup {"exists", "modify"} => Top(p).call \in LockCalls)
      BY DEF UnlockCalls, LockCalls, Saving, Writing, Opening
    <3> QED
      BY <1>1, <1>2, <2>1, <2>3, <3>1 DEF Fits
  <2> QED
    BY <1>1, <2>2, <2>3
<1>12. OwnLocks(p)'
  <2>1. ed[p].locked => ed[p].file \in File
    BY DEF LockInv, KnowsLock
  <2> QED
    BY <1>1, <1>2, <1>7, <2>1 DEF LockInv, OwnLocks, Grabbed
<1> QED
  BY <1>9, <1>10, <1>11, <1>12 DEF LockInv

\* The calls that are left are those of the same window.
LEMMA LeftCalls ==
  ASSUME TInv, NEW p \in Editor, CallsOfWindow(p), todo[p] # <<>>, Done(p),
         ed'[p].file = ed[p].file, ed'[p].locked => ed[p].locked
  PROVE  CallsOfWindow(p)'
<1>1. /\ Len(todo[p]) \in Nat /\ Len(todo'[p]) = Len(todo[p]) - 1
      /\ \A i \in 1..Len(todo'[p]) : todo'[p][i] = todo[p][i+1]
  BY DoneFacts
<1> SUFFICES ASSUME NEW i \in 1..Len(todo'[p]) PROVE Fits(todo'[p][i], ed'[p])
  BY DEF CallsOfWindow
<1>2. i + 1 \in 1..Len(todo[p]) /\ todo'[p][i] = todo[p][i+1]
  BY <1>1
<1>3. Fits(todo[p][i+1], ed[p])
  BY <1>2 DEF CallsOfWindow
<1> QED
  BY <1>2, <1>3 DEF Fits

\* Calls that are not made for a file are those of any window.
LEMMA OtherCalls ==
  ASSUME NEW p \in Editor, \A i \in 1..Len(todo'[p]) : todo'[p][i].call \notin ForFile
  PROVE  CallsOfWindow(p)'
<1>1. {"saved", "modify"} \subseteq ForFile /\ LockCalls \cup {"exists", "modify"} \subseteq ForFile
  BY DEF ForFile
<1> QED
  BY <1>1 DEF CallsOfWindow, Fits

\* Which calls follow a call that is made.
LEMMA NextCalls ==
  ASSUME TInv, NEW p \in Editor, todo[p] # <<>>, Done(p)
  PROVE  /\ \A names : Is(p, 1, names)' <=> Is(p, 2, names)
         /\ \A names : Is(p, 2, names)' <=> Is(p, 3, names)
         /\ \A names : Is(p, 3, names)' <=> Is(p, 4, names)
         /\ todo'[p] # <<>> =>
              /\ MayFollow(Top(p), todo'[p][1]) /\ Top(p)' = todo'[p][1] /\ todo'[p][1] = todo[p][2]
              /\ todo'[p][1].call \in ForFile => Top(p).call \in ForFile /\ todo'[p][1].file = Top(p).file
         /\ todo'[p] = <<>> => \A names : ~Is(p, 1, names)'
         /\ Len(todo'[p]) > 1 => todo'[p][2] = todo[p][3]
<1>1. /\ Len(todo[p]) \in Nat /\ Len(todo'[p]) = Len(todo[p]) - 1 /\ Shape(todo[p]) /\ Shape(todo'[p])
      /\ \A i \in 1..Len(todo'[p]) : todo'[p][i] = todo[p][i+1]
      /\ Top(p) = todo[p][1]
      /\ IF todo'[p] = <<>> THEN MayEnd(Top(p)) ELSE MayFollow(Top(p), todo'[p][1])
  BY DoneFacts
<1>2. \A names : Is(p, 1, names)' <=> Is(p, 2, names)
  <2>1. 1 <= Len(todo'[p]) <=> 2 <= Len(todo[p])
    BY <1>1
  <2>2. 1 <= Len(todo'[p]) => todo'[p][1] = todo[p][2]
    BY <1>1
  <2> QED
    BY <2>1, <2>2 DEF Is
<1>3. \A names : Is(p, 2, names)' <=> Is(p, 3, names)
  <2>1. 2 <= Len(todo'[p]) <=> 3 <= Len(todo[p])
    BY <1>1
  <2>2. 2 <= Len(todo'[p]) => todo'[p][2] = todo[p][3]
    BY <1>1
  <2> QED
    BY <2>1, <2>2 DEF Is
<1>4. \A names : Is(p, 3, names)' <=> Is(p, 4, names)
  <2>1. 3 <= Len(todo'[p]) <=> 4 <= Len(todo[p])
    BY <1>1
  <2>2. 3 <= Len(todo'[p]) => todo'[p][3] = todo[p][4]
    BY <1>1
  <2> QED
    BY <2>1, <2>2 DEF Is
<1>5. ASSUME todo'[p] # <<>>
      PROVE  /\ MayFollow(Top(p), todo'[p][1]) /\ Top(p)' = todo'[p][1] /\ todo'[p][1] = todo[p][2]
             /\ todo'[p][1].call \in ForFile => Top(p).call \in ForFile /\ todo'[p][1].file = Top(p).file
  <2>1. Len(todo'[p]) > 0 /\ Head(todo'[p]) = todo'[p][1]
    BY <1>1, <1>5 DEF Shape
  <2>2. 2 \in 1..Len(todo[p]) /\ 1 \in 1..2 /\ todo'[p][1] = todo[p][2]
    BY <1>1, <2>1
  <2>3. OneFile(todo[p])
    BY <1>1 DEF Shape
  <2>4. todo[p][2].call \in ForFile => todo[p][1].call \in ForFile /\ todo[p][1].file = todo[p][2].file
    BY <2>2, <2>3 DEF OneFile
  <2> QED
    BY <1>1, <1>5, <2>1, <2>2, <2>4 DEF Top
<1>6. todo'[p] = <<>> => \A names : ~Is(p, 1, names)'
  BY DEF Is
<1>7. Len(todo'[p]) > 1 => todo'[p][2] = todo[p][3]
  BY <1>1
<1> QED
  BY <1>2, <1>3, <1>4, <1>5, <1>6, <1>7

\* A call that neither unlocks nor replaces the window returns.
LEMMA LockDone ==
  ASSUME TInv, NEW p \in Editor, LockInv(p), todo[p] # <<>>, Done(p),
         Top(p).call \in LockCalls \cup Saving \cup {"exists"} \cup Opening \cup {"unlink"},
         ed'[p] = ed[p], lock' = lock, robbed' = robbed, ~new'[p].locked, got'[p] = got[p]
  PROVE  LockInv(p)'
<1>1. CallsOfWindow(p)'
  BY LeftCalls DEF LockInv
<1>2. /\ \A names : Is(p, 1, names)' <=> Is(p, 2, names)
      /\ \A names : Is(p, 2, names)' <=> Is(p, 3, names)
      /\ todo'[p] # <<>> =>
           /\ MayFollow(Top(p), todo'[p][1]) /\ Top(p)' = todo'[p][1]
           /\ todo'[p][1].call \in ForFile => todo'[p][1].file = Top(p).file
      /\ todo'[p] = <<>> => \A names : ~Is(p, 1, names)'
  BY NextCalls
<1>3. /\ \A names : Is(p, 1, names) <=> Top(p).call \in names
      /\ \A names : Is(p, 1, names)' => todo'[p] # <<>> /\ todo'[p][1].call \in names
  <2>1. \A names : Is(p, 1, names)' => todo'[p] # <<>> /\ todo'[p][1].call \in names
    BY <1>2 DEF Is
  <2> QED
    BY <2>1, TopFacts
<1>4. \A f : ~GivesBack(p, f) /\ ~GivesBack(p, f)'
  <2>1. Top(p).call \notin UnlockCalls
    BY DEF LockCalls, Saving, Writing, Opening, UnlockCalls
  <2>2. ~Is(p, 1, UnlockCalls)'
    BY <1>2, <1>3 DEF MayFollow, LockCalls, Saving, Writing, Opening, UnlockCalls, Replacing
  <2> QED
    BY <1>3, <2>1, <2>2 DEF GivesBack
<1>5. Replaces(p)' => Replaces(p)
  <2>1. todo'[p] # <<>> => todo'[p][1].call \in {"lock", "save", "modify", "saved", "saved_as", "take", "clean",
                                                "renew", "close"}
                           /\ (todo'[p][1].call \in {"take", "renew", "close"} => Top(p).call \in Opening \cup {"unlink"})
    BY <1>2 DEF MayFollow, LockCalls, Saving, Writing, Opening, UnlockCalls, Replacing
  <2>2. Replaces(p)' => todo'[p][1].call \in {"take", "renew", "close"}
    BY <1>3, <2>1 DEF Replaces, Replacing, UnlockCalls, Opening
  <2>3. Replaces(p)' => Is(p, 1, Replacing)'
    BY <1>3, <2>1 DEF Replaces, Replacing, UnlockCalls, Opening
  <2> QED
    BY <1>2, <1>3, <2>1, <2>2, <2>3 DEF Replaces
<1>6. KnowsLock(p)'
  BY <1>4, <1>5 DEF LockInv, KnowsLock
<1>7. ASSUME got[p]
      PROVE  /\ Top(p).call \in Saving /\ todo'[p] # <<>>
             /\ Top(p)'.file = Top(p).file /\ Top(p)'.call \in {"saved", "saved_as"}
  <2>1. Top(p).call \in Saving
    BY <1>3, <1>7 DEF LockInv, UsesLock, LockCalls, Saving, Writing, Opening
  <2>2. ~MayEnd(Top(p))
    BY <2>1 DEF MayEnd, Saving, Writing, UnlockCalls, Replacing
  <2>3. todo'[p] # <<>>
    BY <2>2, DoneFacts
  <2>4. todo'[p][1].call \in {"saved", "saved_as"}
    BY <1>2, <2>1, <2>3 DEF MayFollow, LockCalls, Saving, Writing, Opening, UnlockCalls, Replacing
  <2> QED
    BY <1>2, <2>1, <2>3, <2>4 DEF ForFile
<1>8. UsesLock(p)'
  <2>1. ~Is(p, 1, LockCalls \ {"lock"})'
    BY <1>2, <1>3 DEF MayFollow, LockCalls, Saving, Writing, Opening, UnlockCalls, Replacing
  <2>2. got[p] => Is(p, 1, Saving \cup {"saved", "saved_as", "modify"})'
    <3>1. got[p] => Len(todo'[p]) >= 1 /\ Top(p)' = todo'[p][1]
      BY <1>2, <1>7, DoneFacts DEF Shape
    <3> QED
      BY <1>7, <3>1 DEF Is
  <2> QED
    BY <1>7, <2>1, <2>2 DEF LockInv, UsesLock
<1>9. OwnLocks(p)'
  BY <1>4, <1>7 DEF LockInv, OwnLocks, Grabbed
<1> QED
  BY <1>1, <1>6, <1>8, <1>9 DEF LockInv

\* A lock is given back, or was not the own.
LEMMA LockUnlocked ==
  ASSUME TInv, NEW p \in Editor, LockInv(p), todo[p] # <<>>, Unlocked(p), Top(p).call \in UnlockCalls,
         p \in robbed => p \in robbed', ~new'[p].locked, got'[p] = got[p],
         \A f \in File : IF f = Top(p).file THEN lock'[f] # p ELSE lock'[f] = lock[f]
  PROVE  LockInv(p)'
<1>0. Done(p) /\ ed \in [Editor -> Windows]
  BY EdFacts DEF Unlocked, TInv
<1>1. /\ ed'[p].file = ed[p].file /\ ed'[p].modified = ed[p].modified
      /\ ed'[p].locked => ed[p].locked /\ Top(p).file # ed[p].file
      /\ ed[p].locked /\ Top(p).file # ed[p].file => ed'[p].locked
  BY <1>0 DEF Unlocked, Windows
<1>2. /\ \A names : Is(p, 1, names)' <=> Is(p, 2, names)
      /\ \A names : Is(p, 2, names)' <=> Is(p, 3, names)
      /\ \A names : Is(p, 3, names)' <=> Is(p, 4, names)
      /\ todo'[p] # <<>> => MayFollow(Top(p), todo'[p][1]) /\ todo'[p][1] = todo[p][2]
      /\ \A names : Is(p, 1, names) <=> Top(p).call \in names
  BY <1>0, NextCalls, TopFacts
<1>3. CallsOfWindow(p)'
  BY <1>0, <1>1, LeftCalls DEF LockInv
<1>4. ~got[p]
  <2>1. Top(p).call \notin Saving \cup {"saved", "saved_as", "modify"}
    BY DEF UnlockCalls, Saving, Writing
  <2> QED
    BY <1>2, <2>1 DEF LockInv, UsesLock
<1>5. Top(p) = todo[p][1] /\ Shape(todo[p]) /\ Len(todo[p]) \in Nat
  BY TopFacts
<1>6. \A f : GivesBack(p, f) /\ f # Top(p).file => GivesBack(p, f)'
  <2>1. Is(p, 2, UnlockCalls) => Is(p, 1, UnlockCalls)' /\ todo'[p] # <<>>
    BY <1>2 DEF Is
  <2> QED
    BY <1>2, <1>5, <2>1 DEF GivesBack
<1>7. Replaces(p)' => Replaces(p)
  <2>1. ~Is(p, 3, UnlockCalls) \/ Is(p, 2, {"take"})
    <3>1. Is(p, 3, UnlockCalls) => 3 \in 1..Len(todo[p]) /\ todo[p][3].call \in UnlockCalls /\ 2 <= Len(todo[p])
      BY <1>5 DEF Is
    <3> QED
      BY <1>5, <3>1 DEF Shape, UnlocksFirst, Is
  <2>2. ~Is(p, 3, {"unlink"})
    <3>1. Is(p, 3, {"unlink"}) => 3 \in 1..Len(todo[p]) /\ todo[p][3].call = "unlink"
      BY <1>5 DEF Is
    <3> QED
      BY <1>5, <3>1 DEF Shape, UnlocksFirst
  <2>3. ~Is(p, 2, Opening)
    <3>1. Is(p, 1, Opening)' => todo'[p] # <<>> /\ todo'[p][1].call \in Opening
      BY <1>0, NextCalls DEF Is
    <3>2. todo'[p] # <<>> => todo'[p][1].call \notin Opening
      BY <1>2 DEF MayFollow, LockCalls, Saving, Writing, Opening, UnlockCalls, Replacing
    <3> QED
      BY <1>2, <3>1, <3>2
  <2>4. Is(p, 1, UnlockCalls)
    BY <1>2
  <2>5. ~Is(p, 3, UnlockCalls \cup {"unlink"}) \/ Is(p, 2, Replacing)
    BY <2>1, <2>2 DEF Is, Replacing
  <2>6. Is(p, 2, UnlockCalls \cup Opening \cup {"unlink"}) => Is(p, 2, UnlockCalls \cup {"unlink"})
    BY <2>3 DEF Is
  <2>7. Is(p, 1, UnlockCalls \cup Opening \cup {"unlink"})
    BY <1>2
  <2> QED
    BY <1>2, <2>4, <2>5, <2>6, <2>7 DEF Replaces
<1>8. KnowsLock(p)'
  BY <1>1, <1>6, <1>7 DEF LockInv, KnowsLock
<1>9. UsesLock(p)'
  <2>1. ~Is(p, 1, LockCalls \ {"lock"})'
    BY <1>0, <1>2, DoneFacts DEF Is, MayFollow, LockCalls, Saving, Writing, Opening, UnlockCalls, Replacing
  <2> QED
    BY <1>4, <2>1 DEF UsesLock
<1>10. OwnLocks(p)'
  <2>1. ASSUME NEW f \in File, lock'[f] = p PROVE (ed'[p].file = f /\ ed'[p].locked) \/ GivesBack(p, f)'
    BY <1>1, <1>4, <1>6, <2>1 DEF LockInv, OwnLocks, Grabbed
  <2>2. ASSUME ed'[p].locked PROVE lock'[ed[p].file] = p \/ p \in robbed' \/ GivesBack(p, ed[p].file)'
    <3>1. ed[p].locked /\ Top(p).file # ed[p].file /\ ed[p].file \in File
      BY <1>1, <2>2 DEF LockInv, KnowsLock
    <3> QED
      BY <1>1, <1>4, <1>6, <3>1 DEF LockInv, OwnLocks
  <2> QED
    BY <1>1, <2>1, <2>2 DEF OwnLocks
<1> QED
  BY <1>3, <1>8, <1>9, <1>10 DEF LockInv

\* A process that neither unlocks nor opens first goes on with its window.
LEMMA NoReplace ==
  ASSUME NEW p \in Editor,
         todo'[p] # <<>> => todo'[p][1].call \notin UnlockCalls \cup Opening \cup Replacing \cup {"unlink"},
         todo'[p] \in Seq(Calling)
  PROVE  ~Replaces(p)' /\ \A f : ~GivesBack(p, f)'
<1>1. \A names : Is(p, 1, names)' => todo'[p] # <<>> /\ todo'[p][1].call \in names
  BY DEF Is
<1> QED
  BY <1>1 DEF Replaces, GivesBack

\* The window is replaced, or saved under its name: no lock is left that it knows of.
LEMMA LockNone ==
  ASSUME TInv, NEW p \in Editor, LockInv(p), todo[p] # <<>>, Done(p), Top(p).call \in Replacing,
         ~ed[p].locked => ~ed'[p].locked, ~new'[p].locked, lock' = lock, got'[p] = got[p]
  PROVE  LockInv(p)'
<1>1. got[p] = FALSE /\ \A f : ~Grabbed(p, f) /\ ~GivesBack(p, f)
  BY Idle DEF Saving, Writing, Replacing, UnlockCalls
<1>2. ~ed[p].locked
  BY <1>1, TopFacts DEF LockInv, KnowsLock, Replaces
<1>3. CallsOfWindow(p)'
  <2>1. Shape(todo[p]) /\ Top(p) = todo[p][1] /\ Len(todo[p]) \in Nat /\ Len(todo'[p]) = Len(todo[p]) - 1
        /\ \A i \in 1..Len(todo'[p]) : todo'[p][i] = todo[p][i+1]
    BY DoneFacts
  <2>2. ASSUME NEW i \in 1..Len(todo'[p]) PROVE todo'[p][i].call \notin ForFile
    <3>1. i + 1 \in 1..Len(todo[p]) /\ 1 \in 1..(i+1) /\ todo'[p][i] = todo[p][i+1]
      BY <2>1
    <3>2. Top(p).call \notin ForFile
      BY DEF ForFile, Replacing, LockCalls, Saving, Writing
    <3> QED
      BY <2>1, <3>1, <3>2 DEF Shape, OneFile
  <2> QED
    BY <2>2, OtherCalls
<1>4. UsesLock(p)'
  <2>1. todo'[p] # <<>> => MayFollow(Top(p), todo'[p][1])
    BY NextCalls
  <2>2. Is(p, 1, LockCalls)' => todo'[p] # <<>> /\ todo'[p][1].call \in LockCalls
    BY NextCalls DEF Is
  <2>3. ~Is(p, 1, LockCalls)'
    BY <2>1, <2>2 DEF MayFollow, LockCalls, Saving, Writing, Opening, UnlockCalls, Replacing
  <2> QED
    BY <1>1, <2>3 DEF UsesLock, Is
<1> QED
  BY <1>1, <1>2, <1>3, <1>4 DEF LockInv, KnowsLock, OwnLocks

\* A command begins: calls that fit the window, and a lock that is known is given back
\* before the window goes.
LEMMA LockCommand ==
  ASSUME TInv, NEW p \in Editor, LockInv(p), todo[p] = <<>>, NEW calls, Command(p, calls),
         ed' = ed, lock' = lock, robbed' = robbed, new' = new,
         \A i \in 1..Len(calls) : Fits(calls[i], ed[p]),
         calls # <<>>, calls \in Seq(Calling), calls[1].call \notin LockCalls \ {"lock"},
         \/ calls[1].call \notin UnlockCalls \cup Opening \cup Replacing \cup {"unlink"}
         \/ calls[1].call \in Opening /\ Len(calls) > 1 /\ calls[2].call \notin Replacing
         \/ ~ed[p].locked
         \/ calls[1].call = "unlock" /\ calls[1].file = ed[p].file
  PROVE  LockInv(p)'
<1>1. todo'[p] = calls /\ got'[p] = FALSE
  BY DEF Command, EndWith, TInv, CallsInv, DataInv
<1>2. \A names : Is(p, 1, names)' <=> calls[1].call \in names
  BY <1>1 DEF Is
<1>3. CallsOfWindow(p)'
  BY <1>1 DEF CallsOfWindow
<1>4. Replaces(p)' /\ ed[p].locked => GivesBack(p, ed[p].file)'
  <2>1. calls[1].call \notin UnlockCalls \cup Opening \cup Replacing \cup {"unlink"} => ~Replaces(p)'
    BY <1>1, NoReplace
  <2>2. calls[1].call \in Opening /\ Len(calls) > 1 /\ calls[2].call \notin Replacing => ~Replaces(p)'
    <3>1. ~(calls[2].call \in Replacing) => ~Is(p, 2, Replacing)'
      BY <1>1 DEF Is
    <3>2. calls[1].call \in Opening => ~Is(p, 1, UnlockCalls)' /\ ~Is(p, 1, Replacing)'
      BY <1>2 DEF Opening, UnlockCalls, Replacing
    <3> QED
      BY <3>1, <3>2 DEF Replaces
  <2>3. calls[1].call = "unlock" /\ calls[1].file = ed[p].file => GivesBack(p, ed[p].file)'
    BY <1>1, <1>2 DEF GivesBack, UnlockCalls
  <2> QED
    BY <2>1, <2>2, <2>3
<1>5. ~Is(p, 1, LockCalls \ {"lock"})'
  BY <1>2
<1>6. ~new'[p].locked
  BY DEF LockInv, KnowsLock
<1> QED
  BY <1>1, <1>3, <1>4, <1>5, <1>6, LockNew

\* A command ends.
LEMMA LockEnd ==
  ASSUME TInv, NEW p \in Editor, LockInv(p), todo[p] # <<>>, EndWith(p, <<>>),
         Top(p).call \notin Saving \cup {"saved", "saved_as", "modify"} \cup UnlockCalls,
         ed'[p] = ed[p], lock' = lock, robbed' = robbed, ~new'[p].locked, got'[p] \in {FALSE, got[p]}
  PROVE  LockInv(p)'
<1>1. todo'[p] = <<>>
  BY DEF EndWith, TInv, CallsInv
<1>2. got'[p] = FALSE
  BY Idle
<1>3. ~Replaces(p)' /\ ~Is(p, 1, LockCalls \ {"lock"})' /\ CallsOfWindow(p)'
  BY <1>1 DEF Replaces, Is, CallsOfWindow
<1> QED
  BY <1>1, <1>2, <1>3, LockNew

\* Calls that fit the window come before those that are left.
LEMMA WindowBecome ==
  ASSUME TInv, NEW p \in Editor, CallsOfWindow(p), todo[p] # <<>>,
         NEW calls, Shape(calls), calls # <<>>,
         \A d : MayFollow(Top(p), d) =>
           MayFollow(calls[Len(calls)], d) /\ d.call \in {"clean", "take", "renew", "close"},
         Become(p, calls), ed' = ed, \A i \in 1..Len(calls) : Fits(calls[i], ed[p])
  PROVE  CallsOfWindow(p)'
<1>1. /\ Len(todo'[p]) = Len(calls) + Len(todo[p]) - 1
      /\ Len(calls) \in Nat /\ Len(calls) > 0 /\ Len(todo[p]) \in Nat /\ Len(todo[p]) > 0
      /\ \A i \in 1..Len(calls) : todo'[p][i] = calls[i]
      /\ \A i \in 1..Len(todo[p])-1 : todo'[p][Len(calls) + i] = todo[p][i+1]
  BY BecomeFacts
<1> SUFFICES ASSUME NEW i \in 1..Len(todo'[p]) PROVE Fits(todo'[p][i], ed[p])
  BY DEF CallsOfWindow
<1>2. CASE i <= Len(calls)
  BY <1>1, <1>2
<1>3. CASE i > Len(calls)
  <2> DEFINE k == i - Len(calls)
  <2>1. k \in 1..Len(todo[p])-1 /\ i = Len(calls) + k /\ k + 1 \in 1..Len(todo[p])
    BY <1>1, <1>3
  <2> HIDE DEF k
  <2>2. todo'[p][i] = todo[p][k+1]
    BY <1>1, <2>1
  <2> QED
    BY <2>1, <2>2 DEF CallsOfWindow
<1> QED
  BY <1>1, <1>2, <1>3

\* edit_lock_file takes a lock only for the file at hand, and keeps count of it.
LEMMA LockingLocks ==
  ASSUME TInv, NEW p \in Editor, LockInv(p),
         Lock(p) \/ LockRead(p) \/ LockAnswer(p) \/ LockUnlink(p) \/ LockSymlink(p)
  PROVE  LockInv(p)'
<1>a. /\ todo[p] # <<>> /\ Top(p).call \in LockCalls /\ ed' = ed /\ new' = new
      /\ lock \in [File -> Editor \cup {Dead, NoLock}] /\ got \in [Editor -> BOOLEAN] /\ robbed \subseteq Editor
      /\ NoLock \notin Editor
  BY EditFileAssumption DEF Lock, LockRead, LockAnswer, LockUnlink, LockSymlink, Calls, LockCalls, TInv, DataInv
<1>b. got[p] = FALSE /\ \A f : ~Grabbed(p, f) /\ ~GivesBack(p, f)
  BY <1>a, Idle DEF LockCalls, Saving, Writing, UnlockCalls
<1>c. Top(p).call # "lock" => Top(p).file \in File
  BY <1>a, TopFacts DEF LockInv, UsesLock
<1>d. ~new'[p].locked
  BY <1>a DEF LockInv, KnowsLock
<1>1. ASSUME Done(p), lock' = lock, robbed' = robbed, got'[p] = got[p] PROVE LockInv(p)'
  BY <1>a, <1>d, <1>1, LockDone
<1>2. ASSUME NEW name \in LockCalls, Goto(p, name), Top(p).file \in File, got'[p] = got[p],
             \A f \in File : lock'[f] = p <=> lock[f] = p, p \in robbed => p \in robbed'
      PROVE  LockInv(p)'
  BY <1>a, <1>d, <1>2, LockGoto
<1>3. CASE Lock(p)
  <2>1. lock' = lock /\ robbed' = robbed /\ got'[p] = got[p]
    BY <1>a, <1>b, <1>3 DEF Lock, historyVars
  <2>2. Done(p) \/ (Top(p).file \in File /\ \E name \in LockCalls : Goto(p, name))
    BY <1>3 DEF Lock, LockCalls
  <2> QED
    BY <1>1, <1>2, <2>1, <2>2
<1>4. CASE LockRead(p)
  <2>1. lock' = lock /\ robbed' = robbed /\ got' = got /\ Top(p).file \in File
    BY <1>c, <1>4 DEF LockRead, historyVars, Calls
  <2>2. Done(p) \/ \E name \in LockCalls : Goto(p, name)
    BY <1>4 DEF LockRead, LockCalls
  <2> QED
    BY <1>1, <1>2, <2>1, <2>2
<1>5. CASE LockAnswer(p)
  <2>1. lock' = lock /\ robbed' = robbed /\ got' = got /\ Top(p).file \in File
    BY <1>c, <1>5 DEF LockAnswer, historyVars, Calls
  <2>2. Done(p) \/ \E name \in LockCalls : Goto(p, name)
    BY <1>5 DEF LockAnswer, LockCalls
  <2> QED
    BY <1>1, <1>2, <2>1, <2>2
<1>6. ASSUME Calls(p, "lock_unlink") \/ Calls(p, "symlink"), Top(p).file \in File
      PROVE  lock[Top(p).file] # p /\ (ed[p].locked => ed[p].file # Top(p).file)
  <2>1. Fits(Top(p), ed[p])
    BY <1>a, TopFacts DEF LockInv, CallsOfWindow
  <2> QED
    BY <1>a, <1>b, <1>6, <2>1 DEF LockInv, OwnLocks, Fits
<1>7. CASE LockUnlink(p)
  <2>1. Top(p).file \in File /\ Calls(p, "lock_unlink")
    BY <1>c, <1>7 DEF LockUnlink, Calls
  <2>2. lock[Top(p).file] # p
    BY <1>6, <2>1
  <2>3. (\A f \in File : lock'[f] = p <=> lock[f] = p) /\ (p \in robbed => p \in robbed')
    BY <1>a, <1>7, <2>1, <2>2 DEF LockUnlink, Unlinked
  <2>4. got' = got /\ \E name \in LockCalls : Goto(p, name)
    BY <1>7 DEF LockUnlink, LockCalls
  <2> QED
    BY <1>2, <2>1, <2>3, <2>4
<1>8. CASE LockSymlink(p)
  <2> DEFINE f == Top(p).file
  <2>1. f \in File /\ lock[f] # p /\ (ed[p].locked => ed[p].file # f) /\ Done(p)
    BY <1>c, <1>6, <1>8 DEF LockSymlink, Calls
  <2>2. PICK ok \in BOOLEAN :
          /\ got' = [got EXCEPT ![p] = ok]
          /\ lock' = IF ok THEN [lock EXCEPT ![f] = p] ELSE lock
          /\ robbed' = IF ok THEN robbed \ {p} ELSE robbed
    BY <1>8 DEF LockSymlink
  <2> HIDE DEF f
  <2>3. CASE ~ok
    BY <1>1, <1>a, <1>b, <2>1, <2>2, <2>3
  <2>4. CASE ok
    <3>1. /\ todo'[p] # <<>> => MayFollow(Top(p), todo'[p][1]) /\ Top(p)' = todo'[p][1]
                                /\ (todo'[p][1].call \in ForFile => todo'[p][1].file = Top(p).file)
          /\ todo'[p] \in Seq(Calling) /\ ~(todo'[p] = <<>>)
      <4>1. ~MayEnd(Top(p))
        BY <1>a DEF MayEnd, LockCalls, UnlockCalls, Replacing
      <4> QED
        BY <1>a, <2>1, <4>1, NextCalls, DoneFacts DEF Shape
    <3>2. todo'[p][1].call \in {"save", "modify"} /\ Top(p)'.file = f /\ Len(todo'[p]) >= 1
      <4>1. todo'[p][1].call \in {"save", "modify"}
        BY <1>a, <3>1 DEF MayFollow, LockCalls, Saving, Writing, Opening, UnlockCalls, Replacing
      <4> QED
        BY <3>1, <4>1 DEF ForFile, Saving, f
    <3>3. CallsOfWindow(p)'
      BY <1>a, <2>1, LeftCalls DEF LockInv
    <3>4. ~Replaces(p)' /\ \A g : ~GivesBack(p, g)'
      <4>1. todo'[p][1].call \notin UnlockCalls \cup Opening \cup Replacing \cup {"unlink"}
        BY <3>2 DEF UnlockCalls, Opening, Replacing
      <4> QED
        BY <3>1, <4>1, NoReplace
    <3>5. KnowsLock(p)'
      BY <1>a, <1>d, <3>4 DEF LockInv, KnowsLock
    <3>6. got'[p] = TRUE /\ lock'[f] = p /\ \A g \in File : g # f => lock'[g] = lock[g]
      BY <1>a, <2>1, <2>2, <2>4
    <3>7. UsesLock(p)'
      <4>1. Is(p, 1, Saving \cup {"saved", "saved_as", "modify"})' /\ ~Is(p, 1, LockCalls \ {"lock"})'
        BY <3>2 DEF Is, Saving, LockCalls
      <4> QED
        BY <2>1, <3>2, <3>6, <4>1 DEF UsesLock
    <3>8. OwnLocks(p)'
      <4>1. ASSUME NEW g \in File, lock'[g] = p PROVE (ed[p].file = g /\ ed[p].locked) \/ Grabbed(p, g)'
        BY <1>b, <3>2, <3>6, <4>1 DEF LockInv, OwnLocks, Grabbed
      <4> QED
        BY <1>a, <2>1, <3>2, <3>6, <4>1 DEF OwnLocks
    <3> QED
      BY <3>3, <3>5, <3>7, <3>8 DEF LockInv
  <2> QED
    BY <2>3, <2>4
<1> QED
  BY <1>3, <1>4, <1>5, <1>7, <1>8

\* edit_unlock_file leaves no lock of its own.
LEMMA UnlockingLocks ==
  ASSUME TInv, NEW p \in Editor, LockInv(p), Unlock(p) \/ UnlockRead(p) \/ UnlockUnlink(p)
  PROVE  LockInv(p)'
<1>a. /\ todo[p] # <<>> /\ Top(p).call \in UnlockCalls /\ new' = new /\ got' = got
      /\ lock \in [File -> Editor \cup {Dead, NoLock}] /\ robbed \subseteq Editor /\ NoLock \notin Editor
  BY EditFileAssumption DEF Unlock, UnlockRead, UnlockUnlink, Calls, UnlockCalls, TInv, DataInv
<1>b. ~new'[p].locked
  BY <1>a DEF LockInv, KnowsLock
<1>1. ASSUME Unlocked(p), p \in robbed => p \in robbed',
             \A f \in File : IF f = Top(p).file THEN lock'[f] # p ELSE lock'[f] = lock[f]
      PROVE  LockInv(p)'
  BY <1>a, <1>b, <1>1, LockUnlocked
<1>2. ASSUME NEW name \in UnlockCalls, Goto(p, name), ed' = ed, lock' = lock, robbed' = robbed PROVE LockInv(p)'
  <2>1. name \notin LockCalls
    BY DEF UnlockCalls, LockCalls
  <2> QED
    BY <1>a, <1>b, <1>2, <2>1, LockGoto
<1>3. CASE Unlock(p)
  <2>1. /\ lock' = lock /\ robbed' = robbed
        /\ \/ Unlocked(p) /\ (Top(p).file \notin File \/ lock[Top(p).file] = NoLock)
           \/ Goto(p, "unlock_read") /\ ed' = ed
    BY <1>3 DEF Unlock, historyVars
  <2>2. "unlock_read" \in UnlockCalls
    BY DEF UnlockCalls
  <2>3. CASE Unlocked(p) /\ (Top(p).file \notin File \/ lock[Top(p).file] = NoLock)
    <3>1. \A f \in File : IF f = Top(p).file THEN lock'[f] # p ELSE lock'[f] = lock[f]
      BY <1>a, <2>1, <2>3
    <3> QED
      BY <1>1, <2>1, <2>3, <3>1
  <2> QED
    BY <1>2, <2>1, <2>2, <2>3
<1>4. CASE UnlockRead(p)
  <2>1. lock' = lock /\ robbed' = robbed
    BY <1>4 DEF UnlockRead, historyVars
  <2>2. CASE lock[Top(p).file] \in {p, NoLock}
    <3>1. Goto(p, "unlock_unlink") /\ ed' = ed /\ "unlock_unlink" \in UnlockCalls
      BY <1>4, <2>2 DEF UnlockRead, UnlockCalls
    <3> QED
      BY <1>2, <2>1, <3>1
  <2>3. CASE lock[Top(p).file] \notin {p, NoLock}
    <3>1. Unlocked(p)
      BY <1>4, <2>3 DEF UnlockRead
    <3>2. \A f \in File : IF f = Top(p).file THEN lock'[f] # p ELSE lock'[f] = lock[f]
      BY <2>1, <2>3
    <3> QED
      BY <1>1, <2>1, <3>1, <3>2
  <2> QED
    BY <2>2, <2>3
<1>5. CASE UnlockUnlink(p)
  BY <1>a, <1>1, <1>5 DEF UnlockUnlink, Unlinked
<1> QED
  BY <1>3, <1>4, <1>5

\* Writing, opening and removing files leaves the locks alone.
LEMMA WritingLocks ==
  ASSUME TInv, NEW p \in Editor, LockInv(p),
         \/ Save(p) \/ SaveTemp(p) \/ SaveOpen(p) \/ SaveWrite(p) \/ SaveBackup(p) \/ SaveReplace(p)
         \/ Exists(p) \/ Open(p) \/ Create(p) \/ Read(p) \/ Unlink(p)
  PROVE  LockInv(p)'
<1>a. /\ todo[p] # <<>> /\ Top(p).call \in Saving \cup {"exists"} \cup Opening \cup {"unlink"}
      /\ ed' = ed /\ lock' = lock /\ robbed' = robbed /\ got' = got
      /\ new \in [Editor -> Windows]
  BY DEF Save, SaveTemp, SaveOpen, SaveWrite, SaveBackup, SaveReplace, Exists, Open, Create, Read, Unlink,
         Calls, Saving, Writing, Opening, historyVars, TInv, DataInv
<1>b. ~new'[p].locked
  <2>1. ~new[p].locked
    BY DEF LockInv, KnowsLock
  <2>2. new[p] \in Windows
    BY <1>a
  <2>3. CASE Open(p)
    <3>1. new' = new \/ \E v : new' = [new EXCEPT ![p] = Window(Top(p).file, v, FALSE)]
      BY <2>3 DEF Open
    <3> QED
      BY <1>a, <2>1, <3>1 DEF Window
  <2>4. CASE Create(p)
    <3>1. new' = new \/ new' = [new EXCEPT ![p] = Window(Top(p).file, 0, TRUE)]
      BY <2>4 DEF Create
    <3> QED
      BY <1>a, <2>1, <3>1 DEF Window
  <2>5. CASE Read(p)
    BY <1>a, <2>1, <2>2, <2>5 DEF Read, Windows
  <2>6. CASE ~Open(p) /\ ~Create(p) /\ ~Read(p)
    BY <2>1, <2>6 DEF Save, SaveTemp, SaveOpen, SaveWrite, SaveBackup, SaveReplace, Exists, Unlink
  <2> QED
    BY <2>3, <2>4, <2>5, <2>6
<1>1. ASSUME Done(p) PROVE LockInv(p)'
  BY <1>a, <1>b, <1>1, LockDone
<1>2. ASSUME NEW kind \in {Saving, Opening}, Top(p).call \in kind, NEW name \in kind, Goto(p, name) PROVE LockInv(p)'
  <2>1. name \notin LockCalls
    BY DEF Saving, Writing, Opening, LockCalls
  <2> QED
    BY <1>a, <1>b, <1>2, <2>1, LockGoto
<1>3. ASSUME EndWith(p, <<>>), Top(p).call \in Opening \cup {"exists"} PROVE LockInv(p)'
  <2>1. Top(p).call \notin Saving \cup {"saved", "saved_as", "modify"} \cup UnlockCalls
    BY <1>3 DEF Saving, Writing, Opening, UnlockCalls
  <2> QED
    BY <1>a, <1>b, <1>3, <2>1, LockEnd
<1>4. CASE \/ Save(p) \/ SaveTemp(p) \/ SaveOpen(p) \/ SaveWrite(p) \/ SaveBackup(p) \/ SaveReplace(p)
  <2>1. Top(p).call \in Saving
    BY <1>4 DEF Save, SaveTemp, SaveOpen, SaveWrite, SaveBackup, SaveReplace, Calls, Saving, Writing
  <2>2. Done(p) \/ \E name \in Saving : Goto(p, name)
    BY <1>4 DEF Save, SaveTemp, SaveOpen, SaveWrite, SaveBackup, SaveReplace, Returns, AfterWrite, Saving, Writing
  <2> QED
    BY <1>1, <1>2, <2>1, <2>2
<1>5. CASE Exists(p)
  BY <1>1, <1>3, <1>5 DEF Exists, Calls
<1>6. CASE Open(p)
  BY <1>2, <1>6 DEF Open, Calls, Opening
<1>7. CASE Create(p)
  BY <1>2, <1>3, <1>7 DEF Create, Calls, Opening
<1>8. CASE Unlink(p)
  BY <1>1, <1>8 DEF Unlink
<1>9. CASE Read(p)
  <2>1. CASE Done(p)
    BY <1>1, <2>1
  <2>2. CASE EndWith(p, If(new[p].delete_file, <<Call("unlink", Top(p).file)>>))
    <3>1. CASE ~new[p].delete_file
      BY <1>3, <1>9, <2>2, <3>1 DEF If, Read, Calls, Opening
    <3>2. CASE new[p].delete_file
      <4>1. todo'[p] = <<Call("unlink", Top(p).file)>>
        BY <2>2, <3>2 DEF EndWith, If, TInv, CallsInv
      <4>2. Len(todo'[p]) = 1 /\ todo'[p][1].call = "unlink"
        BY <4>1 DEF Call
      <4>3. CallsOfWindow(p)'
        BY <4>2 DEF CallsOfWindow, Fits, LockCalls
      <4>4. ~Replaces(p)' /\ ~Is(p, 1, LockCalls \ {"lock"})'
        BY <4>2 DEF Replaces, Is, Replacing, LockCalls
      <4>5. Top(p).call = "read"
        BY <1>9 DEF Read, Calls
      <4>6. Top(p).call \notin Saving \cup {"saved", "saved_as", "modify"} \cup UnlockCalls
        BY <4>5 DEF Saving, Writing, UnlockCalls
      <4>7. got'[p] = FALSE
        BY <1>a, <4>6, Idle
      <4> QED
        BY <1>a, <1>b, <4>3, <4>4, <4>6, <4>7, LockNew
    <3> QED
      BY <3>1, <3>2
  <2> QED
    BY <1>9, <2>1, <2>2 DEF Read
<1> QED
  BY <1>4, <1>5, <1>6, <1>7, <1>8, <1>9

\* Most calls fit any window.
LEMMA FitsAny ==
  ASSUME NEW c, NEW w, c.call \notin {"saved", "modify", "exists"} \cup LockCalls
  PROVE  Fits(c, w)
  BY DEF Fits

\* Saves fit the window they are made for: a lock is taken only where none is known.
LEMMA SaveFits ==
  ASSUME TInv, NEW p \in Editor
  PROVE  \A i \in 1..Len(SaveCalls(p)) : Fits(SaveCalls(p)[i], ed[p])
<1> DEFINE f == ed[p].file
           a == Call("lock", f)
           b == Call("save", f)
           c == Call("saved", f)
<1>1. SaveCalls(p) = IF ~ed[p].locked /\ ~ed[p].delete_file THEN <<a, b, c>> ELSE <<b, c>>
  BY ShapeOfSave
<1>2. /\ a.call = "lock" /\ b.call = "save" /\ c.call = "saved" /\ c.file = ed[p].file
  BY DEF Call
<1> HIDE DEF a, b, c
<1>3. (~ed[p].locked => Fits(a, ed[p])) /\ Fits(b, ed[p]) /\ Fits(c, ed[p])
  BY <1>2 DEF Fits, LockCalls
<1> QED
  BY <1>1, <1>3

LEMMA SaveAsFits ==
  ASSUME TInv, NEW p \in Editor, NEW exp \in File
  PROVE  \A i \in 1..Len(SaveAsCalls(p, exp)) : Fits(SaveAsCalls(p, exp)[i], ed[p])
<1> DEFINE o == Call("exists", exp)
           a == Call("lock", exp)
           b == Call("save", exp)
           c == Call("saved_as", exp)
<1>1. SaveAsCalls(p, exp) = IF exp # ed[p].file THEN <<o, a, b, c>>
                            ELSE IF ~ed[p].locked /\ ~ed[p].delete_file THEN <<a, b, c>> ELSE <<b, c>>
  BY ShapeOfSaveAs
<1>2. /\ o.call = "exists" /\ a.call = "lock" /\ b.call = "save" /\ c.call = "saved_as"
      /\ o.file = exp /\ a.file = exp
  BY DEF Call
<1> HIDE DEF o, a, b, c
<1>3. /\ exp # ed[p].file => Fits(o, ed[p]) /\ Fits(a, ed[p])
      /\ ~ed[p].locked => Fits(a, ed[p])
      /\ Fits(b, ed[p]) /\ Fits(c, ed[p])
  BY <1>2 DEF Fits, LockCalls
<1> QED
  BY <1>1, <1>3

\* The elements of two sequences, one after the other.
LEMMA InTwo ==
  ASSUME NEW S, NEW t \in Seq(S), NEW r \in Seq(S)
  PROVE  /\ t \o r \in Seq(S) /\ Len(t \o r) = Len(t) + Len(r)
         /\ \A i \in 1..Len(t \o r) : i <= Len(t) => i \in 1..Len(t) /\ (t \o r)[i] = t[i]
         /\ \A i \in 1..Len(t \o r) : i > Len(t) => i - Len(t) \in 1..Len(r) /\ (t \o r)[i] = r[i - Len(t)]
  OBVIOUS

\* The commands of the user.
LEMMA CommandLocks ==
  ASSUME TInv, NEW p \in Editor, LockInv(p),
         \/ SaveCommand(p) \/ SaveAsCommand(p) \/ Modify(p) \/ Start(p) \/ LoadCommand(p)
         \/ NewCommand(p) \/ QuitCommand(p)
  PROVE  LockInv(p)'
<1>a. /\ todo[p] = <<>> /\ lock' = lock /\ robbed' = robbed /\ new' = new /\ ed[p].file \in Name
      /\ ed \in [Editor -> Windows] /\ got \in [Editor -> BOOLEAN]
      /\ ~Modify(p) => ed' = ed
  BY EdFacts DEF SaveCommand, SaveAsCommand, Modify, Start, LoadCommand, NewCommand, QuitCommand, Editing, AtRest,
         historyVars, TInv, DataInv
<1>b. ASSUME NEW calls, Command(p, calls), ed' = ed, calls \in Seq(Calling), calls # <<>>,
             \A i \in 1..Len(calls) : Fits(calls[i], ed[p]), calls[1].call \notin LockCalls \ {"lock"},
             \/ calls[1].call \notin UnlockCalls \cup Opening \cup Replacing \cup {"unlink"}
             \/ calls[1].call \in Opening /\ Len(calls) > 1 /\ calls[2].call \notin Replacing
             \/ ~ed[p].locked
             \/ calls[1].call = "unlock" /\ calls[1].file = ed[p].file
      PROVE  LockInv(p)'
  BY <1>a, <1>b, LockCommand
<1>c. ASSUME NEW name \in {"renew", "close"},
             LET u == Call("unlock", ed[p].file)
                 s == <<Call("clean", ed[p].file), Call(name, ed[p].file)>>
             IN Command(p, If(ed[p].locked, <<u>>) \o s),
             ed' = ed
      PROVE  LockInv(p)'
  <2> DEFINE u == Call("unlock", ed[p].file)
             b == Call("clean", ed[p].file)
             c == Call(name, ed[p].file)
  <2>1. /\ u \in Calling /\ u.call = "unlock" /\ u.file = ed[p].file
        /\ b \in Calling /\ b.call = "clean" /\ c \in Calling /\ c.call = name
    BY <1>a, CallTypes DEF CallName, UnlockCalls, Replacing
  <2>2. \/ ed[p].locked /\ Command(p, <<u>> \o <<b, c>>)
        \/ ~ed[p].locked /\ Command(p, <<>> \o <<b, c>>)
    BY <1>c DEF If
  <2> HIDE DEF u, b, c
  <2>3. <<u>> \o <<b, c>> = <<u, b, c>> /\ <<>> \o <<b, c>> = <<b, c>>
    BY <2>1, ShapeOfLeave
  <2>4. Fits(u, ed[p]) /\ Fits(b, ed[p]) /\ Fits(c, ed[p])
    BY <2>1, FitsAny DEF LockCalls
  <2>5. CASE ed[p].locked /\ Command(p, <<u, b, c>>)
    <3> DEFINE s == <<u, b, c>>
    <3>1. s \in Seq(Calling) /\ s # <<>> /\ s[1] = u /\ \A i \in 1..Len(s) : s[i] \in {u, b, c}
      BY <2>1
    <3>2. Command(p, s)
      BY <2>5
    <3> HIDE DEF s
    <3>3. (\A i \in 1..Len(s) : Fits(s[i], ed[p])) /\ s[1].call \notin LockCalls \ {"lock"}
      BY <2>1, <2>4, <3>1 DEF LockCalls
    <3> QED
      BY <1>b, <1>c, <2>1, <3>1, <3>2, <3>3
  <2>6. CASE ~ed[p].locked /\ Command(p, <<b, c>>)
    <3> DEFINE s == <<b, c>>
    <3>1. s \in Seq(Calling) /\ s # <<>> /\ s[1] = b /\ \A i \in 1..Len(s) : s[i] \in {u, b, c}
      BY <2>1
    <3>2. Command(p, s)
      BY <2>6
    <3> HIDE DEF s
    <3>3. (\A i \in 1..Len(s) : Fits(s[i], ed[p])) /\ s[1].call \notin LockCalls \ {"lock"}
      BY <2>1, <2>4, <3>1 DEF LockCalls
    <3> QED
      BY <1>b, <1>c, <2>6, <3>1, <3>2, <3>3
  <2> QED
    BY <2>2, <2>3, <2>5, <2>6
<1>d. {"lock", "save", "exists"} \cap (UnlockCalls \cup Opening \cup Replacing \cup {"unlink"}) = {}
      /\ {"lock", "save", "exists"} \cap (LockCalls \ {"lock"}) = {}
  BY DEF UnlockCalls, Opening, Replacing, LockCalls
<1>1. CASE SaveCommand(p)
  <2> DEFINE s == SaveCalls(p)
  <2>1. Shape(s) /\ s[1].call \in {"lock", "save"} /\ Len(s) \in {2, 3}
    BY ShapeOfSave
  <2>2. Command(p, s) /\ ed' = ed /\ \A i \in 1..Len(s) : Fits(s[i], ed[p])
    BY <1>1, SaveFits DEF SaveCommand
  <2> HIDE DEF s
  <2>3. s \in Seq(Calling) /\ s # <<>>
    BY <2>1 DEF Shape
  <2> QED
    BY <1>b, <1>d, <2>1, <2>2, <2>3
<1>2. CASE SaveAsCommand(p)
  <2>0. PICK exp \in File : Command(p, SaveAsCalls(p, exp))
    BY <1>2 DEF SaveAsCommand
  <2> DEFINE s == SaveAsCalls(p, exp)
  <2>1. Shape(s) /\ s[1].call \in {"exists", "lock", "save"} /\ Len(s) \in 2..4
    BY ShapeOfSaveAs
  <2>2. Command(p, s) /\ ed' = ed /\ \A i \in 1..Len(s) : Fits(s[i], ed[p])
    BY <1>2, <2>0, SaveAsFits DEF SaveAsCommand
  <2> HIDE DEF s
  <2>3. s \in Seq(Calling) /\ s # <<>>
    BY <2>1 DEF Shape
  <2> QED
    BY <1>b, <1>d, <2>1, <2>2, <2>3
<1>3. CASE Modify(p)
  <2>1. CASE ed[p].modified \/ ed[p].delete_file
    <3>1. Command(p, <<>>) /\ Change(p, ed[p].locked)
      BY <1>3, <2>1 DEF Modify
    <3>2. todo'[p] = <<>> /\ got'[p] = FALSE
      BY <3>1 DEF Command, EndWith, TInv, CallsInv, DataInv
    <3>3. ed'[p].file = ed[p].file /\ ed'[p].locked = ed[p].locked /\ ed'[p].modified = TRUE
      BY <1>a, <3>1 DEF Change, Windows
    <3>4. got[p] = FALSE /\ \A f : ~Grabbed(p, f) /\ ~GivesBack(p, f)
      BY <1>a, Idle
    <3>5. KnowsLock(p)' /\ UsesLock(p)' /\ CallsOfWindow(p)'
      BY <1>a, <3>2, <3>3 DEF LockInv, KnowsLock, UsesLock, CallsOfWindow, Replaces, Is
    <3>6. OwnLocks(p)'
      BY <1>a, <3>3, <3>4 DEF LockInv, OwnLocks
    <3> QED
      BY <3>5, <3>6 DEF LockInv
  <2>2. CASE ~(ed[p].modified \/ ed[p].delete_file)
    <3> DEFINE a == Call("lock", ed[p].file)
               b == Call("modify", ed[p].file)
               s == <<a, b>>
    <3>1. /\ a \in Calling /\ a.call = "lock" /\ b \in Calling /\ b.call = "modify" /\ b.file = ed[p].file
      BY <1>a, CallTypes DEF CallName, ForFile, LockCalls
    <3>2. Command(p, s) /\ ed' = ed
      BY <1>3, <2>2 DEF Modify
    <3> HIDE DEF a, b
    <3>3. ~ed[p].locked
      BY <2>2 DEF LockInv, KnowsLock
    <3>4. Fits(a, ed[p]) /\ Fits(b, ed[p])
      BY <3>1, <3>3 DEF Fits
    <3>5. s \in Seq(Calling) /\ s # <<>> /\ s[1] = a /\ \A i \in 1..Len(s) : s[i] \in {a, b}
      BY <3>1
    <3> HIDE DEF s
    <3> QED
      BY <1>b, <1>d, <3>1, <3>2, <3>3, <3>4, <3>5
  <2> QED
    BY <2>1, <2>2
<1>4. CASE Start(p)
  <2>0. ~ed[p].locked
    BY <1>4, PathFacts DEF Start, LockInv, KnowsLock
  <2>1. ASSUME NEW f \in File, Command(p, <<Call("open", f), Call("take", f)>>) PROVE LockInv(p)'
    <3> DEFINE a == Call("open", f)
               b == Call("take", f)
               s == <<a, b>>
    <3>1. a \in Calling /\ a.call = "open" /\ b \in Calling /\ b.call = "take"
      BY PathFacts, CallTypes DEF CallName, Opening, Replacing
    <3>2. Command(p, s) /\ ed' = ed
      BY <1>4, <2>1 DEF Start
    <3> HIDE DEF a, b
    <3>3. Fits(a, ed[p]) /\ Fits(b, ed[p])
      BY <3>1, FitsAny DEF LockCalls
    <3>4. s \in Seq(Calling) /\ s # <<>> /\ s[1] = a /\ \A i \in 1..Len(s) : s[i] \in {a, b}
      BY <3>1
    <3> HIDE DEF s
    <3>5. s[1].call \notin LockCalls \ {"lock"}
      BY <3>1, <3>4 DEF LockCalls
    <3> QED
      BY <1>b, <2>0, <3>2, <3>3, <3>4, <3>5
  <2>2. CASE Command(p, <<Call("renew", NoName)>>)
    <3> DEFINE a == Call("renew", NoName)
               s == <<a>>
    <3>1. a \in Calling /\ a.call = "renew"
      BY PathFacts, CallTypes DEF CallName, Replacing
    <3>2. Command(p, s) /\ ed' = ed
      BY <1>4, <2>2 DEF Start
    <3> HIDE DEF a
    <3>3. Fits(a, ed[p])
      BY <3>1, FitsAny DEF LockCalls
    <3>4. s \in Seq(Calling) /\ s # <<>> /\ s[1] = a /\ \A i \in 1..Len(s) : s[i] = a
      BY <3>1
    <3> HIDE DEF s
    <3>5. s[1].call \notin LockCalls \ {"lock"}
      BY <3>1, <3>4 DEF LockCalls
    <3> QED
      BY <1>b, <2>0, <3>2, <3>3, <3>4, <3>5
  <2> QED
    BY <1>4, <2>1, <2>2 DEF Start
<1>5. CASE LoadCommand(p)
  <2>0. PICK f \in File :
          Command(p, <<Call("open", f), Call("clean", f), Call("take", f)>>
                     \o If(ed[p].locked, <<Call("unlock", ed[p].file)>>))
    BY <1>5 DEF LoadCommand
  <2> DEFINE a == Call("open", f)
             b == Call("clean", f)
             c == Call("take", f)
             u == Call("unlock", ed[p].file)
             r == If(ed[p].locked, <<u>>)
             s == <<a, b, c>> \o r
  <2>1. /\ a \in Calling /\ a.call = "open" /\ b \in Calling /\ b.call = "clean"
        /\ c \in Calling /\ c.call = "take" /\ u \in Calling /\ u.call = "unlock"
    BY <1>a, PathFacts, CallTypes DEF CallName, Opening, Replacing, UnlockCalls
  <2>2. Command(p, s) /\ ed' = ed
    BY <1>5, <2>0 DEF LoadCommand
  <2> HIDE DEF a, b, c, u
  <2>3. Fits(a, ed[p]) /\ Fits(b, ed[p]) /\ Fits(c, ed[p]) /\ Fits(u, ed[p])
    BY <2>1, FitsAny DEF LockCalls
  <2>4. r \in {<<>>, <<u>>}
    BY DEF If
  <2> HIDE DEF r
  <2>5. s \in Seq(Calling) /\ s # <<>> /\ Len(s) > 1 /\ s[1] = a /\ s[2] = b /\ \A i \in 1..Len(s) : s[i] \in {a, b, c, u}
    <3>1. <<a, b, c>> \in Seq(Calling)
      BY <2>1
    <3>2. <<a, b, c>> \o <<>> = <<a, b, c>>
      BY <3>1, Together
    <3>3. \A x, y, z, t \in Calling : <<x, y, z>> \o <<t>> = <<x, y, z, t>>
      BY Together
    <3>4. a \in Calling /\ b \in Calling /\ c \in Calling /\ u \in Calling
      BY <2>1
    <3>5. <<a, b, c>> \o <<u>> = <<a, b, c, u>>
      BY <3>3, <3>4, Zenon
    <3>6. s \in {<<a, b, c>>, <<a, b, c, u>>}
      BY <2>4, <3>2, <3>5
    <3> HIDE DEF s
    <3>7. <<a, b, c>> \in Seq(Calling) /\ <<a, b, c, u>> \in Seq(Calling)
      BY <3>4
    <3>8. CASE s = <<a, b, c>>
      BY <3>7, <3>8
    <3>9. CASE s = <<a, b, c, u>>
      BY <3>7, <3>9
    <3> QED
      BY <3>6, <3>8, <3>9
  <2> HIDE DEF s
  <2>6. s[1].call \notin LockCalls \ {"lock"} /\ s[1].call \in Opening /\ s[2].call \notin Replacing
    BY <2>1, <2>5 DEF LockCalls, Opening, Replacing
  <2> QED
    BY <1>b, <2>2, <2>3, <2>5, <2>6
<1>6. CASE NewCommand(p)
  BY <1>a, <1>c, <1>6 DEF NewCommand
<1>7. CASE QuitCommand(p)
  <2>0. ed' = ed
    BY <1>7 DEF QuitCommand
  <2> DEFINE b == Call("clean", ed[p].file)
             c == Call("close", ed[p].file)
  <2>1. CASE Command(p, If(ed[p].locked, <<Call("unlock", ed[p].file)>>) \o <<b, c>>)
    BY <1>c, <2>0, <2>1
  <2>2. CASE Command(p, SaveCalls(p) \o <<b, c>>)
    <3>1. /\ b \in Calling /\ b.call = "clean" /\ c \in Calling /\ c.call = "close"
      BY <1>a, CallTypes DEF CallName, Replacing
    <3> DEFINE t == SaveCalls(p)
               r == <<b, c>>
               s == t \o r
    <3>2. Shape(t) /\ t[1].call \in {"lock", "save"} /\ Len(t) \in {2, 3} /\ \A i \in 1..Len(t) : Fits(t[i], ed[p])
      BY ShapeOfSave, SaveFits
    <3>3. Command(p, s)
      BY <2>2
    <3> HIDE DEF t, b, c
    <3>4. r \in Seq(Calling) /\ Len(r) = 2 /\ \A i \in 1..Len(r) : Fits(r[i], ed[p])
      <4>1. Fits(b, ed[p]) /\ Fits(c, ed[p])
        BY <3>1, FitsAny DEF LockCalls
      <4> QED
        BY <3>1, <4>1
    <3> HIDE DEF r
    <3>5. t \in Seq(Calling) /\ Len(t) \in Nat /\ 1 \in 1..Len(t)
      BY <3>2 DEF Shape
    <3>6. /\ s \in Seq(Calling) /\ Len(s) = Len(t) + Len(r) /\ s # <<>> /\ s[1] = t[1]
          /\ \A i \in 1..Len(s) : i <= Len(t) => i \in 1..Len(t) /\ s[i] = t[i]
          /\ \A i \in 1..Len(s) : i > Len(t) => i - Len(t) \in 1..Len(r) /\ s[i] = r[i - Len(t)]
      <4>0. t \in Seq(Calling) /\ r \in Seq(Calling)
        BY <3>4, <3>5
      <4>1. s \in Seq(Calling) /\ Len(s) = Len(t) + Len(r)
        BY <4>0, InTwo
      <4>2. \A i \in 1..Len(s) : i <= Len(t) => i \in 1..Len(t) /\ s[i] = t[i]
        BY <4>0, InTwo
      <4>3. \A i \in 1..Len(s) : i > Len(t) => i - Len(t) \in 1..Len(r) /\ s[i] = r[i - Len(t)]
        BY <4>0, InTwo
      <4> HIDE DEF s
      <4>5. Len(r) \in Nat /\ 1 \in 1..Len(s) /\ 1 <= Len(t)
        BY <3>4, <3>5, <4>1
      <4>4. s # <<>> /\ s[1] = t[1]
        BY <3>5, <4>1, <4>2, <4>5
      <4> QED
        BY <4>1, <4>2, <4>3, <4>4
    <3> HIDE DEF s
    <3>7. \A i \in 1..Len(s) : Fits(s[i], ed[p])
      <4> SUFFICES ASSUME NEW i \in 1..Len(s) PROVE Fits(s[i], ed[p])
        OBVIOUS
      <4>1. CASE i <= Len(t)
        BY <3>2, <3>6, <4>1
      <4>2. CASE i > Len(t)
        BY <3>4, <3>6, <4>2
      <4> QED
        BY <3>5, <3>6, <4>1, <4>2
    <3> QED
      BY <1>b, <1>d, <2>0, <3>2, <3>3, <3>6, <3>7
  <2> QED
    BY <1>7, <2>1, <2>2 DEF QuitCommand
<1> QED
  BY <1>1, <1>2, <1>3, <1>4, <1>5, <1>6, <1>7

\* One, two or three calls.
LEMMA FewCalls ==
  ASSUME NEW s, NEW a \in Calling, NEW b \in Calling, NEW c \in Calling,
         s \in {<<a>>, <<b>>, <<c>>, <<a, b>>, <<a, c>>, <<b, c>>, <<a, b, c>>}
  PROVE  /\ s \in Seq(Calling) /\ Len(s) \in 1..3 /\ s # <<>> /\ s[1] \in {a, b, c}
         /\ s \in {<<c>>, <<a, c>>, <<b, c>>, <<a, b, c>>} => s[Len(s)] = c
         /\ \A i \in 1..Len(s) : s[i] \in {a, b, c}
<1>1. CASE s = <<a>>
  BY <1>1
<1>2. CASE s = <<b>>
  BY <1>2
<1>3. CASE s = <<c>>
  BY <1>3
<1>4. CASE s = <<a, b>>
  BY <1>4
<1>5. CASE s = <<a, c>>
  BY <1>5
<1>6. CASE s = <<b, c>>
  BY <1>6
<1>7. CASE s = <<a, b, c>>
  BY <1>7
<1> QED
  BY <1>1, <1>2, <1>3, <1>4, <1>5, <1>6, <1>7

\* A lock is given back next, or after another.
LEMMA GivesFirst ==
  ASSUME NEW p, NEW c, todo'[p][1] = c, Len(todo'[p]) >= 1, c.call = "unlock"
  PROVE  GivesBack(p, c.file)'
  BY DEF GivesBack, Is, UnlockCalls
LEMMA GivesSecond ==
  ASSUME NEW p, NEW b, NEW c, todo'[p][1] = b, todo'[p][2] = c, Len(todo'[p]) >= 2,
         Len(todo'[p]) \in Nat, b.call = "unlock", c.call = "unlock"
  PROVE  GivesBack(p, c.file)'
  BY DEF GivesBack, Is, UnlockCalls

\* A save ends: the lock that was taken for it goes, and so does that of a saved text.
LEMMA SavedLocks ==
  ASSUME TInv, NEW p \in Editor, LockInv(p), Saved(p)
  PROVE  LockInv(p)'
<1>0. PICK f, u, w : /\ f = ed[p].file /\ u = Call("unlock", f)
                     /\ w = Call(IF result[p] THEN "named" ELSE "ask_name", f)
  OBVIOUS
<1>1. /\ f \in Name /\ todo[p] # <<>> /\ Top(p).call = "saved" /\ got'[p] = FALSE
      /\ lock' = lock /\ robbed' = robbed /\ ed' = ed /\ ~new'[p].locked
      /\ IF (result[p] /\ ed[p].locked) \/ got[p] THEN Become(p, <<u>> \o <<w>>) ELSE Become(p, <<>> \o <<w>>)
  BY <1>0, EdFacts DEF Saved, Forget, If, Calls, historyVars, TInv, DataInv, LockInv, KnowsLock
<1>2. /\ u \in Calling /\ u.call = "unlock" /\ u.file = f
      /\ w \in Calling /\ w.call = IF result[p] THEN "named" ELSE "ask_name"
  BY <1>0, <1>1, CallTypes DEF CallName, UnlockCalls, Replacing
<1>3. /\ <<>> \o <<w>> = <<w>> /\ <<u>> \o <<w>> = <<u, w>> /\ Shape(<<w>>) /\ Shape(<<u, w>>)
  BY <1>2, ShapeOfUnlocks
<1>4. \A d : MayFollow(Top(p), d) => MayFollow(w, d) /\ d.call \in {"clean", "take", "renew", "close"}
  BY <1>1, <1>2 DEF MayFollow, LockCalls, UnlockCalls, Saving, Writing, Opening, Replacing
<1>5. Fits(u, ed[p]) /\ Fits(w, ed[p])
  BY <1>2, FitsAny DEF LockCalls
<1>6. ASSUME NEW s \in {<<w>>, <<u, w>>}, Become(p, s)
      PROVE  CallsOfWindow(p)' /\ Shape(todo'[p]) /\ todo'[p] # <<>> /\ todo'[p][1] = s[1]
  <2>0. Shape(s)
    BY <1>3
  <2>1. s # <<>> /\ s[Len(s)] = w /\ \A i \in 1..Len(s) : s[i] \in {u, w}
    BY <1>2, FewCalls
  <2>4. \A i \in 1..Len(s) : Fits(s[i], ed[p])
    BY <1>5, <2>1
  <2>2. CallsOfWindow(p)'
    BY <1>1, <1>4, <1>6, <2>0, <2>1, <2>4, WindowBecome DEF LockInv
  <2>3. Shape(todo'[p]) /\ todo'[p][1] = s[1] /\ todo'[p] # <<>>
    BY <1>1, <1>4, <1>6, <2>0, <2>1, BecomeFacts
  <2> QED
    BY <2>2, <2>3
<1>7. /\ \A names : Is(p, 1, names) <=> Top(p).call \in names
      /\ Fits(Top(p), ed[p]) /\ got[p] \in BOOLEAN
  BY <1>1, TopFacts DEF LockInv, CallsOfWindow, TInv, DataInv
<1>8. /\ Top(p).file = f /\ \A g : ~GivesBack(p, g)
  BY <1>0, <1>1, <1>7 DEF Fits, GivesBack, UnlockCalls
<1>9. CASE (result[p] /\ ed[p].locked) \/ got[p]
  <2>1. CallsOfWindow(p)' /\ Shape(todo'[p]) /\ todo'[p] # <<>> /\ todo'[p][1] = u
    BY <1>1, <1>3, <1>6, <1>9
  <2>2. \A names : Is(p, 1, names)' <=> "unlock" \in names
    BY <1>2, <2>1 DEF Is, Shape
  <2>3. GivesBack(p, f)'
    <3>1. Len(todo'[p]) >= 1
      BY <2>1 DEF Shape
    <3> QED
      BY <1>2, <2>1, <3>1, GivesFirst
  <2>4. KnowsLock(p)' /\ UsesLock(p)'
    BY <1>0, <1>1, <2>2, <2>3 DEF LockInv, KnowsLock, UsesLock, LockCalls
  <2>5. OwnLocks(p)'
    BY <1>0, <1>1, <1>8, <2>3 DEF LockInv, OwnLocks, Grabbed
  <2> QED
    BY <2>1, <2>4, <2>5 DEF LockInv
<1>10. CASE ~((result[p] /\ ed[p].locked) \/ got[p])
  <2>1. CallsOfWindow(p)' /\ Shape(todo'[p]) /\ todo'[p] # <<>> /\ todo'[p][1] = w
    BY <1>1, <1>3, <1>6, <1>10
  <2>2. \A names : Is(p, 1, names)' <=> w.call \in names
    BY <2>1 DEF Is, Shape
  <2>3. ed[p].locked => ~Replaces(p)'
    <3>1. ed[p].locked => w.call = "ask_name"
      BY <1>2, <1>10
    <3>2. "ask_name" \notin UnlockCalls \cup Opening \cup Replacing \cup {"unlink"}
      BY DEF UnlockCalls, Opening, Replacing
    <3>3. todo'[p] \in Seq(Calling)
      BY <2>1 DEF Shape
    <3> QED
      BY <2>1, <3>1, <3>2, <3>3, NoReplace
  <2>4. KnowsLock(p)' /\ UsesLock(p)'
    BY <1>1, <1>2, <2>2, <2>3 DEF LockInv, KnowsLock, UsesLock, LockCalls
  <2>5. OwnLocks(p)'
    BY <1>0, <1>1, <1>8, <1>10 DEF LockInv, OwnLocks, Grabbed
  <2> QED
    BY <2>1, <2>4, <2>5 DEF LockInv
<1> QED
  BY <1>9, <1>10

\* So it is for a save under another name, where two locks may go.
LEMMA SavedAsLocks ==
  ASSUME TInv, NEW p \in Editor, LockInv(p), SavedAs(p)
  PROVE  LockInv(p)'
<1>0. PICK exp, f, u, v, w, l :
        /\ exp = Top(p).file /\ f = ed[p].file /\ u = Call("unlock", exp) /\ v = Call("unlock", f)
        /\ w = Call("named", exp) /\ l = LocksToDrop(p, exp)
  OBVIOUS
<1>1. /\ todo[p] # <<>> /\ Top(p).call = "saved_as" /\ got'[p] = FALSE
      /\ lock' = lock /\ robbed' = robbed /\ ed' = ed /\ ~new'[p].locked
      /\ IF result[p] THEN Become(p, l \o <<w>>) ELSE EndWith(p, l)
  BY <1>0 DEF SavedAs, Forget, Calls, historyVars, TInv, DataInv, LockInv, KnowsLock
<1>2. exp \in Name /\ f \in Name /\ got[p] \in BOOLEAN /\ result[p] \in BOOLEAN /\ ed[p].locked \in BOOLEAN
      /\ todo \in [Editor -> Seq(Calling)]
  BY <1>0, <1>1, TopFacts, EdFacts DEF TInv, DataInv, CallsInv
<1>3. l = IF exp # f /\ got[p]
          THEN IF result[p] => ed[p].locked THEN <<u, v>> ELSE <<u>>
          ELSE IF got[p] \/ (result[p] /\ ed[p].locked) THEN <<v>> ELSE <<>>
  BY <1>0, <1>2, Drops
<1>4. /\ u \in Calling /\ u.call = "unlock" /\ u.file = exp /\ v \in Calling /\ v.call = "unlock" /\ v.file = f
      /\ w \in Calling /\ w.call = "named"
  BY <1>0, <1>2, CallTypes DEF CallName, UnlockCalls, Replacing
<1>5. /\ \A names : Is(p, 1, names) <=> Top(p).call \in names
  BY <1>1, TopFacts
<1>6. \A g : ~GivesBack(p, g) /\ (Grabbed(p, g) <=> got[p] /\ g = exp)
  BY <1>0, <1>1, <1>5 DEF GivesBack, Grabbed, UnlockCalls
<1>7. /\ <<>> \o <<w>> = <<w>> /\ <<u>> \o <<w>> = <<u, w>> /\ <<u, v>> \o <<w>> = <<u, v, w>>
      /\ <<v>> \o <<w>> = <<v, w>>
      /\ Shape(<<w>>) /\ Shape(<<u, w>>) /\ Shape(<<u, v, w>>) /\ Shape(<<v, w>>)
  <2>1. /\ <<>> \o <<w>> = <<w>> /\ <<u>> \o <<w>> = <<u, w>> /\ <<u, v>> \o <<w>> = <<u, v, w>>
        /\ Shape(<<w>>) /\ Shape(<<u, w>>) /\ Shape(<<u, v, w>>)
    BY <1>4, ShapeOfUnlocks
  <2>2. <<v>> \o <<w>> = <<v, w>> /\ Shape(<<v, w>>)
    BY <1>4, ShapeOfUnlocks
  <2> QED
    BY <2>1, <2>2
<1>8. \A d : MayFollow(Top(p), d) => MayFollow(w, d) /\ d.call \in {"clean", "take", "renew", "close"}
  BY <1>1, <1>4 DEF MayFollow, LockCalls, UnlockCalls, Saving, Writing, Opening, Replacing
<1>9. Fits(u, ed[p]) /\ Fits(v, ed[p]) /\ Fits(w, ed[p])
  BY <1>4, FitsAny DEF LockCalls
<1>10. CallsOfWindow(p)'
  <2>1. ASSUME NEW s \in {<<w>>, <<u, w>>, <<v, w>>, <<u, v, w>>}, Become(p, s) PROVE CallsOfWindow(p)'
    <3>1. Shape(s)
      BY <1>7
    <3>2. s # <<>> /\ s[Len(s)] = w
      BY <1>4, FewCalls
    <3>3. \A i \in 1..Len(s) : s[i] \in {u, v, w}
      BY <1>4, FewCalls
    <3>4. \A i \in 1..Len(s) : Fits(s[i], ed[p])
      BY <1>9, <3>3
    <3> QED
      BY <1>1, <1>8, <2>1, <3>1, <3>2, <3>4, WindowBecome DEF LockInv
  <2>2. CASE result[p]
    <3>1. Become(p, l \o <<w>>) /\ l \in {<<>>, <<u>>, <<v>>, <<u, v>>}
      BY <1>1, <1>3, <2>2
    <3> QED
      BY <1>7, <2>1, <3>1
  <2>3. CASE ~result[p]
    <3>1. todo'[p] = l /\ l \in {<<>>, <<u>>, <<v>>, <<u, v>>}
      BY <1>1, <1>2, <1>3, <2>3 DEF EndWith
    <3>2. \A i \in 1..Len(todo'[p]) : todo'[p][i] \in {u, v}
      BY <3>1
    <3> QED
      BY <1>1, <1>9, <3>2 DEF CallsOfWindow
  <2> QED
    BY <2>2, <2>3
\* What is called next.
<1>11. /\ todo'[p] \in Seq(Calling) /\ Len(todo'[p]) \in Nat
       /\ l # <<>> => todo'[p] # <<>> /\ todo'[p][1] = l[1] /\ Len(todo'[p]) >= Len(l)
       /\ Len(l) > 1 => todo'[p][2] = l[2]
       /\ l = <<>> /\ todo'[p] # <<>> => todo'[p][1] = w
       /\ ~result[p] => todo'[p] = l
  <2>0. l \in {<<>>, <<u>>, <<v>>, <<u, v>>}
    BY <1>3
  <2>1. ASSUME NEW s \in {<<w>>, <<u, w>>, <<v, w>>, <<u, v, w>>}, Become(p, s)
        PROVE  /\ todo'[p] \in Seq(Calling) /\ Len(todo'[p]) \in Nat /\ todo'[p] # <<>>
               /\ Len(todo'[p]) >= Len(s) /\ \A i \in 1..Len(s) : todo'[p][i] = s[i]
    <3>1. Shape(s)
      BY <1>7
    <3>2. s # <<>> /\ s[Len(s)] = w
      BY <1>4, FewCalls
    <3>3. /\ Shape(todo'[p]) /\ Len(todo'[p]) = Len(s) + Len(todo[p]) - 1 /\ todo'[p] # <<>>
          /\ Len(s) \in Nat /\ Len(todo[p]) \in Nat /\ Len(todo[p]) > 0
          /\ \A i \in 1..Len(s) : todo'[p][i] = s[i]
      BY <1>1, <1>8, <2>1, <3>1, <3>2, BecomeFacts
    <3> QED
      BY <3>3 DEF Shape
  <2>2. CASE result[p]
    <3>1. Become(p, l \o <<w>>)
      BY <1>1, <2>2
    <3>2. CASE l = <<>>
      <4>1. Become(p, <<w>>) /\ 1 \in 1..Len(<<w>>) /\ <<w>>[1] = w
        BY <1>7, <3>1, <3>2
      <4> QED
        BY <2>1, <2>2, <3>2, <4>1
    <3>3. CASE l = <<u>>
      <4>0. 1 \in 1..Len(<<u, w>>) /\ <<u, w>>[1] = u /\ Len(<<u, w>>) = 2
        OBVIOUS
      <4>1. Become(p, <<u, w>>)
        BY <1>7, <3>1, <3>3
      <4> QED
        BY <2>1, <2>2, <3>3, <4>0, <4>1
    <3>4. CASE l = <<v>>
      <4>0. 1 \in 1..Len(<<v, w>>) /\ <<v, w>>[1] = v /\ Len(<<v, w>>) = 2
        OBVIOUS
      <4>1. Become(p, <<v, w>>)
        BY <1>7, <3>1, <3>4
      <4> QED
        BY <2>1, <2>2, <3>4, <4>0, <4>1
    <3>5. CASE l = <<u, v>>
      <4>0. /\ 1 \in 1..Len(<<u, v, w>>) /\ 2 \in 1..Len(<<u, v, w>>)
            /\ <<u, v, w>>[1] = u /\ <<u, v, w>>[2] = v /\ Len(<<u, v, w>>) = 3
        OBVIOUS
      <4>1. Become(p, <<u, v, w>>)
        BY <1>7, <3>1, <3>5
      <4> QED
        BY <2>1, <2>2, <3>5, <4>0, <4>1
    <3> QED
      BY <2>0, <3>2, <3>3, <3>4, <3>5
  <2>3. CASE ~result[p]
    <3>1. todo'[p] = l
      BY <1>1, <1>2, <2>3 DEF EndWith
    <3>2. l \in Seq(Calling)
      <4>1. l = <<>> => l \in Seq(Calling)
        OBVIOUS
      <4> QED
        BY <1>4, <2>0, <4>1, FewCalls
    <3> QED
      BY <2>0, <2>3, <3>1, <3>2
  <2> QED
    BY <2>2, <2>3
<1>12. \A names : Is(p, 1, names)' => todo'[p] # <<>> /\ todo'[p][1].call \in names
  BY <1>11 DEF Is
<1>13. exp # f /\ got[p] => GivesBack(p, exp)'
  <2> SUFFICES ASSUME exp # f, got[p] PROVE GivesBack(p, exp)'
    OBVIOUS
  <2>1. l \in {<<u>>, <<u, v>>}
    BY <1>3
  <2>2. l # <<>> /\ l[1] = u
    BY <2>1
  <2>3. Len(todo'[p]) >= 1 /\ todo'[p][1] = u
    BY <1>11, <2>2
  <2> QED
    BY <1>4, <2>3, GivesFirst
<1>14. (exp = f /\ got[p]) \/ (ed[p].locked /\ (got[p] \/ result[p])) => GivesBack(p, f)'
  <2> SUFFICES ASSUME (exp = f /\ got[p]) \/ (ed[p].locked /\ (got[p] \/ result[p])) PROVE GivesBack(p, f)'
    OBVIOUS
  <2>1. l \in {<<v>>, <<u, v>>}
    BY <1>3
  <2>2. CASE l = <<v>>
    <3>1. Len(todo'[p]) >= 1 /\ todo'[p][1] = v
      BY <1>11, <2>2
    <3> QED
      BY <1>4, <3>1, GivesFirst
  <2>3. CASE l = <<u, v>>
    <3>1. Len(todo'[p]) >= 2 /\ todo'[p][1] = u /\ todo'[p][2] = v
      BY <1>11, <2>3
    <3> QED
      BY <1>4, <1>11, <3>1, GivesSecond
  <2> QED
    BY <2>1, <2>2, <2>3
<1>15. Replaces(p)' /\ ed[p].locked => GivesBack(p, f)'
  <2> SUFFICES ASSUME ~result[p], ~got[p] PROVE ~Replaces(p)'
    BY <1>2, <1>14
  <2>1. todo'[p] = <<>>
    BY <1>3, <1>11
  <2> QED
    BY <1>12, <2>1 DEF Replaces
<1>16. KnowsLock(p)'
  BY <1>0, <1>1, <1>15 DEF LockInv, KnowsLock
<1>17. UsesLock(p)'
  <2>1. todo'[p] # <<>> => todo'[p][1].call \in {"unlock", "named"}
    <3>1. l # <<>> => l[1] \in {u, v}
      BY <1>3
    <3> QED
      BY <1>4, <1>11, <3>1
  <2>2. ~Is(p, 1, LockCalls \ {"lock"})'
    BY <1>12, <2>1 DEF LockCalls
  <2> QED
    BY <1>1, <2>2 DEF UsesLock
<1>18. OwnLocks(p)'
  <2>1. ASSUME NEW g \in File, lock[g] = p PROVE (f = g /\ ed[p].locked) \/ GivesBack(p, g)'
    BY <1>0, <1>6, <1>13, <1>14, <2>1 DEF LockInv, OwnLocks
  <2>2. ASSUME ed[p].locked PROVE lock[f] = p \/ p \in robbed \/ GivesBack(p, f)'
    BY <1>0, <1>6, <1>14, <2>2 DEF LockInv, OwnLocks
  <2> QED
    BY <1>0, <1>1, <2>1, <2>2 DEF OwnLocks
<1> QED
  BY <1>10, <1>16, <1>17, <1>18 DEF LockInv

\* Asking for a name, and cleaning up.
LEMMA AskingLocks ==
  ASSUME TInv, NEW p \in Editor, LockInv(p), AskName(p)
  PROVE  LockInv(p)'
<1>1. /\ todo[p] # <<>> /\ Top(p).call = "ask_name" /\ got'[p] = FALSE
      /\ lock' = lock /\ robbed' = robbed /\ ed' = ed /\ ~new'[p].locked
      /\ EndWith(p, <<>>) \/ \E exp \in File : Become(p, SaveAsCalls(p, exp))
  BY DEF AskName, Calls, historyVars, TInv, DataInv, LockInv, KnowsLock
<1>2. Top(p).call \notin Saving \cup {"saved", "saved_as", "modify"} \cup UnlockCalls
  BY <1>1 DEF Saving, Writing, UnlockCalls
<1>3. CASE EndWith(p, <<>>)
  BY <1>1, <1>2, <1>3, LockEnd
<1>4. ASSUME NEW exp \in File, Become(p, SaveAsCalls(p, exp)) PROVE LockInv(p)'
  <2>0. PICK s : s = SaveAsCalls(p, exp)
    OBVIOUS
  <2>1. /\ Shape(s) /\ Len(s) \in 2..4 /\ s[Len(s)].call = "saved_as"
        /\ s[1].call \in {"exists", "lock", "save"} /\ Become(p, s)
    BY <1>4, <2>0, ShapeOfSaveAs
  <2>2. s # <<>>
    BY <2>1 DEF Shape
  <2>3. \A i \in 1..Len(s) : Fits(s[i], ed[p])
    BY <2>0, SaveAsFits
  <2>4. \A d : MayFollow(Top(p), d) => MayFollow(s[Len(s)], d) /\ d.call \in {"clean", "take", "renew", "close"}
    BY <1>1, <2>1 DEF MayFollow, LockCalls, UnlockCalls, Saving, Writing, Opening, Replacing
  <2>5. CallsOfWindow(p)'
    BY <1>1, <2>1, <2>2, <2>3, <2>4, WindowBecome DEF LockInv
  <2>6. Shape(todo'[p]) /\ todo'[p][1] = s[1] /\ todo'[p] # <<>>
    BY <1>1, <2>1, <2>2, <2>4, BecomeFacts
  <2>7. ~Replaces(p)'
    <3>1. todo'[p][1].call \notin UnlockCalls \cup Opening \cup Replacing \cup {"unlink"}
      BY <2>1, <2>6 DEF UnlockCalls, Opening, Replacing
    <3>2. todo'[p] \in Seq(Calling)
      BY <2>6 DEF Shape
    <3> QED
      BY <3>1, <3>2, NoReplace
  <2>8. ~Is(p, 1, LockCalls \ {"lock"})'
    BY <2>1, <2>6 DEF Is, LockCalls
  <2> QED
    BY <1>1, <1>2, <2>5, <2>7, <2>8, LockNew
<1> QED
  BY <1>1, <1>3, <1>4

LEMMA CleaningLocks ==
  ASSUME TInv, NEW p \in Editor, LockInv(p), Clean(p)
  PROVE  LockInv(p)'
<1>0. PICK f, u, w : f = ed[p].file /\ u = Call("unlock", f) /\ w = Call("unlink", f)
  OBVIOUS
<1>1. /\ f \in Name /\ todo[p] # <<>> /\ Top(p).call = "clean" /\ got' = got
      /\ lock' = lock /\ robbed' = robbed /\ ed' = ed /\ ~new'[p].locked
      /\ IF ed[p].locked THEN Become(p, <<u>> \o <<>>) \/ Become(p, <<u>> \o <<w>>)
         ELSE Become(p, <<>> \o <<>>) \/ Become(p, <<>> \o <<w>>)
  BY <1>0, EdFacts DEF Clean, CleanCalls, If, Calls, historyVars, TInv, LockInv, KnowsLock
<1>2. u \in Calling /\ u.call = "unlock" /\ u.file = f /\ w \in Calling /\ w.call = "unlink"
  BY <1>0, <1>1, CallTypes DEF CallName, UnlockCalls
<1>3. /\ <<>> \o <<w>> = <<w>> /\ <<u>> \o <<w>> = <<u, w>> /\ <<u>> \o <<>> = <<u>> /\ <<>> \o <<>> = <<>>
      /\ Shape(<<w>>) /\ Shape(<<u, w>>) /\ Shape(<<u>>)
  BY <1>2, ShapeOfUnlocks
<1>4. \A d : MayFollow(Top(p), d) =>
        MayFollow(u, d) /\ MayFollow(w, d) /\ d.call \in {"clean", "take", "renew", "close"}
  BY <1>1, <1>2 DEF MayFollow, LockCalls, UnlockCalls, Saving, Writing, Opening, Replacing
<1>5. Fits(u, ed[p]) /\ Fits(w, ed[p])
  BY <1>2, FitsAny DEF LockCalls
<1>6. Top(p).call \notin Saving \cup {"saved", "saved_as", "modify"} \cup UnlockCalls
  BY <1>1 DEF Saving, Writing, UnlockCalls
<1>7. got'[p] = FALSE
  BY <1>1, <1>6, Idle
<1>8. ASSUME NEW s \in {<<w>>, <<u, w>>, <<u>>}, Become(p, s)
      PROVE  CallsOfWindow(p)' /\ Shape(todo'[p]) /\ todo'[p] # <<>> /\ todo'[p][1] = s[1] /\ s[1] \in {u, w}
  <2>1. Shape(s)
    BY <1>3
  <2>2. s # <<>> /\ s[Len(s)] \in {u, w} /\ s[1] \in {u, w} /\ \A i \in 1..Len(s) : s[i] \in {u, w}
    <3>1. /\ s # <<>> /\ Len(s) \in 1..3 /\ s[1] \in {u, w} /\ \A i \in 1..Len(s) : s[i] \in {u, w}
      BY <1>2, FewCalls
    <3> QED
      BY <3>1
  <2>3. \A i \in 1..Len(s) : Fits(s[i], ed[p])
    BY <1>5, <2>2
  <2>4. \A d : MayFollow(Top(p), d) => MayFollow(s[Len(s)], d) /\ d.call \in {"clean", "take", "renew", "close"}
    BY <1>4, <2>2
  <2>5. CallsOfWindow(p)'
    BY <1>1, <1>8, <2>1, <2>2, <2>3, <2>4, WindowBecome DEF LockInv
  <2>6. Shape(todo'[p]) /\ todo'[p][1] = s[1] /\ todo'[p] # <<>>
    BY <1>1, <1>8, <2>1, <2>2, <2>4, BecomeFacts
  <2> QED
    BY <2>2, <2>5, <2>6
<1>9. ~Is(p, 1, LockCalls \ {"lock"})'
  <2>1. ASSUME NEW s \in {<<w>>, <<u, w>>, <<u>>}, Become(p, s) PROVE todo'[p][1] \in {u, w}
    BY <1>8, <2>1
  <2>2. CASE Done(p)
    <3>1. todo'[p] # <<>> => MayFollow(Top(p), todo'[p][1])
      BY <1>1, <2>2, NextCalls
    <3>2. Is(p, 1, LockCalls)' => todo'[p] # <<>> /\ todo'[p][1].call \in LockCalls
      BY <1>1, <2>2, NextCalls DEF Is
    <3>3. ~Is(p, 1, LockCalls)'
      BY <1>1, <3>1, <3>2 DEF MayFollow, LockCalls, Saving, Writing, Opening, UnlockCalls, Replacing
    <3> QED
      BY <3>3 DEF Is
  <2>3. ASSUME todo'[p][1] \in {u, w} PROVE ~Is(p, 1, LockCalls \ {"lock"})'
    BY <1>2, <2>3 DEF Is, LockCalls
  <2> QED
    BY <1>1, <1>3, <2>1, <2>2, <2>3 DEF Done
<1>10. CASE ed[p].locked
  <2>1. PICK s \in {<<u>>, <<u, w>>} : Become(p, s)
    BY <1>1, <1>3, <1>10
  <2>2. CallsOfWindow(p)' /\ Shape(todo'[p]) /\ todo'[p] # <<>> /\ todo'[p][1] = s[1]
    BY <1>8, <2>1
  <2>3. s[1] = u
    BY <2>1
  <2>4. Len(todo'[p]) >= 1
    BY <2>2 DEF Shape
  <2>5. GivesBack(p, f)'
    BY <1>2, <2>2, <2>3, <2>4, GivesFirst
  <2>6. GivesBack(p, ed[p].file)'
    BY <1>0, <1>1, <2>5
  <2> QED
    BY <1>1, <1>6, <1>7, <1>9, <2>2, <2>6, LockNew
<1>11. CASE ~ed[p].locked
  <2>1. CallsOfWindow(p)'
    <3>1. CASE Become(p, <<>> \o <<>>)
      <4>1. Done(p)
        BY <1>3, <3>1 DEF Done
      <4> QED
        BY <1>1, <4>1, LeftCalls DEF LockInv
    <3>2. CASE Become(p, <<>> \o <<w>>)
      BY <1>3, <1>8, <3>2
    <3> QED
      BY <1>1, <1>11, <3>1, <3>2
  <2> QED
    BY <1>1, <1>6, <1>7, <1>9, <1>11, <2>1, LockNew
<1> QED
  BY <1>10, <1>11

\* The window is saved under its name, taken over or left.
LEMMA ReplacingLocks ==
  ASSUME TInv, NEW p \in Editor, LockInv(p), Named(p) \/ Take(p) \/ Leave(p)
  PROVE  LockInv(p)'
<1>1. /\ todo[p] # <<>> /\ Done(p) /\ Top(p).call \in Replacing /\ lock' = lock /\ got' = got
      /\ ed \in [Editor -> Windows] /\ new \in [Editor -> Windows] /\ ~new[p].locked
  BY DEF Named, Take, Leave, Calls, Replacing, TInv, DataInv, LockInv, KnowsLock
<1>2. CASE Named(p)
  <2>1. ed'[p].locked = ed[p].locked /\ new' = new
    BY <1>1, <1>2 DEF Named, Windows
  <2> QED
    BY <1>1, <2>1, LockNone
<1>3. CASE Take(p)
  <2>1. ~ed'[p].locked /\ ~new'[p].locked
    BY <1>1, <1>3 DEF Take, Window
  <2> QED
    BY <1>1, <2>1, LockNone
<1>4. CASE Leave(p)
  <2>1. ~ed'[p].locked /\ new' = new
    <3>1. (\E f : ed' = [ed EXCEPT ![p] = Window(f, 0, FALSE)]) /\ new' = new
      BY <1>4 DEF Leave
    <3> QED
      BY <1>1, <3>1 DEF Window
  <2> QED
    BY <1>1, <2>1, LockNone
<1> QED
  BY <1>2, <1>3, <1>4

\* A text is modified under the lock that was taken for it, or without one.
LEMMA ModifiedLocks ==
  ASSUME TInv, NEW p \in Editor, LockInv(p), Modified(p)
  PROVE  LockInv(p)'
<1>1. /\ todo[p] # <<>> /\ Top(p).call = "modify" /\ Done(p) /\ got'[p] = FALSE /\ Change(p, got[p])
      /\ lock' = lock /\ robbed' = robbed /\ ~new'[p].locked /\ ed \in [Editor -> Windows] /\ got[p] \in BOOLEAN
  BY DEF Modified, Calls, TInv, DataInv, LockInv, KnowsLock
<1>2. ed'[p].file = ed[p].file /\ ed'[p].locked = got[p] /\ ed'[p].modified = TRUE
  BY <1>1 DEF Change, Windows
<1>3. todo'[p] = <<>>
  <2>1. todo'[p] # <<>> => MayFollow(Top(p), todo'[p][1])
    BY <1>1, NextCalls
  <2> QED
    BY <1>1, <2>1 DEF MayFollow, LockCalls, Saving, Writing, Opening, UnlockCalls, Replacing
<1>4. /\ \A names : Is(p, 1, names) <=> Top(p).call \in names
      /\ Fits(Top(p), ed[p])
  BY <1>1, TopFacts DEF LockInv, CallsOfWindow
<1>5. Top(p).file = ed[p].file /\ ~ed[p].locked /\ \A g : ~GivesBack(p, g)
  BY <1>1, <1>4 DEF Fits, GivesBack, UnlockCalls
<1>6. KnowsLock(p)' /\ UsesLock(p)' /\ CallsOfWindow(p)'
  BY <1>1, <1>2, <1>3, <1>5 DEF LockInv, KnowsLock, UsesLock, CallsOfWindow, Replaces, Is
<1>7. OwnLocks(p)'
  BY <1>1, <1>2, <1>5 DEF LockInv, UsesLock, OwnLocks, Grabbed
<1> QED
  BY <1>6, <1>7 DEF LockInv

\* What a process knows of its locks outlives its steps and those of the others.
LEMMA LocksStep ==
  ASSUME TInv, AllLocks, [Next]_vars
  PROVE  AllLocks'
<1>a. alive \subseteq Editor /\ alive' \subseteq Editor
  BY TypesStep DEF TInv, DataInv
<1>1. ASSUME NEW p \in Editor, Step(p) PROVE AllLocks'
  <2>1. ASSUME NEW q \in alive', q # p PROVE LockInv(q)'
    <3>1. q \in Editor
      BY <1>a
    <3>2. /\ todo'[q] = todo[q] /\ ed'[q] = ed[q] /\ new'[q] = new[q] /\ got'[q] = got[q] /\ q \in alive
      BY <1>1, <2>1, <3>1, Frame
    <3>3. /\ q \in robbed => q \in robbed'
          /\ \A f \in File : (lock'[f] = q => lock[f] = q) /\ (lock[f] = q => lock'[f] = q \/ q \in robbed')
      BY <1>1, <2>1, <3>1, LockFrame
    <3>4. LockInv(q)
      BY <3>2 DEF AllLocks
    <3>5. (\A k, names : Is(q, k, names)' <=> Is(q, k, names)) /\ Top(q)' = Top(q)
      BY <3>2 DEF Is, Top
    <3>6. (\A f : GivesBack(q, f)' <=> GivesBack(q, f)) /\ (Replaces(q)' <=> Replaces(q))
      BY <3>2, <3>5 DEF GivesBack, Replaces
    <3>7. KnowsLock(q)' /\ CallsOfWindow(q)'
      BY <3>2, <3>4, <3>6 DEF LockInv, KnowsLock, CallsOfWindow
    <3>8. UsesLock(q)'
      BY <3>2, <3>3, <3>4, <3>5 DEF LockInv, UsesLock
    <3>9. OwnLocks(q)'
      BY <3>2, <3>3, <3>4, <3>5, <3>6 DEF LockInv, OwnLocks, Grabbed, KnowsLock
    <3> QED
      BY <3>7, <3>8, <3>9 DEF LockInv
  <2>2. ASSUME p \in alive' PROVE LockInv(p)'
    <3>1. ~Crash(p)
      BY <2>2 DEF Crash
    <3>2. p \in alive
      <4>1. alive' = alive
        BY <1>1, <3>1 DEF Step, Lock, LockRead, LockAnswer, LockUnlink, LockSymlink, Unlock, UnlockRead, UnlockUnlink,
           Save, SaveTemp, SaveOpen, SaveWrite, SaveBackup, SaveReplace, Saved, AskName, Exists, SavedAs,
           Named, Modified, Open, Create, Read, Take, Clean, Unlink, Leave, SaveCommand, SaveAsCommand,
           Modify, Start, LoadCommand, NewCommand, QuitCommand
      <4> QED
        BY <2>2, <4>1
    <3>3. LockInv(p)
      BY <3>2 DEF AllLocks
    <3> QED
      BY <1>1, <3>1, <3>3, LockingLocks, UnlockingLocks, WritingLocks, SavedLocks, AskingLocks, SavedAsLocks,
         ReplacingLocks, ModifiedLocks, CleaningLocks, CommandLocks DEF Step
  <2> QED
    BY <2>1, <2>2 DEF AllLocks
<1>2. CASE UNCHANGED vars
  BY <1>2 DEF AllLocks, LockInv, KnowsLock, UsesLock, CallsOfWindow, OwnLocks, GivesBack, Replaces, Grabbed,
     Is, Top, vars, procVars, historyVars
<1> QED
  BY <1>1, <1>2 DEF Next

LEMMA InitLocks == Init => AllLocks
<1> SUFFICES ASSUME Init, NEW p \in Editor PROVE LockInv(p)
  BY DEF Init, AllLocks
<1>1. todo[p] = <<>> /\ got[p] = FALSE /\ ~ed[p].locked /\ ~new[p].locked
  BY DEF Init, Window
<1>2. \A f \in File : lock[f] # p
  BY EditFileAssumption DEF Init
<1> QED
  BY <1>1, <1>2 DEF LockInv, KnowsLock, UsesLock, CallsOfWindow, OwnLocks, Replaces, Is

\* Between two commands each lock that names a process is on the file it edits and knows to be
\* locked, and a file it believes locked has its lock and an unsaved text, unless another
\* process took the lock away: on every way out of saving, saving as, loading, asking for a
\* name and closing, with any number of processes in between.
THEOREM LocksAgreeCorrect == Spec => []LocksAgree
<1>1. TInv /\ AllLocks => LocksAgree
  <2> SUFFICES ASSUME TInv, AllLocks, NEW p \in alive, todo[p] = <<>>
               PROVE  /\ \A f \in File : lock[f] = p => ed[p].file = f /\ ed[p].locked
                      /\ ed[p].locked => ed[p].modified /\ (lock[ed[p].file] = p \/ p \in robbed)
    BY DEF LocksAgree
  <2>1. p \in Editor /\ LockInv(p)
    BY DEF TInv, DataInv, AllLocks
  <2>2. got[p] = FALSE /\ \A f : ~Grabbed(p, f) /\ ~GivesBack(p, f)
    BY <2>1, Idle
  <2> QED
    BY <2>1, <2>2 DEF LockInv, OwnLocks, KnowsLock
<1>2. Init => TInv /\ AllLocks
  BY InitTypes, InitLocks
<1>3. (TInv /\ AllLocks) /\ [Next]_vars => (TInv /\ AllLocks)'
  BY TypesStep, LocksStep
<1> QED
  BY <1>1, <1>2, <1>3, PTL DEF Spec

---------------------------------------------------------------------------
(* The saved texts: one editor at a time *)

Plain == File \ Filtered

Active(p) == ed[p].file # Closed \/ todo[p] # <<>>

\* One editor is open at a time.
Alone == \A p, q \in alive : Active(p) /\ Active(q) => p = q

\* What is known of the path p writes first, and of the version it would replace.
WriteInv(p) ==
  /\ Is(p, 1, {"open_save"}) /\ option_save_mode # "quick" =>
       disk[savename[p]] \in {Absent, 0} \/ acknowledged[Top(p).file] <= 0
  /\ Is(p, 1, {"write"}) => fd[p] = savename[p]
  /\ Is(p, 1, {"backup", "replace"}) /\ Top(p).file \in Plain => disk[savename[p]] = ed[p].text
  /\ Is(p, 1, Saving \ {"save"}) =>
       acknowledged[Top(p).file] = 0 \/ ed[p].text >= acknowledged[Top(p).file]

SaveInv == ~together => Alone /\ \A p \in alive : WriteInv(p)

LEMMA PathsApart ==
  /\ \A f, g : At(f) = At(g) => f = g
  /\ \A f, g : At(f) # Backup(g)
  /\ \A f, g : Backup(f) = Backup(g) => f = g
  /\ \A f : At(f) \notin Temps /\ Backup(f) \notin Temps /\ At(f) # NoPath
  /\ NoPath \notin Temps /\ NoPath \notin Path
<1>1. \A f, g : (At(f) = At(g) => f = g) /\ At(f) # Backup(g) /\ (Backup(f) = Backup(g) => f = g)
  BY DEF At, Backup
<1>2. \A f : At(f) \notin Temps /\ Backup(f) \notin Temps /\ At(f) # NoPath
  BY DEF At, Backup, Temps, NoPath
<1>3. NoPath \notin Temps /\ \A f : NoPath # At(f) /\ NoPath # Backup(f)
  BY DEF Temps, NoPath, At, Backup
<1> QED
  BY <1>1, <1>2, <1>3 DEF Path

\* Whoever takes a step has an editor open, or opens one, or is killed.
LEMMA StepActive ==
  ASSUME TInv, NEW p \in Editor, Step(p)
  PROVE  p \in alive /\ (Active(p) \/ Start(p) \/ Crash(p))
<1>1. \A name : Calls(p, name) => p \in alive /\ Active(p)
  BY TopFacts DEF Calls, Active
<1>2. Editing(p) => p \in alive /\ Active(p)
  BY DEF Editing, AtRest, Active
<1>3. AtRest(p) => p \in alive
  BY DEF AtRest
<1>4. CASE \/ Lock(p) \/ LockRead(p) \/ LockAnswer(p) \/ LockUnlink(p) \/ LockSymlink(p)
           \/ Unlock(p) \/ UnlockRead(p) \/ UnlockUnlink(p)
  BY <1>1, <1>4 DEF Lock, LockRead, LockAnswer, LockUnlink, LockSymlink, Unlock, UnlockRead, UnlockUnlink
<1>5. CASE \/ Save(p) \/ SaveTemp(p) \/ SaveOpen(p) \/ SaveWrite(p) \/ SaveBackup(p) \/ SaveReplace(p)
  BY <1>1, <1>5 DEF Save, SaveTemp, SaveOpen, SaveWrite, SaveBackup, SaveReplace
<1>6. CASE \/ Saved(p) \/ AskName(p) \/ Exists(p) \/ SavedAs(p) \/ Named(p) \/ Modified(p)
  BY <1>1, <1>6 DEF Saved, AskName, Exists, SavedAs, Named, Modified
<1>7. CASE \/ Open(p) \/ Create(p) \/ Read(p) \/ Take(p) \/ Clean(p) \/ Unlink(p) \/ Leave(p)
  BY <1>1, <1>7 DEF Open, Create, Read, Take, Clean, Unlink, Leave
<1>8. CASE \/ SaveCommand(p) \/ SaveAsCommand(p) \/ Modify(p) \/ LoadCommand(p)
           \/ NewCommand(p) \/ QuitCommand(p)
  BY <1>2, <1>8 DEF SaveCommand, SaveAsCommand, Modify, LoadCommand, NewCommand, QuitCommand
<1>9. CASE Start(p) \/ Crash(p)
  BY <1>3, <1>9 DEF Start, Crash
<1> QED
  BY <1>4, <1>5, <1>6, <1>7, <1>8, <1>9 DEF Step

\* The mode does not change.
LEMMA ModeStep ==
  ASSUME NEW p \in Editor, Step(p)
  PROVE  together' = together /\ option_save_mode' = option_save_mode
<1> USE DEF modeVars
<1>4. CASE \/ Lock(p) \/ LockRead(p) \/ LockAnswer(p) \/ LockUnlink(p) \/ LockSymlink(p)
           \/ Unlock(p) \/ UnlockRead(p) \/ UnlockUnlink(p)
  BY <1>4 DEF Lock, LockRead, LockAnswer, LockUnlink, LockSymlink, Unlock, UnlockRead, UnlockUnlink
<1>5. CASE \/ Save(p) \/ SaveTemp(p) \/ SaveOpen(p) \/ SaveWrite(p) \/ SaveBackup(p) \/ SaveReplace(p)
  BY <1>5 DEF Save, SaveTemp, SaveOpen, SaveWrite, SaveBackup, SaveReplace
<1>6. CASE \/ Saved(p) \/ AskName(p) \/ Exists(p) \/ SavedAs(p) \/ Named(p) \/ Modified(p)
  BY <1>6 DEF Saved, AskName, Exists, SavedAs, Named, Modified
<1>7. CASE \/ Open(p) \/ Create(p) \/ Read(p) \/ Take(p) \/ Clean(p) \/ Unlink(p) \/ Leave(p)
  BY <1>7 DEF Open, Create, Read, Take, Clean, Unlink, Leave
<1>8. CASE \/ SaveCommand(p) \/ SaveAsCommand(p) \/ Modify(p) \/ LoadCommand(p)
           \/ NewCommand(p) \/ QuitCommand(p)
  BY <1>8 DEF SaveCommand, SaveAsCommand, Modify, LoadCommand, NewCommand, QuitCommand
<1>9. CASE Start(p) \/ Crash(p)
  BY <1>9 DEF Start, Crash
<1> QED
  BY <1>4, <1>5, <1>6, <1>7, <1>8, <1>9 DEF Step

\* Another editor is opened only when none is open.
LEMMA AloneStep ==
  ASSUME TInv, Alone, ~together, NEW p \in Editor, Step(p)
  PROVE  Alone'
<1>1. ASSUME NEW q \in Editor, q # p, q \in alive', Active(q)'
      PROVE  q \in alive /\ Active(q)
  BY <1>1, Frame DEF Active
<1>2. ASSUME NEW q \in Editor, q # p, q \in alive', Active(q)', Active(p)'
      PROVE  FALSE
  <2>1. p \in alive /\ q \in alive /\ Active(q)
    BY <1>1, <1>2, StepActive
  <2>2. ~Active(p)
    BY <1>2, <2>1 DEF Alone
  <2>3. CASE Start(p)
    BY <2>1, <2>3 DEF Start, Active
  <2>4. CASE Crash(p)
    <3>1. ed'[p] = Window(Closed, 0, FALSE) /\ todo'[p] = <<>>
      BY <2>4 DEF Crash, TInv, DataInv, CallsInv
    <3> QED
      BY <1>2, <3>1 DEF Active, Window
  <2> QED
    BY <2>2, <2>3, <2>4, StepActive
<1>3. alive' \subseteq Editor
  BY DataStep DEF DataInv
<1>4. ASSUME NEW q \in alive', NEW r \in alive', Active(q)', Active(r)' PROVE q = r
  <2>1. CASE q = p \/ r = p
    BY <1>2, <1>3, <1>4, <2>1
  <2>2. CASE q # p /\ r # p
    <3>1. q \in alive /\ Active(q) /\ r \in alive /\ Active(r)
      BY <1>1, <1>3, <1>4, <2>2
    <3> QED
      BY <3>1 DEF Alone
  <2> QED
    BY <2>1, <2>2
<1> QED
  BY <1>4 DEF Alone

\* While an editor is open, the others leave the files alone.
LEMMA OthersStill ==
  ASSUME TInv, Alone, ~together, NEW p \in Editor, Step(p), NEW q \in alive, q # p, Active(q)
  PROVE  disk' = disk /\ acknowledged' = acknowledged /\ fd'[q] = fd[q]
<1>1. ~Active(p) /\ (Start(p) \/ Crash(p))
  BY StepActive DEF Alone
<1>2. CASE Start(p)
  BY <1>2 DEF Start, historyVars
<1>3. CASE Crash(p)
  BY <1>3 DEF Crash, TInv, DataInv
<1> QED
  BY <1>1, <1>2, <1>3

---------------------------------------------------------------------------
(* What a save writes *)

\* A save that is over is looked at next.
LEMMA SavedFirst ==
  ASSUME TInv, NEW p \in Editor, todo[p] # <<>>, Top(p).call \in Saving, Done(p)
  PROVE  todo'[p] # <<>> /\ todo'[p][1].call \in {"saved", "saved_as"} /\ Len(todo'[p]) > 0
<1>1. /\ Shape(todo'[p]) /\ Len(todo'[p]) = Len(todo[p]) - 1 /\ Len(todo[p]) \in Nat
      /\ IF todo'[p] = <<>> THEN MayEnd(Top(p)) ELSE MayFollow(Top(p), todo'[p][1])
  BY DoneFacts
<1>2. ~MayEnd(Top(p))
  BY DEF MayEnd, Saving, Writing, Replacing, UnlockCalls
<1>3. todo'[p] # <<>> /\ MayFollow(Top(p), todo'[p][1])
  BY <1>1, <1>2
<1>4. todo'[p][1].call \in {"saved", "saved_as"}
  BY <1>3 DEF MayFollow, Saving, Writing, LockCalls, UnlockCalls, Opening
<1> QED
  BY <1>1, <1>3, <1>4 DEF Shape

LEMMA WriteNone ==
  ASSUME NEW p, ~Is(p, 1, Saving \ {"save"})'
  PROVE  WriteInv(p)'
<1>1. ~Is(p, 1, {"open_save"})' /\ ~Is(p, 1, {"write"})' /\ ~Is(p, 1, {"backup", "replace"})'
  BY DEF Is, Saving, Writing
<1> QED
  BY <1>1 DEF WriteInv

LEMMA WriteDone ==
  ASSUME TInv, NEW p \in Editor, todo[p] # <<>>, Top(p).call \in Saving, Done(p)
  PROVE  WriteInv(p)' /\ ~Is(p, 1, Saving \ {"save"})'
<1>1. todo'[p][1].call \in {"saved", "saved_as"}
  BY SavedFirst
<1>2. ~Is(p, 1, Saving \ {"save"})'
  BY <1>1 DEF Is, Saving, Writing
<1> QED
  BY <1>2, WriteNone

LEMMA WriteGoto ==
  ASSUME TInv, NEW p \in Editor, todo[p] # <<>>, Top(p).call \in Saving,
         NEW name \in Saving \ {"save"}, Goto(p, name),
         name = "open_save" /\ option_save_mode' # "quick" =>
           disk'[savename'[p]] \in {Absent, 0} \/ acknowledged'[Top(p).file] <= 0,
         name = "write" => fd'[p] = savename'[p],
         name \in {"backup", "replace"} /\ Top(p).file \in Plain => disk'[savename'[p]] = ed'[p].text,
         acknowledged'[Top(p).file] = 0 \/ ed'[p].text >= acknowledged'[Top(p).file]
  PROVE  WriteInv(p)' /\ Top(p)'.file = Top(p).file /\ \A names : Is(p, 1, names)' <=> name \in names
<1>1. Shape(todo'[p]) /\ todo'[p][1] = Call(name, Top(p).file) /\ Len(todo'[p]) \in Nat /\ Len(todo'[p]) > 0
  BY GotoFacts
<1>2. Top(p)' = todo'[p][1]
  BY <1>1 DEF Shape, Top
<1>3. Top(p)'.file = Top(p).file /\ \A names : Is(p, 1, names)' <=> name \in names
  BY <1>1, <1>2 DEF Is, Call
<1> QED
  BY <1>3 DEF WriteInv, Plain

\* The save of p itself.
LEMMA WriteOwn ==
  ASSUME TInv, NEW p \in Editor, Step(p), WriteInv(p)
  PROVE  WriteInv(p)'
<1>a. /\ disk \in [Path -> Absent..MaxVersion] /\ ed \in [Editor -> Windows] /\ ed[p].text \in Broken..MaxVersion
      /\ fd \in [Editor -> Path \cup {NoPath}] /\ savename \in [Editor -> Path \cup {NoPath}]
      /\ acknowledged \in [File -> Broken..MaxVersion]
  BY EdFacts DEF TInv, DataInv
<1>b. option_save_mode' = option_save_mode
  BY ModeStep
<1>c. ASSUME todo[p] # <<>>
      PROVE  /\ Top(p).call = "open_save" /\ option_save_mode # "quick" =>
                  disk[savename[p]] \in {Absent, 0} \/ acknowledged[Top(p).file] <= 0
             /\ Top(p).call = "write" => fd[p] = savename[p]
             /\ Top(p).call \in {"backup", "replace"} /\ Top(p).file \in Plain => disk[savename[p]] = ed[p].text
             /\ Top(p).call \in Saving \ {"save"} =>
                  acknowledged[Top(p).file] = 0 \/ ed[p].text >= acknowledged[Top(p).file]
  BY <1>c, TopFacts DEF WriteInv
<1>d. {"open_save", "write", "backup", "replace"} \subseteq Writing /\ Writing \cup {"mkstemps"} = Saving \ {"save"}
  BY DEF Saving, Writing
<1>e. MaxVersion \in Nat /\ Absent = -2 /\ Broken = -1
  BY PathFacts
<1> USE DEF Calls, modeVars, boundVars, historyVars
<1>1. CASE Save(p)
  <2> DEFINE f == Top(p).file
  <2>1. todo[p] # <<>> /\ Top(p).call \in Saving /\ ed' = ed /\ disk' = disk
    BY <1>1 DEF Save, Saving
  <2>2. CASE Done(p)
    BY <2>1, <2>2, WriteDone
  <2>3. CASE f \in File
    <3>1. PICK found \in BOOLEAN :
            /\ IF disk[At(f)] # Absent THEN Outcome(found) ELSE ~found /\ UNCHANGED failures
            /\ savename' = [savename EXCEPT ![p] = IF InPlace(found) THEN At(f) ELSE NoPath]
            /\ Goto(p, IF InPlace(found) THEN "open_save" ELSE "mkstemps")
            /\ acknowledged' = [acknowledged EXCEPT ![f] =
                 IF ed[p].text < acknowledged[f] \/ (disk[At(f)] # Absent /\ ~found /\ acknowledged[f] > 0)
                 THEN 0 ELSE acknowledged[f]]
      BY <1>1, <2>3 DEF Save
    <3>2. ed[p].text \in Int /\ acknowledged[f] \in Int
      BY <1>a, <1>e, <2>3
    <3>3. acknowledged'[f] = IF ed[p].text < acknowledged[f]
                                  \/ (disk[At(f)] # Absent /\ ~found /\ acknowledged[f] > 0)
                             THEN 0 ELSE acknowledged[f]
      BY <1>a, <2>3, <3>1
    <3>4. acknowledged'[f] = 0 \/ ed'[p].text >= acknowledged'[f]
      BY <2>1, <3>2, <3>3
    <3>5. CASE InPlace(found)
      <4>1. Goto(p, "open_save") /\ savename'[p] = At(f)
        BY <1>a, <3>1, <3>5
      <4>2. option_save_mode # "quick" => disk'[savename'[p]] \in {Absent, 0} \/ acknowledged'[f] <= 0
        BY <2>1, <3>2, <3>3, <3>5, <4>1 DEF InPlace
      <4> QED
        BY <1>b, <1>d, <2>1, <3>4, <4>1, <4>2, WriteGoto
    <3>6. CASE ~InPlace(found)
      <4>1. Goto(p, "mkstemps")
        BY <3>1, <3>6
      <4> QED
        BY <1>d, <2>1, <3>4, <4>1, WriteGoto
    <3> QED
      BY <3>5, <3>6
  <2> QED
    BY <1>1, <2>2, <2>3 DEF Save, Returns
<1>2. CASE SaveTemp(p)
  <2>1. todo[p] # <<>> /\ Top(p).call = "mkstemps" /\ ed' = ed /\ Top(p).call \in Saving \ {"save"}
    BY <1>2, <1>d DEF SaveTemp
  <2>2. CASE Done(p)
    BY <2>1, <2>2, WriteDone
  <2>3. CASE ~Done(p)
    <3>1. /\ Goto(p, "open_save") /\ disk' = [disk EXCEPT ![FreeTemp(disk)] = 0] /\ acknowledged' = acknowledged
          /\ savename' = [savename EXCEPT ![p] = FreeTemp(disk)] /\ \E q \in Temps : IsFree(disk, q)
      BY <1>2, <2>3 DEF SaveTemp, Returns
    <3>2. disk'[savename'[p]] = 0
      BY <1>a, <3>1, PathFacts
    <3> QED
      BY <1>c, <1>d, <2>1, <3>1, <3>2, WriteGoto
  <2> QED
    BY <2>2, <2>3
<1>3. CASE SaveOpen(p)
  <2>1. todo[p] # <<>> /\ Top(p).call = "open_save" /\ ed' = ed /\ Top(p).call \in Saving \ {"save"}
        /\ savename' = savename
    BY <1>3, <1>d DEF SaveOpen
  <2>2. CASE Done(p)
    BY <2>1, <2>2, WriteDone
  <2>3. CASE ~Done(p)
    <3>1. Goto(p, "write") /\ fd' = [fd EXCEPT ![p] = savename[p]] /\ acknowledged' = acknowledged
      BY <1>3, <2>3 DEF SaveOpen, Returns
    <3> QED
      BY <1>a, <1>c, <1>d, <2>1, <3>1, WriteGoto
  <2> QED
    BY <2>2, <2>3
<1>4. CASE SaveWrite(p)
  <2>1. todo[p] # <<>> /\ Top(p).call = "write" /\ ed' = ed /\ Top(p).call \in Saving \ {"save"}
        /\ savename' = savename
    BY <1>4, <1>d DEF SaveWrite
  <2>2. CASE Done(p)
    BY <2>1, <2>2, WriteDone
  <2>3. CASE ~Done(p)
    <3>1. PICK ok \in BOOLEAN :
            /\ disk' = IF ok /\ fd[p] \in Path THEN [disk EXCEPT ![fd[p]] = ed[p].text] ELSE disk
            /\ IF SeemsWhole(p, ok) THEN AfterWrite(p) ELSE Returns(p, FALSE)
      BY <1>4 DEF SaveWrite
    <3>2. SeemsWhole(p, ok) /\ AfterWrite(p) /\ savename[p] # At(Top(p).file)
      BY <2>3, <3>1 DEF Returns, AfterWrite
    <3>3. PICK name \in {"backup", "replace"} : Goto(p, name) /\ acknowledged' = acknowledged
      BY <3>2 DEF AfterWrite
    <3>4. Top(p).file \in Plain => disk'[savename'[p]] = ed'[p].text
      <4>1. fd[p] = savename[p] /\ savename[p] \in Path
        BY <1>c, <1>d, <2>1, SavingFacts
      <4>2. Top(p).file \in Plain => ok
        BY <3>2 DEF SeemsWhole, Plain
      <4> QED
        BY <1>a, <2>1, <3>1, <4>1, <4>2
    <3> QED
      BY <1>c, <1>d, <2>1, <3>3, <3>4, WriteGoto
  <2> QED
    BY <2>2, <2>3
<1>5. CASE SaveBackup(p)
  <2>1. todo[p] # <<>> /\ Top(p).call = "backup" /\ ed' = ed /\ Top(p).call \in Saving \ {"save"}
        /\ savename' = savename
    BY <1>5, <1>d DEF SaveBackup
  <2>2. CASE Done(p)
    BY <2>1, <2>2, WriteDone
  <2>3. CASE ~Done(p)
    <3>1. Goto(p, "replace") /\ Rename(At(Top(p).file), Backup(Top(p).file)) /\ acknowledged' = acknowledged
      BY <1>5, <2>3 DEF SaveBackup, Returns
    <3>2. disk'[savename[p]] = disk[savename[p]]
      <4>1. savename[p] \in Temps
        BY <2>1, SavingFacts
      <4>2. savename[p] # At(Top(p).file) /\ savename[p] # Backup(Top(p).file) /\ savename[p] \in Path
        BY <4>1, PathsApart, PathFacts
      <4> QED
        BY <1>a, <3>1, <4>2 DEF Rename
    <3> QED
      BY <1>c, <1>d, <2>1, <3>1, <3>2, WriteGoto
  <2> QED
    BY <2>2, <2>3
<1>6. CASE ~Saves(p)
  <2>1. ~Is(p, 1, Saving \ {"save"})'
    BY <1>6, CallsStep
  <2> QED
    BY <2>1, WriteNone
<1> QED
  BY <1>1, <1>2, <1>3, <1>4, <1>5, <1>6 DEF Saves

LEMMA SaveInvStep == TInv /\ SaveInv /\ [Next]_vars => SaveInv'
<1> SUFFICES ASSUME TInv, SaveInv, [Next]_vars, ~together' PROVE Alone' /\ \A q \in alive' : WriteInv(q)'
  BY DEF SaveInv
<1>1. ASSUME NEW p \in Editor, Step(p) PROVE Alone' /\ \A q \in alive' : WriteInv(q)'
  <2>1. ~together /\ Alone /\ option_save_mode' = option_save_mode /\ \A q \in alive : WriteInv(q)
    BY <1>1, ModeStep DEF SaveInv
  <2>2. p \in alive /\ alive' \subseteq Editor
    BY <1>1, StepActive, DataStep DEF DataInv
  <2>3. ASSUME NEW q \in alive', q # p PROVE WriteInv(q)'
    <3>1. /\ q \in Editor /\ q \in alive /\ todo'[q] = todo[q] /\ ed'[q] = ed[q] /\ savename'[q] = savename[q]
      BY <1>1, <2>2, <2>3, Frame
    <3>2. CASE ~Active(q)
      <4>1. ~Is(q, 1, Saving \ {"save"})'
        BY <3>1, <3>2 DEF Active, Is
      <4> QED
        BY <4>1, WriteNone
    <3>3. CASE Active(q)
      <4>1. disk' = disk /\ acknowledged' = acknowledged /\ fd'[q] = fd[q]
        BY <1>1, <2>1, <2>3, <3>1, <3>3, OthersStill
      <4>2. WriteInv(q)
        BY <2>1, <3>1
      <4>3. (\A names : Is(q, 1, names)' <=> Is(q, 1, names)) /\ Top(q)' = Top(q)
        BY <3>1 DEF Is, Top
      <4> QED
        BY <2>1, <3>1, <4>1, <4>2, <4>3 DEF WriteInv
    <3> QED
      BY <3>2, <3>3
  <2> QED
    BY <1>1, <2>1, <2>2, <2>3, AloneStep, WriteOwn
<1>2. CASE UNCHANGED vars
  BY <1>2 DEF SaveInv, Alone, Active, WriteInv, Is, Top, vars, procVars, modeVars, historyVars
<1> QED
  BY <1>1, <1>2 DEF Next

LEMMA InitSaves == Init => SaveInv
<1> SUFFICES ASSUME Init, ~together PROVE Alone /\ \A p \in alive : WriteInv(p)
  BY DEF SaveInv
<1>1. \A p \in Editor : todo[p] = <<>> /\ ed[p].file = Closed
  BY DEF Init, Window
<1>2. \A p \in Editor : \A names : ~Is(p, 1, names)
  BY <1>1 DEF Is
<1>3. alive = Editor
  BY DEF Init
<1> QED
  BY <1>1, <1>2, <1>3 DEF Alone, Active, WriteInv

\* Only these steps touch the files, and saves what is acknowledged.
LEMMA DiskStep ==
  ASSUME NEW p \in Editor, Step(p)
  PROVE  /\ ~Saves(p) /\ ~SaveReplace(p) => acknowledged' = acknowledged
         /\ ~Saves(p) /\ ~SaveReplace(p) /\ ~Create(p) /\ ~Unlink(p) => disk' = disk
<1> USE DEF historyVars
<1>1. CASE \/ Lock(p) \/ LockRead(p) \/ LockAnswer(p) \/ LockUnlink(p) \/ LockSymlink(p)
           \/ Unlock(p) \/ UnlockRead(p) \/ UnlockUnlink(p)
  BY <1>1 DEF Lock, LockRead, LockAnswer, LockUnlink, LockSymlink, Unlock, UnlockRead, UnlockUnlink
<1>2. CASE \/ Saved(p) \/ AskName(p) \/ Exists(p) \/ SavedAs(p) \/ Named(p) \/ Modified(p)
  BY <1>2 DEF Saved, AskName, Exists, SavedAs, Named, Modified
<1>3. CASE \/ Open(p) \/ Read(p) \/ Take(p) \/ Clean(p) \/ Leave(p)
  BY <1>3 DEF Open, Read, Take, Clean, Leave
<1>4. CASE \/ SaveCommand(p) \/ SaveAsCommand(p) \/ Modify(p) \/ LoadCommand(p)
           \/ NewCommand(p) \/ QuitCommand(p)
  BY <1>4 DEF SaveCommand, SaveAsCommand, Modify, LoadCommand, NewCommand, QuitCommand
<1>5. CASE Start(p) \/ Crash(p)
  BY <1>5 DEF Start, Crash
<1>6. CASE Create(p) \/ Unlink(p)
  BY <1>6 DEF Create, Unlink
<1>7. CASE Saves(p) \/ SaveReplace(p)
  BY <1>7
<1> QED
  BY <1>1, <1>2, <1>3, <1>4, <1>5, <1>6, <1>7 DEF Step, Saves

\* What edit_save_file reports, and what is then in the file.
LEMMA Reported ==
  ASSUME TInv, NEW p \in Editor, Step(p), WriteInv(p), NEW f \in File
  PROVE  \/ /\ acknowledged'[f] = acknowledged[f]
            /\ SaveReplace(p) /\ f = Top(p).file => disk' = disk
         \/ Save(p) /\ acknowledged'[f] = 0
         \/ /\ SaveWrite(p) \/ SaveReplace(p)
            /\ f = Top(p).file /\ result'[p] /\ Done(p) /\ acknowledged'[f] = ed[p].text
            /\ f \in Plain => disk'[At(f)] = ed[p].text
<1>a. /\ disk \in [Path -> Absent..MaxVersion] /\ acknowledged \in [File -> Broken..MaxVersion]
      /\ result \in [Editor -> BOOLEAN]
  BY DEF TInv, DataInv
<1>b. ASSUME Returns(p, FALSE) PROVE acknowledged' = acknowledged
  BY <1>b DEF Returns
<1>c. ASSUME Returns(p, TRUE), Top(p).file \in File
      PROVE  /\ result'[p] /\ Done(p) /\ acknowledged'[Top(p).file] = ed[p].text
             /\ f # Top(p).file => acknowledged'[f] = acknowledged[f]
  BY <1>a, <1>c DEF Returns
<1>d. todo[p] # <<>> /\ Top(p).call \in {"write", "replace"} =>
        /\ Top(p).file \in File /\ At(Top(p).file) \in Path /\ savename[p] \in Path
        /\ Top(p).call = "write" => fd[p] = savename[p]
        /\ Top(p).call = "replace" /\ Top(p).file \in Plain => disk[savename[p]] = ed[p].text
        /\ Top(p).call = "replace" => savename[p] # At(Top(p).file)
  <2>1. {"write", "replace"} \subseteq Writing \cap (Saving \ {"save"})
    BY DEF Saving, Writing
  <2> QED
    BY <2>1, SavingFacts, TopFacts, PathFacts, PathsApart DEF WriteInv
<1>e. Save(p) \/ SaveTemp(p) \/ SaveOpen(p) \/ SaveWrite(p) \/ SaveBackup(p) => ~SaveReplace(p)
  BY DEF Save, SaveTemp, SaveOpen, SaveWrite, SaveBackup, SaveReplace, Calls
<1>1. CASE Save(p)
  <2>1. \/ acknowledged' = acknowledged
        \/ acknowledged' = [acknowledged EXCEPT ![Top(p).file] = 0]
        \/ acknowledged' = [acknowledged EXCEPT ![Top(p).file] = acknowledged[Top(p).file]]
    BY <1>1 DEF Save, Returns
  <2> QED
    BY <1>1, <1>a, <1>e, <2>1
<1>2. CASE SaveWrite(p)
  <2>1. todo[p] # <<>> /\ Top(p).call = "write"
    BY <1>2 DEF SaveWrite, Calls
  <2>2. PICK ok \in BOOLEAN :
          /\ disk' = IF ok /\ fd[p] \in Path THEN [disk EXCEPT ![fd[p]] = ed[p].text] ELSE disk
          /\ IF SeemsWhole(p, ok) THEN AfterWrite(p) ELSE Returns(p, FALSE)
    BY <1>2 DEF SaveWrite
  <2>3. acknowledged' = acknowledged \/ (SeemsWhole(p, ok) /\ savename[p] = At(Top(p).file) /\ Returns(p, TRUE))
    BY <1>b, <2>2 DEF AfterWrite
  <2>4. CASE SeemsWhole(p, ok) /\ savename[p] = At(Top(p).file) /\ Returns(p, TRUE)
    <3>1. f \in Plain /\ f = Top(p).file => ok
      BY <2>4 DEF SeemsWhole, Plain
    <3>2. f \in Plain /\ f = Top(p).file => disk'[At(f)] = ed[p].text
      BY <1>a, <1>d, <2>1, <2>2, <2>4, <3>1
    <3> QED
      BY <1>2, <1>c, <1>d, <2>1, <2>4, <3>2
  <2> QED
    BY <1>2, <1>e, <2>3, <2>4
<1>3. CASE SaveReplace(p)
  <2>1. todo[p] # <<>> /\ Top(p).call = "replace"
    BY <1>3 DEF SaveReplace, Calls
  <2>2. PICK ok \in BOOLEAN :
          /\ IF ok THEN Rename(savename[p], At(Top(p).file)) ELSE UNCHANGED <<disk, fd>>
          /\ Returns(p, ok)
    BY <1>3 DEF SaveReplace
  <2>3. CASE ~ok
    BY <1>b, <2>2, <2>3
  <2>4. CASE ok
    <3>1. disk'[At(Top(p).file)] = disk[savename[p]]
      BY <1>a, <1>d, <2>1, <2>2, <2>4 DEF Rename
    <3> QED
      BY <1>3, <1>c, <1>d, <2>1, <2>2, <2>4, <3>1
  <2> QED
    BY <2>3, <2>4
<1>4. CASE SaveTemp(p)
  BY <1>4, <1>b, <1>e DEF SaveTemp
<1>5. CASE SaveOpen(p)
  BY <1>5, <1>b, <1>e DEF SaveOpen
<1>6. CASE SaveBackup(p)
  BY <1>6, <1>b, <1>e DEF SaveBackup
<1> QED
  BY <1>1, <1>2, <1>3, <1>4, <1>5, <1>6, DiskStep DEF Saves

\* A save that is reported done has left the whole text in the file, in every mode and whatever
\* happened before, if one editor is open at a time and the file is not written by a filter.
THEOREM SavedIsWholeCorrect == Spec => SavedIsWhole
<1>1. TInv /\ SaveInv /\ [Next]_vars =>
        [\A f \in File \ Filtered : ~together /\ acknowledged'[f] > acknowledged[f] =>
           disk'[At(f)] = acknowledged'[f]]_vars
  <2> SUFFICES ASSUME TInv, SaveInv, Next, NEW f \in File \ Filtered, ~together,
                      acknowledged'[f] > acknowledged[f]
               PROVE  disk'[At(f)] = acknowledged'[f]
    OBVIOUS
  <2>1. PICK p \in Editor : Step(p)
    BY DEF Next
  <2>2. WriteInv(p)
    BY <2>1, StepActive DEF SaveInv
  <2>3. acknowledged[f] \in Int /\ acknowledged[f] >= -1 /\ f \in File /\ f \in Plain
    BY PathFacts DEF TInv, DataInv, Plain
  <2>4. ASSUME Save(p) PROVE acknowledged'[f] <= acknowledged[f]
    <3>1. \/ acknowledged' = acknowledged
          \/ /\ Top(p).file \in File
             /\ \E found \in BOOLEAN :
                  acknowledged' = [acknowledged EXCEPT ![Top(p).file] =
                    IF \/ ed[p].text < acknowledged[Top(p).file]
                       \/ disk[At(Top(p).file)] # Absent /\ ~found /\ acknowledged[Top(p).file] > 0
                    THEN 0 ELSE acknowledged[Top(p).file]]
      BY <2>4 DEF Save, Returns
    <3>2. ed[p].text \in Int /\ ed[p].text >= -1
      <4>1. ed[p].text \in Broken..MaxVersion
        BY EdFacts DEF TInv
      <4> QED
        BY <4>1, PathFacts
    <3>3. \/ acknowledged'[f] = acknowledged[f]
          \/ (ed[p].text < acknowledged[f] \/ acknowledged[f] > 0) /\ acknowledged'[f] = 0
      <4>1. acknowledged \in [File -> Broken..MaxVersion]
        BY DEF TInv, DataInv
      <4>2. CASE f = Top(p).file
        BY <2>3, <3>1, <4>1, <4>2
      <4>3. CASE f # Top(p).file
        BY <2>3, <3>1, <4>1, <4>3
      <4> QED
        BY <4>2, <4>3
    <3> QED
      BY <2>3, <3>2, <3>3
  <2>5. acknowledged'[f] = acknowledged[f] => FALSE
    BY <2>3
  <2> QED
    BY <2>1, <2>2, <2>3, <2>4, <2>5, Reported
<1> QED
  BY <1>1, TypesHold, InitSaves, SaveInvStep, PTL DEF Spec, SavedIsWhole

---------------------------------------------------------------------------
(* The window that is loaded *)

\* It is taken over next, but for the end of the window before.
TakesNext(p) == Is(p, 2, {"take"}) \/ (Is(p, 2, {"clean", "unlink"}) /\ Is(p, 3, {"take"}))
Loading(p) ==
  Is(p, 1, {"take"}) \/ (Is(p, 1, {"read", "clean", "unlink"} \cup UnlockCalls) /\ TakesNext(p))

\* A file created for a window that is loaded is to be removed with it.
NewInv(p) ==
  /\ Is(p, 1, Opening) => TakesNext(p)
  /\ Is(p, 1, {"read"}) => new[p].file = Top(p).file
  /\ new[p].delete_file /\ new[p].file \in Plain => Loading(p)
Loads == \A p \in Editor : NewInv(p)

LEMMA NotLoading ==
  ASSUME NEW p, todo[p] \in Seq(Calling),
         todo[p] = <<>> \/ todo[p][1].call \notin {"take", "read", "clean", "unlink"} \cup UnlockCalls
  PROVE  ~Loading(p)
<1>1. ASSUME NEW names, names \subseteq {"take", "read", "clean", "unlink"} \cup UnlockCalls
      PROVE  ~Is(p, 1, names)
  <2>1. CASE todo[p] = <<>>
    <3>1. Len(todo[p]) = 0
      BY <2>1
    <3> QED
      BY <3>1 DEF Is
  <2>2. CASE todo[p][1].call \notin {"take", "read", "clean", "unlink"} \cup UnlockCalls
    BY <1>1, <2>2 DEF Is
  <2> QED
    BY <2>1, <2>2
<1> QED
  BY <1>1 DEF Loading

\* The window does not change, and is still taken over next if it was.
LEMMA NewKept ==
  ASSUME NEW p, NewInv(p), new'[p] = new[p], ~Is(p, 1, Opening)', Loading(p) => Loading(p)'
  PROVE  NewInv(p)'
<1>1. ~Is(p, 1, {"read"})'
  BY DEF Is, Opening
<1> QED
  BY <1>1 DEF NewInv, Plain

\* A call before it was taken over is done, or goes on.
LEMMA LoadingDone ==
  ASSUME TInv, NEW p \in Editor, todo[p] # <<>>, Done(p), TakesNext(p)
  PROVE  Loading(p)'
<1>1. \A names : (Is(p, 1, names)' <=> Is(p, 2, names)) /\ (Is(p, 2, names)' <=> Is(p, 3, names))
  BY NextCalls
<1>2. Is(p, 2, {"clean", "unlink"}) => Is(p, 2, {"read", "clean", "unlink"} \cup UnlockCalls)
  BY DEF Is
<1> QED
  BY <1>1, <1>2 DEF TakesNext, Loading

LEMMA LoadingGoto ==
  ASSUME TInv, NEW p \in Editor, todo[p] # <<>>,
         NEW kind \in {LockCalls, UnlockCalls, Saving, Opening}, Top(p).call \in kind,
         NEW name \in kind, Goto(p, name)
  PROVE  /\ Top(p)' = Call(name, Top(p).file) /\ \A names : Is(p, 1, names)' <=> name \in names
         /\ \A names : (Is(p, 2, names)' <=> Is(p, 2, names)) /\ (Is(p, 3, names)' <=> Is(p, 3, names))
         /\ TakesNext(p)' <=> TakesNext(p)
<1>1. /\ Shape(todo'[p]) /\ Len(todo'[p]) = Len(todo[p]) /\ Len(todo[p]) \in Nat /\ Len(todo[p]) > 0
      /\ todo'[p][1] = Call(name, Top(p).file)
      /\ \A i \in 1..Len(todo'[p]) : i > 1 => todo'[p][i] = todo[p][i]
  BY GotoFacts
<1>2. Top(p)' = todo'[p][1]
  BY <1>1 DEF Shape, Top
<1>3. \A names : Is(p, 1, names)' <=> name \in names
  BY <1>1 DEF Is, Call
<1>4. \A names : (Is(p, 2, names)' <=> Is(p, 2, names)) /\ (Is(p, 3, names)' <=> Is(p, 3, names))
  <2>1. (2 <= Len(todo[p]) => todo'[p][2] = todo[p][2]) /\ (3 <= Len(todo[p]) => todo'[p][3] = todo[p][3])
    BY <1>1
  <2> QED
    BY <1>1, <2>1 DEF Is
<1> QED
  BY <1>1, <1>2, <1>3, <1>4 DEF TakesNext

LEMMA NewIdle ==
  ASSUME TInv, NEW p \in Editor, Step(p), NewInv(p), new' = new, ~Opens(p), ~Loading(p)
  PROVE  NewInv(p)'
<1>1. ~Is(p, 1, Opening)'
  BY CallsStep
<1> QED
  BY <1>1, NewKept

\* The window that is cleaned is followed by the one that was loaded.
LEMMA NewCleaned ==
  ASSUME TInv, NEW p \in Editor, Clean(p), Loading(p)
  PROVE  Loading(p)'
<1>0. PICK f, u, w : f = ed[p].file /\ u = Call("unlock", f) /\ w = Call("unlink", f)
  OBVIOUS
<1>1. /\ f \in Name /\ todo[p] # <<>> /\ Top(p).call = "clean"
      /\ \/ Become(p, <<u>> \o <<>>) \/ Become(p, <<u>> \o <<w>>)
         \/ Become(p, <<>> \o <<>>) \/ Become(p, <<>> \o <<w>>)
  BY <1>0, EdFacts DEF Clean, CleanCalls, If, Calls, TInv
<1>2. u \in Calling /\ u.call = "unlock" /\ w \in Calling /\ w.call = "unlink"
  BY <1>0, <1>1, CallTypes DEF CallName, UnlockCalls
<1>3. /\ <<>> \o <<w>> = <<w>> /\ <<u>> \o <<w>> = <<u, w>> /\ <<u>> \o <<>> = <<u>> /\ <<>> \o <<>> = <<>>
      /\ Shape(<<w>>) /\ Shape(<<u, w>>) /\ Shape(<<u>>)
  BY <1>2, ShapeOfUnlocks
<1>4. \A d : MayFollow(Top(p), d) =>
        MayFollow(u, d) /\ MayFollow(w, d) /\ d.call \in {"clean", "take", "renew", "close"}
  BY <1>1, <1>2 DEF MayFollow, LockCalls, UnlockCalls, Saving, Writing, Opening, Replacing
<1>5. TakesNext(p)
  <2>1. Top(p).call \notin {"take"}
    BY <1>1
  <2> QED
    BY <1>1, <2>1, TopFacts DEF Loading
<1>6. Len(todo[p]) \in Nat /\ Len(todo[p]) >= 2 /\ todo[p][2].call = "take"
  <2>1. Shape(todo[p]) /\ Len(todo[p]) \in Nat /\ Len(todo[p]) > 0 /\ Top(p) = todo[p][1] /\ 1 \in 1..Len(todo[p])
    BY <1>1, TopFacts
  <2>2. Len(todo[p]) >= 2 /\ todo[p][2].call \in {"take", "clean", "unlink"}
    BY <1>5 DEF TakesNext, Is
  <2>3. MayFollow(todo[p][1], todo[p][2])
    BY <2>1, <2>2 DEF Shape, Linked
  <2>4. todo[p][2].call \in {"take", "renew", "close"}
    BY <1>1, <2>1, <2>3 DEF MayFollow, LockCalls, UnlockCalls, Saving, Writing, Opening
  <2> QED
    BY <2>1, <2>2, <2>4
<1>7. CASE Done(p)
  BY <1>1, <1>5, <1>7, LoadingDone
<1>8. ASSUME NEW s \in {<<w>>, <<u, w>>, <<u>>}, Become(p, s) PROVE Loading(p)'
  <2>1. Shape(s)
    BY <1>3
  <2>2. s # <<>> /\ s[Len(s)] \in {u, w} /\ s[1] \in {u, w} /\ Len(s) \in 1..2
    BY <1>2
  <2>3. \A d : MayFollow(Top(p), d) => MayFollow(s[Len(s)], d) /\ d.call \in {"clean", "take", "renew", "close"}
    BY <1>4, <2>2
  <2>4. /\ Len(todo'[p]) = Len(s) + Len(todo[p]) - 1
        /\ \A i \in 1..Len(s) : todo'[p][i] = s[i]
        /\ \A i \in 1..Len(todo[p])-1 : todo'[p][Len(s) + i] = todo[p][i+1]
    BY <1>1, <1>8, <2>1, <2>2, <2>3, BecomeFacts
  <2>5. todo'[p][Len(s) + 1].call = "take" /\ Len(todo'[p]) >= Len(s) + 1
    <3>1. 1 \in 1..Len(todo[p])-1
      BY <1>6
    <3>2. todo'[p][Len(s) + 1] = todo[p][1+1]
      BY <2>4, <3>1
    <3> QED
      BY <1>6, <2>2, <2>4, <3>2
  <2>6. CASE Len(s) = 1
    <3>1. todo'[p][1].call \in {"read", "clean", "unlink"} \cup UnlockCalls /\ todo'[p][2].call \in {"take"}
          /\ Len(todo'[p]) >= 2
      BY <1>2, <2>2, <2>4, <2>5, <2>6 DEF UnlockCalls
    <3> QED
      BY <3>1 DEF Loading, TakesNext, Is
  <2>7. CASE Len(s) = 2
    <3>1. s = <<u, w>>
      BY <1>2, <2>7
    <3>2. todo'[p][1] = u /\ todo'[p][2] = w /\ todo'[p][3].call \in {"take"} /\ Len(todo'[p]) >= 3
      BY <2>4, <2>5, <2>7, <3>1
    <3>3. todo'[p][1].call \in {"read", "clean", "unlink"} \cup UnlockCalls /\ todo'[p][2].call \in {"clean", "unlink"}
      BY <1>2, <3>2 DEF UnlockCalls
    <3> QED
      BY <3>2, <3>3 DEF Loading, TakesNext, Is
  <2> QED
    BY <2>2, <2>6, <2>7
<1> QED
  BY <1>1, <1>3, <1>7, <1>8 DEF Done

\* A file is opened, or created, and read.
LEMMA NewOpening ==
  ASSUME TInv, NEW p \in Editor, Step(p), NewInv(p), Open(p) \/ Create(p) \/ Read(p)
  PROVE  NewInv(p)'
<1>a. todo[p] # <<>> /\ Top(p).call \in Opening /\ \A names : Is(p, 1, names) <=> Top(p).call \in names
  BY TopFacts DEF Open, Create, Read, Calls, Opening
<1>b. new \in [Editor -> Windows] /\ TakesNext(p) /\ Top(p).file \in File
  BY <1>a, SavingFacts DEF NewInv, TInv, DataInv
<1>c. ASSUME NEW name \in Opening, Goto(p, name)
      PROVE  /\ TakesNext(p)' /\ Top(p)'.file = Top(p).file /\ (Is(p, 1, {"read"})' <=> name = "read")
             /\ (name = "read" => Loading(p)')
  <2>1. /\ Top(p)' = Call(name, Top(p).file) /\ \A names : Is(p, 1, names)' <=> name \in names
        /\ TakesNext(p)'
    BY <1>a, <1>b, <1>c, LoadingGoto
  <2> QED
    BY <2>1 DEF Call, Loading
<1>1. CASE Open(p)
  <2>1. CASE Goto(p, "create") /\ new' = new
    <3>1. ~(new[p].delete_file /\ new[p].file \in Plain)
      <4>1. ~Loading(p)
        <5>1. Top(p).call = "open" /\ todo[p][1] = Top(p) /\ todo[p] \in Seq(Calling)
          BY <1>1, <1>a, TopFacts DEF Open, Calls, Shape
        <5> QED
          BY <5>1, NotLoading DEF UnlockCalls
      <4> QED
        BY <4>1 DEF NewInv
    <3>2. TakesNext(p)' /\ ~Is(p, 1, {"read"})'
      <4>1. "create" \in Opening /\ "create" # "read"
        BY DEF Opening
      <4>2. TakesNext(p)' /\ (Is(p, 1, {"read"})' <=> "create" = "read")
        BY <1>c, <2>1, <4>1, Zenon
      <4> QED
        BY <4>1, <4>2
    <3> QED
      BY <2>1, <3>1, <3>2 DEF NewInv, Plain
  <2>2. CASE Goto(p, "read") /\ \E v : new' = [new EXCEPT ![p] = Window(Top(p).file, v, FALSE)]
    <3>1. new'[p].file = Top(p).file /\ ~new'[p].delete_file
      BY <1>b, <2>2 DEF Window
    <3>2. TakesNext(p)' /\ Top(p)'.file = Top(p).file
      BY <1>c, <2>2 DEF Opening
    <3> QED
      BY <3>1, <3>2 DEF NewInv, Plain
  <2> QED
    BY <1>1, <2>1, <2>2 DEF Open
<1>2. CASE Create(p)
  <2>1. CASE EndWith(p, <<>>) /\ new' = new
    <3>1. ~(new[p].delete_file /\ new[p].file \in Plain)
      <4>1. ~Loading(p)
        <5>1. Top(p).call = "create" /\ todo[p][1] = Top(p) /\ todo[p] \in Seq(Calling)
          BY <1>2, <1>a, TopFacts DEF Create, Calls, Shape
        <5> QED
          BY <5>1, NotLoading DEF UnlockCalls
      <4> QED
        BY <4>1 DEF NewInv
    <3>2. todo'[p] = <<>>
      BY <2>1 DEF EndWith, TInv, CallsInv
    <3>3. \A names : ~Is(p, 1, names)'
      BY <3>2 DEF Is
    <3> QED
      BY <2>1, <3>1, <3>3 DEF NewInv, Plain
  <2>2. CASE Goto(p, "read") /\ new' = [new EXCEPT ![p] = Window(Top(p).file, 0, TRUE)]
    <3>1. new'[p].file = Top(p).file
      BY <1>b, <2>2 DEF Window
    <3>2. TakesNext(p)' /\ Top(p)'.file = Top(p).file /\ Loading(p)'
      BY <1>c, <2>2 DEF Opening
    <3> QED
      BY <3>1, <3>2 DEF NewInv, Plain
  <2> QED
    BY <1>2, <2>1, <2>2 DEF Create
<1>3. CASE Read(p)
  <2>0. ~Is(p, 1, Opening)'
    <3>1. ~Start(p) /\ ~LoadCommand(p) /\ ~Open(p) /\ ~Create(p)
      BY <1>3, <1>a DEF Read, Calls, Open, Create, Start, LoadCommand, Editing, AtRest
    <3> QED
      BY <3>1, CallsStep DEF Opens
  <2>1. CASE Done(p) /\ new'[p].file = new[p].file /\ new'[p].delete_file = new[p].delete_file
    <3>1. Loading(p)'
      BY <1>a, <1>b, <2>1, LoadingDone
    <3>2. ~Is(p, 1, {"read"})'
      BY <2>0 DEF Is, Opening
    <3> QED
      BY <2>0, <3>1, <3>2 DEF NewInv
  <2>2. CASE Top(p).file \in Filtered /\ new' = new
    <3>1. new'[p].file \notin Plain
      BY <1>3, <1>a, <2>2 DEF NewInv, Read, Calls, Plain
    <3>2. ~Is(p, 1, {"read"})'
      BY <2>0 DEF Is, Opening
    <3> QED
      BY <2>0, <3>1, <3>2 DEF NewInv, Plain
  <2>3. ASSUME NEW v, new' = [new EXCEPT ![p].text = v]
        PROVE  new'[p].file = new[p].file /\ new'[p].delete_file = new[p].delete_file
    BY <1>b, <2>3 DEF Windows
  <2>4. CASE Top(p).file \in Filtered
    BY <1>3, <2>1, <2>2, <2>3, <2>4 DEF Read
  <2>5. CASE Top(p).file \notin Filtered
    BY <1>3, <2>1, <2>3, <2>5 DEF Read
  <2> QED
    BY <2>4, <2>5
<1> QED
  BY <1>1, <1>2, <1>3

\* A file is to be opened.
LEMMA NewCommands ==
  ASSUME TInv, NEW p \in Editor, Step(p), NewInv(p), Start(p) \/ LoadCommand(p)
  PROVE  NewInv(p)'
<1>1. todo[p] = <<>> /\ new' = new /\ todo \in [Editor -> Seq(Calling)] /\ ed[p].file \in Name
  BY EdFacts DEF Start, LoadCommand, Editing, AtRest, TInv, CallsInv
<1>2. ~(new[p].delete_file /\ new[p].file \in Plain)
  BY <1>1, NotLoading DEF NewInv
<1>3. ASSUME todo'[p][1].call = "open", todo'[p][1] = Top(p)',
             TakesNext(p)'
      PROVE  NewInv(p)'
  <2>1. ~Is(p, 1, {"read"})'
    BY <1>3 DEF Is
  <2> QED
    BY <1>1, <1>2, <1>3, <2>1 DEF NewInv, Plain
<1>4. ASSUME NEW f \in File
      PROVE  Call("open", f) \in Calling /\ Call("take", f) \in Calling /\ Call("clean", f) \in Calling
  BY <1>4, PathFacts, CallTypes DEF CallName, Opening, Replacing
<1>5. CASE Start(p)
  <2>1. ASSUME NEW f \in File, Command(p, <<Call("open", f), Call("take", f)>>)
        PROVE  NewInv(p)'
    <3>1. todo'[p] = <<Call("open", f), Call("take", f)>>
      BY <1>1, <2>1 DEF Command, EndWith
    <3>2. todo'[p][1].call = "open" /\ todo'[p][1] = Top(p)' /\ Is(p, 2, {"take"})'
      BY <3>1 DEF Call, Top, Is
    <3> QED
      BY <1>3, <3>2 DEF TakesNext
  <2>2. CASE Command(p, <<Call("renew", NoName)>>)
    <3>1. todo'[p] = <<Call("renew", NoName)>>
      BY <1>1, <2>2 DEF Command, EndWith
    <3>2. ~Is(p, 1, Opening)' /\ ~Is(p, 1, {"read"})'
      BY <3>1 DEF Is, Opening, Call
    <3> QED
      BY <1>1, <1>2, <3>2 DEF NewInv, Plain
  <2> QED
    BY <1>5, <2>1, <2>2 DEF Start
<1>6. CASE LoadCommand(p)
  <2>1. PICK f \in File :
          Command(p, <<Call("open", f), Call("clean", f), Call("take", f)>>
                     \o If(ed[p].locked, <<Call("unlock", ed[p].file)>>))
    BY <1>6 DEF LoadCommand
  <2>2. PICK a, b, c, s, r : /\ a = Call("open", f) /\ b = Call("clean", f) /\ c = Call("take", f)
                             /\ s = <<a, b, c>> /\ r = If(ed[p].locked, <<Call("unlock", ed[p].file)>>)
    OBVIOUS
  <2>3. s \in Seq(Calling) /\ r \in Seq(Calling) /\ Len(s) = 3
    <3>1. Call("unlock", ed[p].file) \in Calling
      BY <1>1, CallTypes DEF CallName, UnlockCalls
    <3>2. r \in Seq(Calling)
      BY <2>2, <3>1 DEF If
    <3> QED
      BY <1>4, <2>2, <3>2
  <2>4. /\ s \o r \in Seq(Calling) /\ Len(s \o r) = Len(s) + Len(r) /\ Len(r) \in Nat
        /\ \A i \in 1..Len(s \o r) : i <= Len(s) => (s \o r)[i] = s[i]
    <3>1. Len(r) \in Nat
      BY <2>3
    <3>0. s \in Seq(Calling) /\ r \in Seq(Calling)
      BY <2>3
    <3>2. s \o r \in Seq(Calling) /\ Len(s \o r) = Len(s) + Len(r)
      BY <3>0, InTwo
    <3>3. \A i \in 1..Len(s \o r) : i <= Len(s) => i \in 1..Len(s) /\ (s \o r)[i] = s[i]
      BY <3>0, InTwo
    <3> QED
      BY <3>1, <3>2, <3>3
  <2>5. (s \o r)[1] = a /\ (s \o r)[2] = b /\ (s \o r)[3] = c /\ Len(s \o r) >= 3
    <3>1. s[1] = a /\ s[2] = b /\ s[3] = c
      BY <2>2
    <3>2. 1 \in 1..Len(s \o r) /\ 2 \in 1..Len(s \o r) /\ 3 \in 1..Len(s \o r)
      BY <2>3, <2>4
    <3> QED
      BY <2>3, <2>4, <3>1, <3>2
  <2>6. todo'[p] = s \o r
    BY <1>1, <2>1, <2>2 DEF Command, EndWith
  <2>7. a.call = "open" /\ b.call = "clean" /\ c.call = "take"
    BY <2>2 DEF Call
  <2>8. todo'[p][1].call = "open" /\ todo'[p][1] = Top(p)'
    BY <2>4, <2>5, <2>6, <2>7 DEF Top
  <2>9. Is(p, 2, {"clean", "unlink"})' /\ Is(p, 3, {"take"})'
    BY <2>4, <2>5, <2>6, <2>7 DEF Is
  <2> QED
    BY <1>3, <2>8, <2>9 DEF TakesNext
<1> QED
  BY <1>5, <1>6

\* The window before is ended, and the new one taken over.
LEMMA NewOwn ==
  ASSUME TInv, NEW p \in Editor, Step(p), NewInv(p)
  PROVE  NewInv(p)'
<1>a. todo \in [Editor -> Seq(Calling)] /\ new \in [Editor -> Windows]
  BY DEF TInv, CallsInv, DataInv
<1>b. ASSUME todo[p] # <<>> PROVE Top(p) = todo[p][1] /\ \A names : Is(p, 1, names) <=> Top(p).call \in names
  BY <1>b, TopFacts
<1>c. ASSUME todo[p] = <<>> \/ Top(p).call \notin {"take", "read", "clean", "unlink"} \cup UnlockCalls
      PROVE  ~Loading(p)
  BY <1>a, <1>b, <1>c, NotLoading
<1>d. ASSUME todo[p] # <<>>, ~Opens(p), new' = new, Top(p).call \in {"unlink"} \cup UnlockCalls,
             Done(p) \/ \E name \in UnlockCalls : Top(p).call \in UnlockCalls /\ Goto(p, name)
      PROVE  NewInv(p)'
  <2>1. ~Is(p, 1, Opening)'
    BY <1>d, CallsStep
  <2>2. Loading(p) => TakesNext(p)
    BY <1>b, <1>d DEF Loading, UnlockCalls
  <2>3. Done(p) /\ Loading(p) => Loading(p)'
    BY <1>d, <2>2, LoadingDone
  <2>4. ASSUME NEW name \in UnlockCalls, Top(p).call \in UnlockCalls, Goto(p, name), Loading(p)
        PROVE  Loading(p)'
    <3>1. TakesNext(p)' /\ \A names : Is(p, 1, names)' <=> name \in names
      BY <1>d, <2>2, <2>4, LoadingGoto
    <3> QED
      BY <3>1 DEF Loading
  <2> QED
    BY <1>d, <2>1, <2>3, <2>4, NewKept
<1>1. CASE \/ Lock(p) \/ LockRead(p) \/ LockAnswer(p) \/ LockUnlink(p) \/ LockSymlink(p)
  <2>1. new' = new /\ ~Loading(p) /\ ~Opens(p)
    BY <1>1, <1>c DEF Lock, LockRead, LockAnswer, LockUnlink, LockSymlink, Calls, UnlockCalls, Opens, Open,
       Create, Start, LoadCommand, Editing, AtRest
  <2> QED
    BY <2>1, NewIdle
<1>2. CASE \/ Save(p) \/ SaveTemp(p) \/ SaveOpen(p) \/ SaveWrite(p) \/ SaveBackup(p) \/ SaveReplace(p)
  <2>1. new' = new /\ ~Loading(p) /\ ~Opens(p)
    BY <1>2, <1>c DEF Save, SaveTemp, SaveOpen, SaveWrite, SaveBackup, SaveReplace, Calls, UnlockCalls, Opens,
       Open, Create, Start, LoadCommand, Editing, AtRest
  <2> QED
    BY <2>1, NewIdle
<1>3. CASE \/ Saved(p) \/ AskName(p) \/ Exists(p) \/ SavedAs(p) \/ Named(p) \/ Modified(p) \/ Leave(p)
  <2>1. new' = new /\ ~Loading(p) /\ ~Opens(p)
    BY <1>3, <1>c DEF Saved, AskName, Exists, SavedAs, Named, Modified, Leave, Calls, UnlockCalls, Opens, Open,
       Create, Start, LoadCommand, Editing, AtRest
  <2> QED
    BY <2>1, NewIdle
<1>4. CASE \/ SaveCommand(p) \/ SaveAsCommand(p) \/ Modify(p) \/ NewCommand(p) \/ QuitCommand(p)
  <2>1. todo[p] = <<>> /\ ed[p].file # Closed /\ new' = new
    BY <1>4 DEF SaveCommand, SaveAsCommand, Modify, NewCommand, QuitCommand, Editing, AtRest
  <2>2. ~Loading(p) /\ ~Open(p) /\ ~Create(p) /\ ~Start(p)
    BY <2>1, <1>c DEF Open, Create, Start, Calls
  <2>3. CASE LoadCommand(p)
    BY <2>3, NewCommands
  <2>4. CASE ~LoadCommand(p)
    BY <2>1, <2>2, <2>4, NewIdle DEF Opens
  <2> QED
    BY <2>3, <2>4
<1>5. CASE Unlock(p) \/ UnlockRead(p) \/ UnlockUnlink(p)
  <2>1. todo[p] # <<>> /\ new' = new /\ ~Opens(p) /\ Top(p).call \in UnlockCalls
    BY <1>5 DEF Unlock, UnlockRead, UnlockUnlink, Calls, UnlockCalls, Opens, Open, Create, Start, LoadCommand,
       Editing, AtRest
  <2>2. Done(p) \/ \E name \in UnlockCalls : Goto(p, name)
    BY <1>5 DEF Unlock, UnlockRead, UnlockUnlink, Unlocked, UnlockCalls
  <2> QED
    BY <1>d, <2>1, <2>2
<1>6. CASE Unlink(p)
  <2>1. todo[p] # <<>> /\ new' = new /\ ~Opens(p) /\ Top(p).call = "unlink" /\ Done(p)
    BY <1>6 DEF Unlink, Calls, Opens, Open, Create, Start, LoadCommand, Editing, AtRest
  <2> QED
    BY <1>d, <2>1
<1>7. CASE Clean(p)
  <2>1. todo[p] # <<>> /\ new' = new /\ ~Opens(p)
    BY <1>7 DEF Clean, Calls, Opens, Open, Create, Start, LoadCommand, Editing, AtRest
  <2>2. ~Is(p, 1, Opening)'
    BY <2>1, CallsStep
  <2> QED
    BY <1>7, <2>1, <2>2, NewCleaned, NewKept
<1>8. CASE Take(p) \/ Crash(p)
  <2>1. new'[p] = Window(Closed, 0, FALSE)
    BY <1>8, <1>a DEF Take, Crash
  <2>2. ~Opens(p) \/ (todo'[p] = <<>> /\ Crash(p))
    <3>1. Take(p) => ~Opens(p)
      BY DEF Take, Calls, Opens, Open, Create, Start, LoadCommand, Editing, AtRest
    <3>2. Crash(p) => todo'[p] = <<>>
      BY <1>a DEF Crash
    <3> QED
      BY <1>8, <3>1, <3>2
  <2>3. ~Is(p, 1, Opening)'
    <3>1. todo'[p] = <<>> => ~Is(p, 1, Opening)'
      BY DEF Is
    <3> QED
      BY <2>2, <3>1, CallsStep
  <2>4. ~Is(p, 1, {"read"})'
    BY <2>3 DEF Is, Opening
  <2> QED
    BY <2>1, <2>3, <2>4 DEF NewInv, Window
<1> QED
  BY <1>1, <1>2, <1>3, <1>4, <1>5, <1>6, <1>7, <1>8, NewOpening, NewCommands DEF Step

LEMMA LoadsStep == TInv /\ Loads /\ [Next]_vars => Loads'
<1> SUFFICES ASSUME TInv, Loads, [Next]_vars, NEW q \in Editor PROVE NewInv(q)'
  BY DEF Loads
<1>1. ASSUME NEW p \in Editor, Step(p) PROVE NewInv(q)'
  <2>1. CASE q = p
    BY <1>1, <2>1, NewOwn DEF Loads
  <2>2. CASE q # p
    <3>1. todo'[q] = todo[q] /\ new'[q] = new[q]
      BY <1>1, <2>2, Frame
    <3>2. (\A k, names : Is(q, k, names)' <=> Is(q, k, names)) /\ Top(q)' = Top(q)
      BY <3>1 DEF Is, Top
    <3> QED
      BY <3>1, <3>2 DEF Loads, NewInv, Loading, TakesNext, Plain
  <2> QED
    BY <2>1, <2>2
<1>2. CASE UNCHANGED vars
  BY <1>2 DEF Loads, NewInv, Loading, TakesNext, Is, Top, Plain, vars, procVars
<1> QED
  BY <1>1, <1>2 DEF Next

LEMMA InitLoads == Init => Loads
<1> SUFFICES ASSUME Init, NEW p \in Editor PROVE NewInv(p)
  BY DEF Loads
<1>1. todo[p] = <<>> /\ ~new[p].delete_file
  BY DEF Init, Window
<1>2. \A names : ~Is(p, 1, names)
  BY <1>1 DEF Is
<1> QED
  BY <1>1, <1>2 DEF NewInv

---------------------------------------------------------------------------
(* Where the acknowledged version of a file is *)

\* A path holds the acknowledged version of f, or a newer one.
Holds(f, q) == acknowledged[f] # 0 => disk[q] >= acknowledged[f]
\* The temporary files that no save of another file writes.
Spare(f) == {t \in Temps : \A p \in alive : Is(p, 1, Writing) /\ savename[p] = t => Top(p).file = f}
KeptElsewhere(f) == \E q \in {Backup(f)} \cup Spare(f) : Holds(f, q)
Kept(f) == Holds(f, At(f)) \/ KeptElsewhere(f)

\* p has saved the text of its window, whose file is not to be removed any more.
Succeeding(p) ==
  \/ Is(p, 1, {"saved", "saved_as"}) /\ result[p]
  \/ Is(p, 1, {"named"})
  \/ /\ Is(p, 1, UnlockCalls)
     /\ Is(p, 2, {"named"}) \/ (Is(p, 2, UnlockCalls) /\ Is(p, 3, {"named"}))

\* p is about to remove f, or will when a window of it goes.
Removes(p, f) ==
  \/ Is(p, 1, {"unlink"}) /\ todo[p][1].file = f
  \/ Is(p, 1, UnlockCalls) /\ Is(p, 2, {"unlink"}) /\ todo[p][2].file = f
MayRemove(p, f) ==
  \/ ed[p].delete_file /\ ed[p].file = f /\ ~Succeeding(p)
  \/ new[p].delete_file /\ new[p].file = f
  \/ Removes(p, f)

\* A file that may be removed is not the only one with the text.
LossInv ==
  ~together /\ option_save_mode # "quick" =>
    \A f \in Plain : Kept(f) /\ \A p \in alive : MayRemove(p, f) => KeptElsewhere(f)

\* How the file of a window and its fate change.
LEMMA WindowStep ==
  ASSUME TInv, NEW p \in Editor, Step(p)
  PROVE  \/ ed'[p].file = ed[p].file /\ ed'[p].delete_file = ed[p].delete_file
         \/ ~ed'[p].delete_file
         \/ Take(p) /\ ed'[p] = new[p]
<1>a. ed \in [Editor -> Windows] /\ new \in [Editor -> Windows]
  BY DEF TInv, DataInv
<1>b. ASSUME Unlocked(p) \/ \E b : Change(p, b)
      PROVE  ed'[p].file = ed[p].file /\ ed'[p].delete_file = ed[p].delete_file
  <2>1. CASE Unlocked(p)
    BY <1>a, <2>1 DEF Unlocked, Windows
  <2>2. CASE \E b : Change(p, b)
    BY <1>a, <2>2 DEF Change, Windows
  <2> QED
    BY <1>b, <2>1, <2>2
<1>1. CASE Unlock(p) \/ UnlockRead(p) \/ UnlockUnlink(p)
  <2>1. Unlocked(p) \/ ed' = ed
    BY <1>1 DEF Unlock, UnlockRead, UnlockUnlink
  <2> QED
    BY <1>b, <2>1
<1>2. CASE Modified(p) \/ Modify(p)
  <2>1. (\E b : Change(p, b)) \/ ed' = ed
    BY <1>2 DEF Modified, Modify
  <2> QED
    BY <1>b, <2>1
<1>3. CASE Named(p)
  BY <1>3, <1>a DEF Named, Windows
<1>4. CASE Leave(p) \/ Crash(p)
  <2>1. \E f : ed' = [ed EXCEPT ![p] = Window(f, 0, FALSE)]
    BY <1>4 DEF Leave, Crash
  <2> QED
    BY <1>a, <2>1 DEF Window
<1>5. CASE Take(p)
  BY <1>5, <1>a DEF Take
<1>6. CASE \/ Lock(p) \/ LockRead(p) \/ LockAnswer(p) \/ LockUnlink(p) \/ LockSymlink(p)
           \/ Save(p) \/ SaveTemp(p) \/ SaveOpen(p) \/ SaveWrite(p) \/ SaveBackup(p) \/ SaveReplace(p)
  BY <1>6 DEF Lock, LockRead, LockAnswer, LockUnlink, LockSymlink, Save, SaveTemp, SaveOpen, SaveWrite,
     SaveBackup, SaveReplace
<1>7. CASE \/ Saved(p) \/ AskName(p) \/ Exists(p) \/ SavedAs(p) \/ Open(p) \/ Create(p) \/ Read(p)
           \/ Clean(p) \/ Unlink(p)
  BY <1>7 DEF Saved, AskName, Exists, SavedAs, Open, Create, Read, Clean, Unlink
<1>8. CASE \/ SaveCommand(p) \/ SaveAsCommand(p) \/ LoadCommand(p) \/ NewCommand(p) \/ QuitCommand(p) \/ Start(p)
  BY <1>8 DEF SaveCommand, SaveAsCommand, LoadCommand, NewCommand, QuitCommand, Start
<1> QED
  BY <1>1, <1>2, <1>3, <1>4, <1>5, <1>6, <1>7, <1>8 DEF Step

LEMMA NewStep ==
  ASSUME TInv, NEW p \in Editor, Step(p)
  PROVE  \/ new'[p].file = new[p].file /\ new'[p].delete_file = new[p].delete_file
         \/ ~new'[p].delete_file
         \/ Create(p) /\ new'[p].file = Top(p).file /\ disk[At(Top(p).file)] = Absent
<1>a. new \in [Editor -> Windows]
  BY DEF TInv, DataInv
<1>1. CASE Open(p) \/ Take(p) \/ Crash(p)
  <2>1. new' = new \/ \E f, v : new' = [new EXCEPT ![p] = Window(f, v, FALSE)]
    BY <1>1 DEF Open, Take, Crash
  <2> QED
    BY <1>a, <2>1 DEF Window
<1>2. CASE Create(p)
  <2>1. new' = new \/ (new' = [new EXCEPT ![p] = Window(Top(p).file, 0, TRUE)] /\ disk[At(Top(p).file)] = Absent)
    BY <1>2 DEF Create
  <2> QED
    BY <1>a, <1>2, <2>1 DEF Window
<1>3. CASE Read(p)
  <2>1. new' = new \/ \E v : new' = [new EXCEPT ![p].text = v]
    BY <1>3 DEF Read
  <2> QED
    BY <1>a, <2>1 DEF Windows
<1>4. CASE \/ Lock(p) \/ LockRead(p) \/ LockAnswer(p) \/ LockUnlink(p) \/ LockSymlink(p)
           \/ Unlock(p) \/ UnlockRead(p) \/ UnlockUnlink(p)
  BY <1>4 DEF Lock, LockRead, LockAnswer, LockUnlink, LockSymlink, Unlock, UnlockRead, UnlockUnlink
<1>5. CASE \/ Save(p) \/ SaveTemp(p) \/ SaveOpen(p) \/ SaveWrite(p) \/ SaveBackup(p) \/ SaveReplace(p)
  BY <1>5 DEF Save, SaveTemp, SaveOpen, SaveWrite, SaveBackup, SaveReplace
<1>6. CASE \/ Saved(p) \/ AskName(p) \/ Exists(p) \/ SavedAs(p) \/ Named(p) \/ Modified(p)
           \/ Clean(p) \/ Unlink(p) \/ Leave(p)
  BY <1>6 DEF Saved, AskName, Exists, SavedAs, Named, Modified, Clean, Unlink, Leave
<1>7. CASE \/ SaveCommand(p) \/ SaveAsCommand(p) \/ Modify(p) \/ LoadCommand(p) \/ NewCommand(p)
           \/ QuitCommand(p) \/ Start(p)
  BY <1>7 DEF SaveCommand, SaveAsCommand, Modify, LoadCommand, NewCommand, QuitCommand, Start
<1> QED
  BY <1>1, <1>2, <1>3, <1>4, <1>5, <1>6, <1>7 DEF Step

\* A save ends with the new name, or the question for one, after the locks that go.
LEMMA EndsSave ==
  ASSUME TInv, NEW p \in Editor, todo[p] # <<>>, Top(p).call \in {"saved", "saved_as"},
         NEW u \in Calling, u.call = "unlock", NEW v \in Calling, v.call = "unlock",
         NEW w \in Calling, w.call \in {"named", "ask_name"},
         NEW s, s \in {<<w>>, <<u, w>>} \/ (s \in {<<v, w>>, <<u, v, w>>} /\ w.call = "named"), Become(p, s)
  PROVE  (\A f : ~Removes(p, f)') /\ (w.call = "named" => Succeeding(p)')
<1>1. s \in {<<w>>, <<u, w>>, <<v, w>>, <<u, v, w>>}
  OBVIOUS
<1>2. Shape(s) /\ s # <<>> /\ s[Len(s)] = w
  <2>1. Shape(<<w>>) /\ Shape(<<u, w>>) /\ (w.call = "named" => Shape(<<u, v, w>>))
    BY ShapeOfUnlocks
  <2>2. Shape(<<v, w>>)
    BY ShapeOfUnlocks
  <2>3. s # <<>> /\ s[Len(s)] = w
    BY <1>1, FewCalls
  <2> QED
    BY <2>1, <2>2, <2>3
<1>3. \A d : MayFollow(Top(p), d) =>
        MayFollow(s[Len(s)], d) /\ d.call \in {"clean", "take", "renew", "close"}
  BY <1>2 DEF MayFollow, LockCalls, UnlockCalls, Saving, Writing, Opening, Replacing
<1>4. /\ Len(todo'[p]) = Len(s) + Len(todo[p]) - 1 /\ Len(s) \in Nat /\ Len(todo[p]) \in Nat /\ Len(todo[p]) > 0
      /\ \A i \in 1..Len(s) : todo'[p][i] = s[i]
  BY <1>2, <1>3, BecomeFacts
<1>5. Len(todo'[p]) \in Nat /\ Len(todo'[p]) >= Len(s)
  BY <1>4
<1>6. {"unlock"} \subseteq UnlockCalls /\ {"unlink", "named", "ask_name"} \cap UnlockCalls = {}
  BY DEF UnlockCalls
<1>7. CASE s = <<w>>
  <2>1. Len(todo'[p]) >= 1 /\ todo'[p][1] = w
    BY <1>4, <1>5, <1>7
  <2> QED
    BY <1>5, <1>6, <2>1 DEF Removes, Succeeding, Is
<1>8. ASSUME NEW a \in {u, v}, s = <<a, w>> PROVE (\A f : ~Removes(p, f)') /\ (w.call = "named" => Succeeding(p)')
  <2>1. Len(s) = 2 /\ s[1] = a /\ s[2] = w
    BY <1>8
  <2>2. Len(todo'[p]) >= 2 /\ todo'[p][1] = a /\ todo'[p][2] = w /\ a.call = "unlock"
    BY <1>4, <1>5, <1>8, <2>1
  <2>3. \A f : ~Removes(p, f)'
    BY <1>5, <1>6, <2>2 DEF Removes, Is
  <2>4. w.call = "named" => Is(p, 1, UnlockCalls)' /\ Is(p, 2, {"named"})'
    BY <1>5, <1>6, <2>2 DEF Is
  <2> QED
    BY <2>3, <2>4 DEF Succeeding
<1>9. CASE s = <<u, v, w>>
  <2>1. Len(s) = 3 /\ s[1] = u /\ s[2] = v /\ s[3] = w
    BY <1>9
  <2>2. Len(todo'[p]) >= 3 /\ todo'[p][1] = u /\ todo'[p][2] = v /\ todo'[p][3] = w
    BY <1>4, <1>5, <2>1
  <2>3. \A f : ~Removes(p, f)'
    BY <1>5, <1>6, <2>2 DEF Removes, Is
  <2>4. w.call = "named" => Is(p, 1, UnlockCalls)' /\ Is(p, 2, UnlockCalls)' /\ Is(p, 3, {"named"})'
    BY <1>5, <1>6, <2>2 DEF Is
  <2> QED
    BY <2>3, <2>4 DEF Succeeding
<1> QED
  BY <1>1, <1>7, <1>8, <1>9

\* What follows a save removes no file before the window has its new name.
LEMMA AfterSave ==
  ASSUME TInv, NEW p \in Editor, Saved(p) \/ SavedAs(p)
  PROVE  (\A f : ~Removes(p, f)') /\ (result[p] => Succeeding(p)')
<1>a. todo[p] # <<>> /\ Top(p).call \in {"saved", "saved_as"} /\ Top(p).file \in Name /\ ed[p].file \in Name
      /\ result[p] \in BOOLEAN /\ got[p] \in BOOLEAN /\ ed[p].locked \in BOOLEAN
  BY TopFacts, EdFacts DEF Saved, SavedAs, Calls, TInv, DataInv
<1>b. \A f \in Name : /\ Call("unlock", f) \in Calling /\ Call("unlock", f).call = "unlock"
                      /\ Call("named", f) \in Calling /\ Call("named", f).call = "named"
                      /\ Call("ask_name", f) \in Calling /\ Call("ask_name", f).call = "ask_name"
  BY CallTypes DEF CallName, UnlockCalls, Replacing
<1>1. CASE Saved(p)
  <2>0. PICK f, u, w : /\ f = ed[p].file /\ u = Call("unlock", f)
                       /\ w = Call(IF result[p] THEN "named" ELSE "ask_name", f)
    OBVIOUS
  <2>1. Become(p, <<u>> \o <<w>>) \/ Become(p, <<>> \o <<w>>)
    BY <1>1, <2>0 DEF Saved, If
  <2>2. u \in Calling /\ u.call = "unlock" /\ w \in Calling /\ w.call \in {"named", "ask_name"}
    BY <1>a, <1>b, <2>0
  <2>3. result[p] => w.call = "named"
    BY <1>a, <1>b, <2>0
  <2>4. <<>> \o <<w>> = <<w>> /\ <<u>> \o <<w>> = <<u, w>>
    BY <2>2, ShapeOfUnlocks
  <2>5. Become(p, <<u, w>>) \/ Become(p, <<w>>)
    BY <2>1, <2>4
  <2>6. ASSUME NEW s \in {<<w>>, <<u, w>>}, Become(p, s)
        PROVE  (\A g : ~Removes(p, g)') /\ (w.call = "named" => Succeeding(p)')
    BY <1>a, <2>2, <2>6, EndsSave
  <2> QED
    BY <2>3, <2>5, <2>6
<1>2. CASE SavedAs(p)
  <2>0. PICK exp, f, u, v, w, l :
          /\ exp = Top(p).file /\ f = ed[p].file /\ u = Call("unlock", exp) /\ v = Call("unlock", f)
          /\ w = Call("named", exp) /\ l = LocksToDrop(p, exp)
    OBVIOUS
  <2>1. IF result[p] THEN Become(p, l \o <<w>>) ELSE EndWith(p, l)
    BY <1>2, <2>0 DEF SavedAs
  <2>2. l \in {<<>>, <<u>>, <<v>>, <<u, v>>}
    BY <1>a, <2>0, Drops
  <2>3. u \in Calling /\ u.call = "unlock" /\ v \in Calling /\ v.call = "unlock" /\ w \in Calling /\ w.call = "named"
    BY <1>a, <1>b, <2>0
  <2>4. CASE result[p]
    <3>1. <<>> \o <<w>> = <<w>> /\ <<u>> \o <<w>> = <<u, w>> /\ <<u, v>> \o <<w>> = <<u, v, w>>
      BY <2>3, ShapeOfUnlocks
    <3>2. <<v>> \o <<w>> = <<v, w>>
      BY <2>3, ShapeOfUnlocks
    <3>3. PICK s \in {<<w>>, <<u, w>>, <<v, w>>, <<u, v, w>>} : Become(p, s)
      BY <2>1, <2>2, <2>4, <3>1, <3>2
    <3> QED
      BY <1>a, <2>3, <3>3, EndsSave
  <2>5. CASE ~result[p]
    <3>1. todo'[p] = l
      BY <1>a, <2>1, <2>5 DEF EndWith, TInv, CallsInv
    <3>2. \A i \in 1..Len(todo'[p]) : todo'[p][i].call = "unlock"
      BY <2>2, <2>3, <3>1
    <3>3. Len(todo'[p]) \in Nat
      BY <2>2, <3>1
    <3>4. ~Is(p, 1, {"unlink"})' /\ ~Is(p, 2, {"unlink"})'
      BY <3>2, <3>3 DEF Is
    <3> QED
      BY <2>5, <3>4 DEF Removes
  <2> QED
    BY <1>a, <2>4, <2>5
<1> QED
  BY <1>1, <1>2

\* Until the window has its new name, the file is not to be removed.
LEMMA SucceedingStep ==
  ASSUME TInv, NEW p \in Editor, Step(p), Succeeding(p)
  PROVE  Succeeding(p)' \/ Named(p) \/ Crash(p)
<1>1. todo[p] # <<>>
  <2>1. ASSUME todo[p] = <<>> PROVE FALSE
    <3>1. \A names : ~Is(p, 1, names)
      BY <2>1 DEF Is
    <3> QED
      BY <3>1 DEF Succeeding
  <2> QED
    BY <2>1
<1>2. (\A names : Is(p, 1, names) <=> Top(p).call \in names) /\ Top(p).call \in {"saved", "saved_as", "named"} \cup UnlockCalls
  <2>1. \A names : Is(p, 1, names) <=> Top(p).call \in names
    BY <1>1, TopFacts
  <2> QED
    BY <2>1 DEF Succeeding
<1>3. CASE Top(p).call \in {"saved", "saved_as"} /\ (Saved(p) \/ SavedAs(p))
  <2>1. result[p]
    BY <1>2, <1>3 DEF Succeeding, UnlockCalls
  <2> QED
    BY <1>3, <2>1, AfterSave
<1>4. CASE Unlock(p) \/ UnlockRead(p) \/ UnlockUnlink(p)
  <2>1. Top(p).call \in UnlockCalls /\ (Done(p) \/ \E name \in UnlockCalls : Goto(p, name))
    BY <1>4 DEF Unlock, UnlockRead, UnlockUnlink, Unlocked, Calls, UnlockCalls
  <2>2. Is(p, 2, {"named"}) \/ (Is(p, 2, UnlockCalls) /\ Is(p, 3, {"named"}))
    BY <1>2, <2>1 DEF Succeeding, UnlockCalls
  <2>3. CASE Done(p)
    <3>1. \A names : (Is(p, 1, names)' <=> Is(p, 2, names)) /\ (Is(p, 2, names)' <=> Is(p, 3, names))
      BY <1>1, <2>3, NextCalls
    <3> QED
      BY <2>2, <3>1 DEF Succeeding
  <2>4. ASSUME NEW name \in UnlockCalls, Goto(p, name) PROVE Succeeding(p)'
    <3>1. \A names : Is(p, 1, names)' <=> name \in names
      BY <1>1, <2>1, <2>4, LoadingGoto
    <3>2. \A names : (Is(p, 2, names)' <=> Is(p, 2, names)) /\ (Is(p, 3, names)' <=> Is(p, 3, names))
      BY <1>1, <2>1, <2>4, LoadingGoto
    <3> QED
      BY <2>2, <3>1, <3>2 DEF Succeeding
  <2> QED
    BY <2>1, <2>3, <2>4
<1>5. CASE \/ Lock(p) \/ LockRead(p) \/ LockAnswer(p) \/ LockUnlink(p) \/ LockSymlink(p)
           \/ Save(p) \/ SaveTemp(p) \/ SaveOpen(p) \/ SaveWrite(p) \/ SaveBackup(p) \/ SaveReplace(p)
  BY <1>2, <1>5 DEF Lock, LockRead, LockAnswer, LockUnlink, LockSymlink, Save, SaveTemp, SaveOpen, SaveWrite,
     SaveBackup, SaveReplace, Calls, UnlockCalls
<1>6. CASE \/ AskName(p) \/ Exists(p) \/ Modified(p) \/ Open(p) \/ Create(p) \/ Read(p) \/ Take(p)
           \/ Clean(p) \/ Unlink(p) \/ Leave(p)
  BY <1>2, <1>6 DEF AskName, Exists, Modified, Open, Create, Read, Take, Clean, Unlink, Leave, Calls, UnlockCalls
<1>7. CASE \/ SaveCommand(p) \/ SaveAsCommand(p) \/ Modify(p) \/ LoadCommand(p) \/ NewCommand(p)
           \/ QuitCommand(p) \/ Start(p)
  BY <1>1, <1>7 DEF SaveCommand, SaveAsCommand, Modify, LoadCommand, NewCommand, QuitCommand, Start, Editing, AtRest
<1>8. CASE Saved(p) \/ SavedAs(p)
  BY <1>3, <1>8 DEF Saved, SavedAs, Calls
<1> QED
  BY <1>4, <1>5, <1>6, <1>7, <1>8 DEF Step

---------------------------------------------------------------------------
(* Which files may be removed *)

LEMMA RemovesFirst ==
  ASSUME NEW p, NEW f, Removes(p, f)'
  PROVE  /\ 1 <= Len(todo'[p]) /\ todo'[p][1].call \in {"unlink"} \cup UnlockCalls
         /\ \/ todo'[p][1].call = "unlink" /\ todo'[p][1].file = f
            \/ 2 <= Len(todo'[p]) /\ todo'[p][2].call = "unlink" /\ todo'[p][2].file = f
  BY DEF Removes, Is

LEMMA RemovesDone ==
  ASSUME TInv, NEW p \in Editor, NEW f, todo[p] # <<>>, Done(p), Removes(p, f)'
  PROVE  Top(p).call \in UnlockCalls /\ Removes(p, f)
<1>1. /\ \A names : (Is(p, 1, names)' <=> Is(p, 2, names)) /\ (Is(p, 2, names)' <=> Is(p, 3, names))
      /\ todo'[p] # <<>> => MayFollow(Top(p), todo'[p][1]) /\ todo'[p][1] = todo[p][2]
      /\ todo'[p] = <<>> => \A names : ~Is(p, 1, names)'
  BY NextCalls
<1>2. Shape(todo[p]) /\ \A names : Is(p, 1, names) <=> Top(p).call \in names
  BY TopFacts
<1>3. ~Is(p, 3, {"unlink"})
  <2>1. UnlocksFirst(todo[p])
    BY <1>2 DEF Shape
  <2>2. ASSUME 3 <= Len(todo[p]), todo[p][3].call = "unlink" PROVE FALSE
    <3>1. 3 \in 1..Len(todo[p])
      BY <1>2, <2>2 DEF Shape
    <3> QED
      BY <2>1, <2>2, <3>1 DEF UnlocksFirst
  <2> QED
    BY <2>2 DEF Is
<1>4. Is(p, 1, {"unlink"})' /\ todo'[p][1].file = f
  BY <1>1, <1>3 DEF Removes
<1>5. todo'[p] # <<>> /\ todo'[p][1].call = "unlink" /\ Is(p, 2, {"unlink"})
  BY <1>1, <1>4 DEF Is
<1>6. Top(p).call \in UnlockCalls
  BY <1>1, <1>5 DEF MayFollow, LockCalls, Saving, Writing, Opening, UnlockCalls, Replacing
<1> QED
  BY <1>1, <1>2, <1>4, <1>5, <1>6 DEF Removes

LEMMA RemovesGoto ==
  ASSUME TInv, NEW p \in Editor, NEW f, todo[p] # <<>>,
         NEW kind \in {LockCalls, UnlockCalls, Saving, Opening}, Top(p).call \in kind,
         NEW name \in kind, Goto(p, name), Removes(p, f)'
  PROVE  Removes(p, f)
<1>1. \A names : Is(p, 1, names)' <=> name \in names
  BY LoadingGoto
<1>2. \A names : Is(p, 2, names)' <=> Is(p, 2, names)
  BY LoadingGoto
<1>3. Len(todo'[p]) = Len(todo[p]) /\ \A i \in 1..Len(todo'[p]) : i > 1 => todo'[p][i] = todo[p][i]
  BY GotoFacts
<1>4. Len(todo[p]) \in Nat /\ \A names : Is(p, 1, names) <=> Top(p).call \in names
  BY TopFacts
<1>5. name # "unlink"
  BY DEF LockCalls, UnlockCalls, Saving, Writing, Opening
<1>6. Is(p, 1, UnlockCalls)' /\ Is(p, 2, {"unlink"})' /\ todo'[p][2].file = f
  BY <1>1, <1>5 DEF Removes
<1>7. kind = UnlockCalls
  BY <1>1, <1>6 DEF LockCalls, UnlockCalls, Saving, Writing, Opening
<1>8. todo'[p][2] = todo[p][2] /\ Is(p, 2, {"unlink"})
  BY <1>2, <1>3, <1>4, <1>6 DEF Is
<1> QED
  BY <1>4, <1>6, <1>7, <1>8 DEF Removes

\* The window that is cleaned has its file removed if it was created for it.
LEMMA RemovesCleaned ==
  ASSUME TInv, NEW p \in Editor, NEW f, Clean(p), Removes(p, f)'
  PROVE  ed[p].delete_file /\ ed[p].file = f
<1>0. PICK g, u, w : g = ed[p].file /\ u = Call("unlock", g) /\ w = Call("unlink", g)
  OBVIOUS
<1>1. /\ g \in Name /\ todo[p] # <<>> /\ Top(p).call = "clean" /\ ed[p].delete_file \in BOOLEAN
      /\ IF ed[p].delete_file THEN Become(p, <<u>> \o <<w>>) \/ Become(p, <<>> \o <<w>>)
         ELSE Become(p, <<u>> \o <<>>) \/ Become(p, <<>> \o <<>>)
  BY <1>0, EdFacts DEF Clean, CleanCalls, If, Calls, TInv
<1>2. u \in Calling /\ u.call = "unlock" /\ w \in Calling /\ w.call = "unlink" /\ w.file = g
  BY <1>0, <1>1, CallTypes DEF CallName, UnlockCalls
<1>3. /\ <<>> \o <<w>> = <<w>> /\ <<u>> \o <<w>> = <<u, w>> /\ <<u>> \o <<>> = <<u>> /\ <<>> \o <<>> = <<>>
      /\ Shape(<<w>>) /\ Shape(<<u, w>>) /\ Shape(<<u>>)
  BY <1>2, ShapeOfUnlocks
<1>4. \A d : MayFollow(Top(p), d) =>
        MayFollow(u, d) /\ MayFollow(w, d) /\ d.call \in {"take", "renew", "close"}
  BY <1>1, <1>2 DEF MayFollow, LockCalls, UnlockCalls, Saving, Writing, Opening, Replacing
<1>5. ~Done(p)
  <2>1. Top(p).call \notin UnlockCalls
    BY <1>1 DEF UnlockCalls
  <2> QED
    BY <1>1, <2>1, RemovesDone
<1>6. ASSUME NEW s \in {<<w>>, <<u, w>>, <<u>>}, Become(p, s)
      PROVE  /\ Len(todo'[p]) = Len(s) + Len(todo[p]) - 1 /\ Len(todo[p]) \in Nat
             /\ \A i \in 1..Len(s) : todo'[p][i] = s[i]
             /\ \A i \in 1..Len(todo[p])-1 : todo'[p][Len(s) + i] = todo[p][i+1]
  <2>1. Shape(s)
    BY <1>3
  <2>2. s # <<>> /\ s[Len(s)] \in {u, w}
    <3>1. s # <<>> /\ Len(s) \in 1..3 /\ \A i \in 1..Len(s) : s[i] \in {u, w}
      BY <1>2, FewCalls
    <3> QED
      BY <3>1
  <2>3. \A d : MayFollow(Top(p), d) => MayFollow(s[Len(s)], d) /\ d.call \in {"clean", "take", "renew", "close"}
    BY <1>4, <2>2
  <2> QED
    BY <1>1, <1>6, <2>1, <2>2, <2>3, BecomeFacts
<1>7. ~Become(p, <<u>>)
  <2> SUFFICES ASSUME Become(p, <<u>>) PROVE FALSE
    OBVIOUS
  <2>1. PICK s : s = <<u>>
    OBVIOUS
  <2>2. Len(s) = 1 /\ s[1] = u /\ Become(p, s) /\ s \in {<<w>>, <<u, w>>, <<u>>}
    BY <2>1
  <2>3. /\ Len(todo'[p]) = Len(todo[p]) /\ Len(todo[p]) \in Nat /\ todo'[p][1] = u
        /\ \A i \in 1..Len(todo[p])-1 : todo'[p][1 + i] = todo[p][i+1]
    BY <1>6, <2>2
  <2>4. 2 <= Len(todo[p]) /\ todo'[p][2].call = "unlink"
    BY <1>2, <2>3, RemovesFirst
  <2>5. todo'[p][2] = todo[p][2]
    <3>1. 1 \in 1..Len(todo[p])-1
      BY <2>3, <2>4
    <3>2. todo'[p][1+1] = todo[p][1+1]
      BY <2>3, <3>1
    <3> QED
      BY <3>2
  <2>6. MayFollow(Top(p), todo[p][2])
    <3>1. Shape(todo[p]) /\ Top(p) = todo[p][1] /\ 1 \in 1..Len(todo[p])
      BY <1>1, TopFacts
    <3> QED
      BY <2>4, <3>1 DEF Shape, Linked
  <2> QED
    BY <1>4, <2>4, <2>5, <2>6
<1>8. ed[p].delete_file
  BY <1>1, <1>3, <1>5, <1>7 DEF Done
<1>9. CASE Become(p, <<w>>)
  <2>1. PICK s : s = <<w>>
    OBVIOUS
  <2>2. Len(s) = 1 /\ s[1] = w /\ Become(p, s) /\ s \in {<<w>>, <<u, w>>, <<u>>}
    BY <1>9, <2>1
  <2>3. todo'[p][1] = w
    BY <1>6, <2>2
  <2>4. ~Is(p, 1, UnlockCalls)'
    BY <1>2, <2>3 DEF Is, UnlockCalls
  <2> QED
    BY <1>0, <1>2, <1>8, <2>3, <2>4 DEF Removes
<1>10. CASE Become(p, <<u, w>>)
  <2>1. PICK s : s = <<u, w>>
    OBVIOUS
  <2>2. Len(s) = 2 /\ s[1] = u /\ s[2] = w /\ Become(p, s) /\ s \in {<<w>>, <<u, w>>, <<u>>}
    BY <1>10, <2>1
  <2>3. todo'[p][1] = u /\ todo'[p][2] = w
    BY <1>6, <2>2
  <2> QED
    BY <1>0, <1>2, <1>8, <2>3, RemovesFirst
<1> QED
  BY <1>1, <1>3, <1>8, <1>9, <1>10

\* The commands of the user, and the question for a name, remove nothing at once.
LEMMA RemovesCommand ==
  ASSUME TInv, NEW p \in Editor, NEW f, Removes(p, f)',
         \/ SaveCommand(p) \/ SaveAsCommand(p) \/ Modify(p) \/ Start(p) \/ LoadCommand(p)
         \/ NewCommand(p) \/ QuitCommand(p) \/ AskName(p)
  PROVE  FALSE
<1>a. /\ 1 <= Len(todo'[p]) /\ todo'[p][1].call \in {"unlink"} \cup UnlockCalls
      /\ \/ todo'[p][1].call = "unlink" /\ todo'[p][1].file = f
         \/ 2 <= Len(todo'[p]) /\ todo'[p][2].call = "unlink" /\ todo'[p][2].file = f
  BY RemovesFirst
<1>b. {"lock", "save", "exists", "open", "renew", "clean"} \cap ({"unlink"} \cup UnlockCalls) = {}
  BY DEF UnlockCalls
<1>c. todo \in [Editor -> Seq(Calling)] /\ ed[p].file \in Name
  BY EdFacts DEF TInv, CallsInv
<1>d. ASSUME NEW c, Command(p, c) PROVE todo'[p] = c
  BY <1>c, <1>d DEF Command, EndWith
<1>e. ASSUME NEW g \in Name
      PROVE  /\ Call("unlock", g) \in Calling /\ Call("clean", g) \in Calling
             /\ Call("renew", g) \in Calling /\ Call("close", g) \in Calling
  BY <1>e, CallTypes DEF CallName, UnlockCalls, Replacing
<1>f. ASSUME NEW s \in Seq(Calling), NEW r \in Seq(Calling), s # <<>> PROVE (s \o r)[1] = s[1]
  BY <1>f
<1>1. CASE SaveCommand(p)
  <2>1. todo'[p] = SaveCalls(p)
    BY <1>1, <1>d DEF SaveCommand
  <2>2. SaveCalls(p)[1].call \in {"lock", "save"}
    BY ShapeOfSave
  <2> QED
    BY <1>a, <1>b, <2>1, <2>2
<1>2. CASE SaveAsCommand(p)
  <2>1. PICK exp \in File : todo'[p] = SaveAsCalls(p, exp)
    BY <1>2, <1>d DEF SaveAsCommand
  <2>2. SaveAsCalls(p, exp)[1].call \in {"exists", "lock", "save"}
    BY ShapeOfSaveAs
  <2> QED
    BY <1>a, <1>b, <2>1, <2>2
<1>3. CASE Modify(p)
  <2>1. todo'[p] = <<>> \/ todo'[p] = <<Call("lock", ed[p].file), Call("modify", ed[p].file)>>
    BY <1>3, <1>d DEF Modify
  <2> QED
    BY <1>a, <1>b, <2>1 DEF Call
<1>4. CASE Start(p)
  <2>1. todo'[p] = <<Call("renew", NoName)>> \/ \E g \in File : todo'[p] = <<Call("open", g), Call("take", g)>>
    BY <1>4, <1>d DEF Start
  <2>2. todo'[p][1].call \in {"renew", "open"}
    <3>1. CASE todo'[p] = <<Call("renew", NoName)>>
      BY <3>1 DEF Call
    <3>2. ASSUME NEW g \in File, todo'[p] = <<Call("open", g), Call("take", g)>> PROVE todo'[p][1].call = "open"
      BY <3>2 DEF Call
    <3> QED
      BY <2>1, <3>1, <3>2
  <2> QED
    BY <1>a, <1>b, <2>2
<1>5. CASE LoadCommand(p)
  <2>1. PICK g \in File : todo'[p] = <<Call("open", g), Call("clean", g), Call("take", g)>>
                                     \o If(ed[p].locked, <<Call("unlock", ed[p].file)>>)
    BY <1>5, <1>d DEF LoadCommand
  <2>2. PICK s, r : /\ s = <<Call("open", g), Call("clean", g), Call("take", g)>>
                    /\ r = If(ed[p].locked, <<Call("unlock", ed[p].file)>>)
    OBVIOUS
  <2>3. s \in Seq(Calling) /\ r \in Seq(Calling) /\ s # <<>> /\ s[1].call = "open"
    <3>1. Call("open", g) \in Calling /\ Call("clean", g) \in Calling /\ Call("take", g) \in Calling
      BY PathFacts, CallTypes DEF CallName, Opening, Replacing
    <3>2. s \in Seq(Calling) /\ s # <<>> /\ s[1] = Call("open", g)
      BY <2>2, <3>1
    <3>3. r \in Seq(Calling)
      BY <1>c, <1>e, <2>2 DEF If
    <3> QED
      BY <3>2, <3>3 DEF Call
  <2>4. todo'[p][1].call = "open"
    BY <1>f, <2>1, <2>2, <2>3
  <2> QED
    BY <1>a, <1>b, <2>4
<1>6. ASSUME NEW last \in {"renew", "close"},
             todo'[p] = If(ed[p].locked, <<Call("unlock", ed[p].file)>>)
                        \o <<Call("clean", ed[p].file), Call(last, ed[p].file)>>
      PROVE  FALSE
  <2>1. PICK u, b, c : u = Call("unlock", ed[p].file) /\ b = Call("clean", ed[p].file) /\ c = Call(last, ed[p].file)
    OBVIOUS
  <2>2. /\ u \in Calling /\ u.call = "unlock" /\ b \in Calling /\ b.call = "clean"
        /\ c \in Calling /\ c.call \in {"renew", "close"}
    BY <1>c, <1>e, <2>1 DEF Call
  <2>3. <<>> \o <<b, c>> = <<b, c>> /\ <<u>> \o <<b, c>> = <<u, b, c>>
    BY <2>2, ShapeOfLeave
  <2>4. todo'[p] = <<b, c>> \/ todo'[p] = <<u, b, c>>
    BY <1>6, <2>1, <2>3 DEF If
  <2>5. CASE todo'[p] = <<b, c>>
    BY <1>a, <1>b, <2>2, <2>5
  <2>6. CASE todo'[p] = <<u, b, c>>
    BY <1>a, <2>2, <2>6
  <2> QED
    BY <2>4, <2>5, <2>6
<1>7. CASE NewCommand(p)
  BY <1>7, <1>6, <1>d DEF NewCommand
<1>8. CASE QuitCommand(p)
  <2>1. PICK k : k = <<Call("clean", ed[p].file), Call("close", ed[p].file)>>
    OBVIOUS
  <2>2. \/ todo'[p] = If(ed[p].locked, <<Call("unlock", ed[p].file)>>) \o k
        \/ todo'[p] = SaveCalls(p) \o k
    BY <1>8, <1>d, <2>1 DEF QuitCommand
  <2>3. CASE todo'[p] = SaveCalls(p) \o k
    <3>1. SaveCalls(p) \in Seq(Calling) /\ SaveCalls(p) # <<>> /\ SaveCalls(p)[1].call \in {"lock", "save"}
      <4>1. Shape(SaveCalls(p)) /\ Len(SaveCalls(p)) \in {2, 3} /\ SaveCalls(p)[1].call \in {"lock", "save"}
        BY ShapeOfSave
      <4> QED
        BY <4>1 DEF Shape
    <3>2. k \in Seq(Calling)
      BY <1>c, <1>e, <2>1
    <3>3. todo'[p][1].call \in {"lock", "save"}
      BY <1>f, <2>3, <3>1, <3>2
    <3> QED
      BY <1>a, <1>b, <3>3
  <2> QED
    BY <1>6, <2>1, <2>2, <2>3
<1>9. CASE AskName(p)
  <2>1. todo[p] # <<>> /\ Top(p).call = "ask_name" /\ (EndWith(p, <<>>) \/ \E exp \in File : Become(p, SaveAsCalls(p, exp)))
    BY <1>9 DEF AskName, Calls
  <2>2. CASE EndWith(p, <<>>)
    <3>1. todo'[p] = <<>>
      BY <1>c, <2>2 DEF EndWith
    <3> QED
      BY <1>a, <3>1
  <2>3. ASSUME NEW exp \in File, Become(p, SaveAsCalls(p, exp)) PROVE FALSE
    <3>0. PICK s : s = SaveAsCalls(p, exp)
      OBVIOUS
    <3>1. /\ Shape(s) /\ Len(s) \in 2..4 /\ s[Len(s)].call = "saved_as"
          /\ s[1].call \in {"exists", "lock", "save"} /\ Become(p, s)
      BY <2>3, <3>0, ShapeOfSaveAs
    <3>2. s # <<>>
      BY <3>1 DEF Shape
    <3>3. \A d : MayFollow(Top(p), d) => MayFollow(s[Len(s)], d) /\ d.call \in {"clean", "take", "renew", "close"}
      BY <2>1, <3>1 DEF MayFollow, LockCalls, UnlockCalls, Saving, Writing, Opening, Replacing
    <3>4. todo'[p][1] = s[1]
      BY <2>1, <3>1, <3>2, <3>3, BecomeFacts
    <3> QED
      BY <1>a, <1>b, <3>1, <3>4
  <2> QED
    BY <2>1, <2>2, <2>3
<1> QED
  BY <1>1, <1>2, <1>3, <1>4, <1>5, <1>7, <1>8, <1>9

\* p is about to remove only what it was, or the file of the window it cleans.
LEMMA RemovesStep ==
  ASSUME TInv, NEW p \in Editor, Step(p), NewInv(p), NEW f \in Plain, Removes(p, f)'
  PROVE  Removes(p, f) \/ (Clean(p) /\ ed[p].delete_file /\ ed[p].file = f)
<1>a. todo \in [Editor -> Seq(Calling)]
  BY DEF TInv, CallsInv
<1>b. ASSUME EndWith(p, <<>>) PROVE FALSE
  <2>1. todo'[p] = <<>>
    BY <1>a, <1>b DEF EndWith
  <2>2. Len(todo'[p]) = 0
    BY <2>1
  <2> QED
    BY <2>2, RemovesFirst
<1>c. ASSUME todo[p] # <<>>, Done(p) PROVE Removes(p, f)
  BY <1>c, RemovesDone
<1>d. ASSUME todo[p] # <<>>, NEW kind \in {LockCalls, UnlockCalls, Saving, Opening}, Top(p).call \in kind,
             \E name \in kind : Goto(p, name)
      PROVE  Removes(p, f)
  BY <1>d, RemovesGoto
<1>1. CASE \/ Lock(p) \/ LockRead(p) \/ LockAnswer(p) \/ LockUnlink(p) \/ LockSymlink(p)
  <2>1. todo[p] # <<>> /\ Top(p).call \in LockCalls /\ (Done(p) \/ \E name \in LockCalls : Goto(p, name))
    BY <1>1 DEF Lock, LockRead, LockAnswer, LockUnlink, LockSymlink, Calls, LockCalls
  <2> QED
    BY <1>c, <1>d, <2>1
<1>2. CASE \/ Unlock(p) \/ UnlockRead(p) \/ UnlockUnlink(p)
  <2>1. todo[p] # <<>> /\ Top(p).call \in UnlockCalls /\ (Done(p) \/ \E name \in UnlockCalls : Goto(p, name))
    BY <1>2 DEF Unlock, UnlockRead, UnlockUnlink, Unlocked, Calls, UnlockCalls
  <2> QED
    BY <1>c, <1>d, <2>1
<1>3. CASE \/ Save(p) \/ SaveTemp(p) \/ SaveOpen(p) \/ SaveWrite(p) \/ SaveBackup(p) \/ SaveReplace(p)
  <2>1. todo[p] # <<>> /\ Top(p).call \in Saving
    BY <1>3 DEF Save, SaveTemp, SaveOpen, SaveWrite, SaveBackup, SaveReplace, Calls, Saving, Writing
  <2>2. Done(p) \/ \E name \in Saving : Goto(p, name)
    BY <1>3 DEF Save, SaveTemp, SaveOpen, SaveWrite, SaveBackup, SaveReplace, AfterWrite, Returns, Saving, Writing
  <2> QED
    BY <1>c, <1>d, <2>1, <2>2
<1>4. CASE Open(p) \/ Create(p)
  <2>1. todo[p] # <<>> /\ Top(p).call \in Opening
    BY <1>4 DEF Open, Create, Calls, Opening
  <2>2. EndWith(p, <<>>) \/ \E name \in Opening : Goto(p, name)
    BY <1>4 DEF Open, Create, Opening
  <2> QED
    BY <1>b, <1>d, <2>1, <2>2
<1>5. CASE Exists(p) \/ Named(p) \/ Modified(p) \/ Take(p) \/ Unlink(p) \/ Leave(p)
  <2>1. todo[p] # <<>> /\ (Done(p) \/ EndWith(p, <<>>))
    BY <1>5 DEF Exists, Named, Modified, Take, Unlink, Leave, Calls
  <2> QED
    BY <1>b, <1>c, <2>1
<1>6. CASE Read(p)
  <2>1. todo[p] # <<>> /\ Top(p).call = "read"
    BY <1>6 DEF Read, Calls
  <2>2. CASE Done(p)
    BY <1>c, <2>1, <2>2
  <2>3. CASE ~Done(p)
    <3>1. Top(p).file \in Filtered /\ EndWith(p, If(new[p].delete_file, <<Call("unlink", Top(p).file)>>))
      BY <1>6, <2>3 DEF Read
    <3>2. todo'[p] = <<>> \/ todo'[p] = <<Call("unlink", Top(p).file)>>
      BY <1>a, <3>1 DEF EndWith, If
    <3>3. ~(todo'[p] = <<>>)
      <4>1. 1 <= Len(todo'[p])
        BY RemovesFirst
      <4>2. todo'[p] = <<>> => Len(todo'[p]) = 0
        OBVIOUS
      <4> QED
        BY <4>1, <4>2
    <3>4. PICK c : c = Call("unlink", Top(p).file)
      OBVIOUS
    <3>5. todo'[p] = <<c>> /\ c.file = Top(p).file
      BY <3>2, <3>3, <3>4 DEF Call
    <3>6. Len(todo'[p]) = 1 /\ todo'[p][1] = c
      BY <3>5
    <3>7. Top(p).file = f
      BY <3>5, <3>6, RemovesFirst
    <3> QED
      BY <3>1, <3>7 DEF Plain
  <2> QED
    BY <2>2, <2>3
<1>7. CASE Clean(p)
  BY <1>7, RemovesCleaned
<1>8. CASE Saved(p) \/ SavedAs(p)
  BY <1>8, AfterSave
<1>9. CASE Crash(p)
  <2>1. EndWith(p, <<>>)
    BY <1>9 DEF Crash, EndWith
  <2> QED
    BY <1>b, <2>1
<1> QED
  BY <1>1, <1>2, <1>3, <1>4, <1>5, <1>6, <1>7, <1>8, <1>9, RemovesCommand DEF Step

\* A file may be removed if it could be before, or is created now.
LEMMA MayRemoveStep ==
  ASSUME TInv, NEW p \in Editor, Step(p), NewInv(p), NEW f \in Plain, MayRemove(p, f)'
  PROVE  MayRemove(p, f) \/ (Create(p) /\ disk[At(f)] = Absent)
<1>a. ed \in [Editor -> Windows]
  BY DEF TInv, DataInv
<1>1. CASE ed'[p].delete_file /\ ed'[p].file = f /\ ~Succeeding(p)'
  <2>1. Named(p) \/ Crash(p) => ~ed'[p].delete_file
    BY <1>a DEF Named, Crash, Window, Windows
  <2>2. ~Succeeding(p)
    BY <1>1, <2>1, SucceedingStep
  <2> QED
    BY <1>1, <2>2, WindowStep DEF MayRemove
<1>2. CASE new'[p].delete_file /\ new'[p].file = f
  BY <1>2, NewStep DEF MayRemove
<1>3. CASE Removes(p, f)'
  <2>1. CASE Clean(p) /\ ed[p].delete_file /\ ed[p].file = f
    <3>1. todo[p] # <<>> /\ Top(p).call = "clean"
      BY <2>1 DEF Clean, Calls
    <3>2. ~Is(p, 1, {"saved", "saved_as"}) /\ ~Is(p, 1, {"named"}) /\ ~Is(p, 1, UnlockCalls)
      BY <3>1, TopFacts DEF UnlockCalls
    <3> QED
      BY <2>1, <3>2 DEF MayRemove, Succeeding
  <2> QED
    BY <1>3, <2>1, RemovesStep DEF MayRemove
<1> QED
  BY <1>1, <1>2, <1>3 DEF MayRemove

\* After a save no file is to be removed any more.
LEMMA SavedStays ==
  ASSUME TInv, NEW p \in Editor, NewInv(p), SaveWrite(p) \/ SaveReplace(p), Done(p), result'[p], NEW f \in Plain
  PROVE  ~MayRemove(p, f)'
<1>1. todo[p] # <<>> /\ Top(p).call \in {"write", "replace"} /\ new' = new
  BY DEF SaveWrite, SaveReplace, Calls
<1>2. Top(p).call \in Saving /\ Top(p).call \notin {"take", "read", "clean", "unlink"} \cup UnlockCalls
  BY <1>1 DEF Saving, Writing, UnlockCalls
<1>3. todo'[p][1].call \in {"saved", "saved_as"} /\ Len(todo'[p]) > 0 /\ Len(todo'[p]) \in Nat
  BY <1>1, <1>2, SavedFirst, DoneFacts DEF Shape
<1>4. Succeeding(p)'
  BY <1>3 DEF Succeeding, Is
<1>5. ~Removes(p, f)'
  BY <1>3, RemovesFirst DEF UnlockCalls
<1>6. ~(new[p].delete_file /\ new[p].file = f)
  <2>1. Top(p) = todo[p][1] /\ todo[p] \in Seq(Calling)
    BY <1>1, TopFacts DEF Shape
  <2> QED
    BY <1>2, <2>1, NotLoading DEF NewInv
<1> QED
  BY <1>1, <1>4, <1>5, <1>6 DEF MayRemove

\* While an editor is open, the others change nothing that would remove its files.
LEMMA OtherRemoves ==
  ASSUME TInv, Alone, ~together, NEW p \in Editor, Step(p), NEW q \in alive', q # p, NewInv(q),
         NEW f \in Plain, MayRemove(q, f)'
  PROVE  q \in alive /\ MayRemove(q, f) /\ Active(q) /\ disk' = disk /\ acknowledged' = acknowledged
<1>1. q \in Editor
  BY DataStep DEF DataInv
<1>2. todo'[q] = todo[q] /\ ed'[q] = ed[q] /\ new'[q] = new[q] /\ q \in alive
  BY <1>1, Frame
<1>3. \A k, names : Is(q, k, names)' <=> Is(q, k, names)
  BY <1>2 DEF Is
<1>4. ASSUME ~Active(q) PROVE FALSE
  <2>1. todo[q] = <<>> /\ ed[q].file = Closed /\ f # Closed
    BY <1>4, PathFacts DEF Active, Plain
  <2>2. \A names : ~Is(q, 1, names) /\ ~Is(q, 2, names)
    <3>1. Len(todo[q]) = 0
      BY <2>1
    <3> QED
      BY <3>1 DEF Is
  <2>3. ~Removes(q, f)'
    BY <1>3, <2>2 DEF Removes
  <2>4. ~(new[q].delete_file /\ new[q].file = f)
    <3>1. todo[q] \in Seq(Calling)
      BY <1>1 DEF TInv, CallsInv
    <3> QED
      BY <2>1, <3>1, NotLoading DEF NewInv
  <2> QED
    BY <1>2, <2>1, <2>3, <2>4 DEF MayRemove
<1>5. disk' = disk /\ acknowledged' = acknowledged
  BY <1>2, <1>4, OthersStill
<1>6. result'[q] = result[q]
  <2>1. Start(p) \/ Crash(p)
    BY <1>2, <1>4, StepActive DEF Alone
  <2> QED
    BY <1>1, <2>1 DEF Start, Crash, Forget, TInv, DataInv
<1>7. (Succeeding(q)' <=> Succeeding(q)) /\ (Removes(q, f)' <=> Removes(q, f))
  BY <1>2, <1>3, <1>6 DEF Succeeding, Removes
<1> QED
  BY <1>2, <1>4, <1>5, <1>7 DEF MayRemove

---------------------------------------------------------------------------
(* Nothing saved is lost *)

\* The acknowledged version stays where it was but in the file itself.
LEMMA KeptThere ==
  ASSUME NEW f \in Plain, KeptElsewhere(f), acknowledged'[f] = acknowledged[f] \/ acknowledged'[f] = 0,
         ASSUME NEW q \in {Backup(f)} \cup Spare(f), acknowledged[f] # 0, disk[q] >= acknowledged[f]
         PROVE  disk'[q] >= acknowledged[f] /\ (q \in Spare(f) => q \in Spare(f)')
  PROVE  KeptElsewhere(f)'
<1>1. CASE acknowledged'[f] = 0
  <2>1. Holds(f, Backup(f))'
    BY <1>1 DEF Holds
  <2> QED
    BY <2>1 DEF KeptElsewhere, Backup
<1>2. CASE acknowledged'[f] = acknowledged[f] /\ acknowledged[f] # 0
  <2>1. PICK q \in {Backup(f)} \cup Spare(f) : Holds(f, q)
    BY DEF KeptElsewhere
  <2>2. disk[q] >= acknowledged[f]
    BY <1>2, <2>1 DEF Holds
  <2>3. disk'[q] >= acknowledged[f] /\ (q \in Spare(f) => q \in Spare(f)')
    BY <1>2, <2>2
  <2>4. Holds(f, q)'
    BY <1>2, <2>3 DEF Holds
  <2>5. q \in {Backup(f)}' \/ q \in Spare(f)'
    BY <2>3 DEF Backup
  <2> QED
    BY <2>4, <2>5 DEF KeptElsewhere
<1> QED
  BY <1>1, <1>2

\* A path is taken by another save only when that save writes it.
LEMMA SpareStep ==
  ASSUME TInv, NEW p \in Editor, Step(p), NEW f, NEW t \in Spare(f),
         Is(p, 1, Writing)' /\ savename'[p] = t => Top(p)'.file = f
  PROVE  t \in Spare(f)'
<1>1. alive \subseteq Editor /\ alive' \subseteq Editor
  BY DataStep DEF TInv, DataInv
<1>2. ASSUME NEW q \in alive', Is(q, 1, Writing)', savename'[q] = t PROVE Top(q)'.file = f
  <2>1. CASE q = p
    BY <1>2, <2>1
  <2>2. CASE q # p
    <3>1. todo'[q] = todo[q] /\ savename'[q] = savename[q] /\ q \in alive
      BY <1>1, <2>2, Frame
    <3>2. Is(q, 1, Writing) /\ Top(q)' = Top(q)
      BY <1>2, <3>1 DEF Is, Top
    <3> QED
      BY <1>2, <3>1, <3>2 DEF Spare
  <2> QED
    BY <2>1, <2>2
<1>3. t \in Temps
  BY DEF Spare
<1> QED
  BY <1>2, <1>3 DEF Spare, Temps

\* When the file does not become the backup the save is over.
LEMMA BackupFails ==
  ASSUME TInv, NEW p \in Editor, SaveBackup(p), Done(p)
  PROVE  disk' = disk
<1>1. todo[p] # <<>> /\ Top(p).call = "backup"
  BY DEF SaveBackup, Calls
<1>2. ~Goto(p, "replace")
  <2>1. Len(todo[p]) \in Nat
    BY <1>1, TopFacts
  <2>2. Goto(p, "replace") => Len(todo'[p]) = Len(todo[p])
    BY <1>1, GotoFacts DEF Saving, Writing
  <2>3. Len(todo'[p]) = Len(todo[p]) - 1
    BY <1>1, DoneFacts
  <2> QED
    BY <2>1, <2>2, <2>3
<1> QED
  BY <1>2 DEF SaveBackup

\* A file that becomes the backup leaves the new text in the temporary file.
LEMMA BackupKeeps ==
  ASSUME TInv, Alone, NEW p \in Editor, p \in alive, SaveBackup(p), ~Done(p), WriteInv(p),
         NEW f \in Plain, f = Top(p).file
  PROVE  KeptElsewhere(f)' /\ acknowledged' = acknowledged
<1>1. /\ todo[p] # <<>> /\ Top(p).call = "backup" /\ ed' = ed /\ alive' = alive /\ savename' = savename
      /\ Goto(p, "replace") /\ Rename(At(Top(p).file), Backup(Top(p).file)) /\ acknowledged' = acknowledged
  BY DEF SaveBackup, Calls, Returns
<1>2. PICK t : t = savename[p]
  OBVIOUS
<1>3. t \in Temps /\ f \in File
  BY <1>1, <1>2, SavingFacts DEF Plain
<1>4. /\ disk[t] = ed[p].text
      /\ acknowledged[f] = 0 \/ ed[p].text >= acknowledged[f]
  <2>1. "backup" \in {"backup", "replace"} /\ "backup" \in Saving \ {"save"}
    BY DEF Saving, Writing
  <2> QED
    BY <1>1, <1>2, <2>1, TopFacts DEF WriteInv
<1>5. disk'[t] = disk[t]
  <2>1. t # At(f) /\ t # Backup(f) /\ t \in Path
    BY <1>3, PathsApart, PathFacts
  <2> QED
    BY <1>1, <1>2, <2>1 DEF Rename, TInv, DataInv
<1>6. t \in Spare(f)'
  <2>1. \A q \in alive' : Is(q, 1, Writing)' /\ savename'[q] = t => Top(q)'.file = f
    <3> SUFFICES ASSUME NEW q \in alive', Is(q, 1, Writing)' PROVE Top(q)'.file = f
      OBVIOUS
    <3>1. q \in Editor /\ q \in alive
      BY <1>1 DEF TInv, DataInv
    <3>2. q = p
      <4>1. ASSUME q # p PROVE FALSE
        <5>1. todo'[q] = todo[q]
          BY <1>1, <3>1, <4>1 DEF Goto, Become, TInv, CallsInv
        <5>2. Active(q) /\ Active(p)
          BY <1>1, <5>1 DEF Active, Is
        <5> QED
          BY <3>1, <4>1, <5>2 DEF Alone
      <4> QED
        BY <4>1
    <3>3. Top(p)' = Call("replace", Top(p).file)
      BY <1>1, LoadingGoto DEF Saving, Writing
    <3> QED
      BY <1>2, <3>2, <3>3 DEF Call
  <2> QED
    BY <1>3, <2>1 DEF Spare, Temps
<1>7. Holds(f, t)'
  BY <1>1, <1>4, <1>5 DEF Holds
<1>8. t \in ({Backup(f)} \cup Spare(f))'
  BY <1>6
<1>9. KeptElsewhere(f)'
  BY <1>7, <1>8 DEF KeptElsewhere
<1> QED
  BY <1>1, <1>2, <1>9

\* The other places are left alone, or written with what is no older.
LEMMA ElsewhereStep ==
  ASSUME TInv, Alone, option_save_mode # "quick", NEW p \in Editor, Step(p), WriteInv(p), NEW f \in Plain,
         KeptElsewhere(f), acknowledged'[f] = acknowledged[f] \/ acknowledged'[f] = 0,
         SaveReplace(p) /\ f = Top(p).file => disk' = disk
  PROVE  KeptElsewhere(f)'
<1>a. /\ disk \in [Path -> Absent..MaxVersion] /\ ed[p].text \in Int /\ f \in File
      /\ acknowledged[f] \in Int /\ acknowledged[f] >= -1 /\ savename \in [Editor -> Path \cup {NoPath}]
      /\ Absent = -2 /\ Broken = -1
  <2>1. acknowledged[f] \in Broken..MaxVersion /\ ed[p].text \in Broken..MaxVersion
    BY EdFacts DEF TInv, DataInv, Plain
  <2> QED
    BY <2>1, PathFacts DEF TInv, DataInv, Plain
<1>b. ASSUME NEW q \in {Backup(f)} \cup Spare(f)
      PROVE  /\ q \in Path /\ \A g : q # At(g) /\ (q = Backup(g) => g = f)
             /\ q \in Temps => q \in Spare(f) /\ \A r : q # Backup(r)
  BY <1>a, PathsApart, PathFacts DEF Spare
<1>c. p \in alive
  BY StepActive
<1>d. ASSUME ~Is(p, 1, Saving \ {"save"})', disk' = disk PROVE KeptElsewhere(f)'
  <2>1. ~Is(p, 1, Writing)'
    BY <1>d DEF Is, Saving, Writing
  <2>2. \A t \in Spare(f) : t \in Spare(f)'
    BY <2>1, SpareStep
  <2>3. ASSUME NEW q \in {Backup(f)} \cup Spare(f), acknowledged[f] # 0, disk[q] >= acknowledged[f]
        PROVE  disk'[q] >= acknowledged[f] /\ (q \in Spare(f) => q \in Spare(f)')
    BY <1>d, <2>2, <2>3
  <2> QED
    BY <2>3, KeptThere
<1>e. ASSUME todo[p] # <<>>, Top(p).call \in Writing, savename' = savename, NEW name \in Saving \ {"save"},
             Goto(p, name)
      PROVE  \A t \in Spare(f) : t \in Spare(f)'
  <2>1. ASSUME NEW t \in Spare(f), savename'[p] = t PROVE Top(p)'.file = f
    <3>1. Top(p)' = Call(name, Top(p).file)
      BY <1>e, LoadingGoto DEF Saving
    <3>2. Is(p, 1, Writing)
      BY <1>e, TopFacts
    <3>3. Top(p).file = f
      BY <1>c, <1>e, <2>1, <3>2 DEF Spare
    <3> QED
      BY <3>1, <3>3 DEF Call
  <2> QED
    BY <2>1, SpareStep
<1>f. ASSUME todo[p] # <<>>, Top(p).call \in Saving, Done(p) PROVE ~Is(p, 1, Saving \ {"save"})'
  BY <1>f, WriteDone
<1>g. todo[p] # <<>> /\ Top(p).call \in Writing =>
        /\ Top(p).file \in File /\ savename[p] \in Path
        /\ \A q \in {Backup(f)} \cup Spare(f) : q = savename[p] => q \in Spare(f) /\ Top(p).file = f
  <2> SUFFICES ASSUME todo[p] # <<>>, Top(p).call \in Writing
               PROVE  /\ Top(p).file \in File /\ savename[p] \in Path
                      /\ \A q \in {Backup(f)} \cup Spare(f) : q = savename[p] => q \in Spare(f) /\ Top(p).file = f
    OBVIOUS
  <2>1. Top(p).file \in File /\ savename[p] \in {At(Top(p).file)} \cup Temps /\ savename[p] \in Path
    BY SavingFacts DEF Saving, Writing
  <2>2. Is(p, 1, Writing)
    BY TopFacts
  <2>3. ASSUME NEW q \in {Backup(f)} \cup Spare(f), q = savename[p] PROVE q \in Spare(f) /\ Top(p).file = f
    <3>1. q \in Spare(f)
      BY <1>b, <2>1, <2>3
    <3> QED
      BY <1>c, <2>2, <2>3, <3>1 DEF Spare
  <2> QED
    BY <2>1, <2>3
<1>h. todo[p] # <<>> =>
        /\ Top(p).call = "open_save" => disk[savename[p]] \in {Absent, 0} \/ acknowledged[Top(p).file] <= 0
        /\ Top(p).call = "write" => fd[p] = savename[p]
        /\ Top(p).call \in Writing => acknowledged[Top(p).file] = 0 \/ ed[p].text >= acknowledged[Top(p).file]
  <2>1. Writing \subseteq Saving \ {"save"}
    BY DEF Saving, Writing
  <2> QED
    BY <2>1, TopFacts DEF WriteInv
<1>1. CASE Save(p)
  <2>1. todo[p] # <<>> /\ Top(p).call \in Saving /\ disk' = disk
    BY <1>1 DEF Save, Calls, Saving
  <2>2. CASE Done(p)
    BY <1>d, <1>f, <2>1, <2>2
  <2>3. CASE ~Done(p)
    <3>1. savename'[p] \in {At(Top(p).file), NoPath}
      BY <1>1, <1>a, <2>3 DEF Save, Returns
    <3>2. savename'[p] \notin Temps
      BY <3>1, PathsApart
    <3>3. \A t \in Spare(f) : t \in Spare(f)'
      BY <3>2, SpareStep DEF Spare
    <3>4. ASSUME NEW q \in {Backup(f)} \cup Spare(f), acknowledged[f] # 0, disk[q] >= acknowledged[f]
          PROVE  disk'[q] >= acknowledged[f] /\ (q \in Spare(f) => q \in Spare(f)')
      BY <2>1, <3>3, <3>4
    <3> QED
      BY <3>4, KeptThere
  <2> QED
    BY <2>2, <2>3
<1>2. CASE SaveTemp(p)
  <2>1. todo[p] # <<>> /\ Top(p).call \in Saving
    BY <1>2 DEF SaveTemp, Calls, Saving
  <2>2. CASE Done(p) /\ disk' = disk
    BY <1>d, <1>f, <2>1, <2>2
  <2>3. CASE ~(Done(p) /\ disk' = disk)
    <3>1. PICK t0 : t0 = FreeTemp(disk)
      OBVIOUS
    <3>2. /\ disk' = [disk EXCEPT ![t0] = 0] /\ savename'[p] = t0 /\ \E q \in Temps : IsFree(disk, q)
      BY <1>2, <1>a, <2>3, <3>1 DEF SaveTemp, Returns
    <3>3. disk[t0] = Absent
      BY <3>1, <3>2, PathFacts DEF IsFree
    <3>4. ASSUME NEW q \in {Backup(f)} \cup Spare(f), acknowledged[f] # 0, disk[q] >= acknowledged[f]
          PROVE  disk'[q] >= acknowledged[f] /\ (q \in Spare(f) => q \in Spare(f)')
      <4>1. q # t0
        BY <1>a, <3>3, <3>4
      <4>2. disk'[q] = disk[q]
        BY <1>a, <1>b, <3>2, <4>1
      <4>3. q \in Spare(f) => q \in Spare(f)'
        BY <3>2, <4>1, SpareStep
      <4> QED
        BY <3>4, <4>2, <4>3
    <3> QED
      BY <3>4, KeptThere
  <2> QED
    BY <2>2, <2>3
<1>3. CASE SaveOpen(p)
  <2>1. todo[p] # <<>> /\ Top(p).call = "open_save" /\ Top(p).call \in Writing /\ Top(p).call \in Saving
        /\ savename' = savename
    BY <1>3 DEF SaveOpen, Calls, Saving, Writing
  <2>2. CASE Done(p) /\ disk' = disk
    BY <1>d, <1>f, <2>1, <2>2
  <2>3. CASE ~(Done(p) /\ disk' = disk)
    <3>1. Goto(p, "write") /\ disk' = [disk EXCEPT ![savename[p]] = Broken]
      BY <1>3, <2>3 DEF SaveOpen, Returns
    <3>2. \A t \in Spare(f) : t \in Spare(f)'
      BY <1>e, <2>1, <3>1 DEF Saving, Writing
    <3>3. ASSUME NEW q \in {Backup(f)} \cup Spare(f), acknowledged[f] # 0, disk[q] >= acknowledged[f]
          PROVE  disk'[q] >= acknowledged[f] /\ (q \in Spare(f) => q \in Spare(f)')
      <4>1. CASE q = savename[p]
        <5>1. (disk[q] \in {Absent, 0} \/ acknowledged[f] <= 0) /\ disk'[q] = Broken
          BY <1>a, <1>g, <1>h, <2>1, <3>1, <4>1
        <5>2. acknowledged[f] = -1
          BY <1>a, <3>3, <5>1
        <5> QED
          BY <1>a, <3>2, <5>1, <5>2
      <4>2. CASE q # savename[p]
        <5>1. disk'[q] = disk[q]
          BY <1>a, <1>b, <3>1, <4>2
        <5> QED
          BY <3>2, <3>3, <5>1
      <4> QED
        BY <4>1, <4>2
    <3> QED
      BY <3>3, KeptThere
  <2> QED
    BY <2>2, <2>3
<1>4. CASE SaveWrite(p)
  <2>1. todo[p] # <<>> /\ Top(p).call = "write" /\ Top(p).call \in Writing /\ Top(p).call \in Saving
        /\ savename' = savename
    BY <1>4 DEF SaveWrite, Calls, Saving, Writing
  <2>2. Done(p) \/ \E name \in {"backup", "replace"} : Goto(p, name)
    BY <1>4 DEF SaveWrite, AfterWrite, Returns
  <2>3. \A t \in Spare(f) : t \in Spare(f)'
    <3>1. CASE Done(p)
      <4>1. ~Is(p, 1, Writing)'
        BY <1>f, <2>1, <3>1 DEF Is, Saving, Writing
      <4> QED
        BY <4>1, SpareStep
    <3>2. {"backup", "replace"} \subseteq Saving \ {"save"}
      BY DEF Saving, Writing
    <3> QED
      BY <1>e, <2>1, <2>2, <3>1, <3>2
  <2>4. disk' = disk \/ disk' = [disk EXCEPT ![savename[p]] = ed[p].text]
    BY <1>4, <1>h, <2>1 DEF SaveWrite
  <2>5. ASSUME NEW q \in {Backup(f)} \cup Spare(f), acknowledged[f] # 0, disk[q] >= acknowledged[f]
        PROVE  disk'[q] >= acknowledged[f] /\ (q \in Spare(f) => q \in Spare(f)')
    <3>1. CASE disk'[q] = disk[q]
      BY <2>3, <2>5, <3>1
    <3>2. CASE q = savename[p]
      <4>1. Top(p).file = f
        BY <1>g, <2>1, <3>2
      <4>2. ed[p].text >= acknowledged[f]
        BY <1>h, <2>1, <2>5, <4>1
      <4>3. disk'[q] \in {disk[q], ed[p].text}
        BY <1>a, <1>b, <2>4, <3>2
      <4> QED
        BY <2>3, <2>5, <4>2, <4>3
    <3>3. CASE q # savename[p]
      BY <1>a, <1>b, <2>4, <3>1, <3>3
    <3> QED
      BY <3>2, <3>3
  <2> QED
    BY <2>5, KeptThere
<1>5. CASE SaveBackup(p)
  <2>1. todo[p] # <<>> /\ Top(p).call = "backup" /\ Top(p).call \in Writing /\ Top(p).call \in Saving
        /\ savename' = savename
    BY <1>5 DEF SaveBackup, Calls, Saving, Writing
  <2>2. CASE Done(p)
    BY <1>5, <1>d, <1>f, <2>1, <2>2, BackupFails
  <2>3. CASE ~Done(p) /\ Top(p).file = f
    BY <1>5, <1>c, <2>3, BackupKeeps
  <2>4. CASE ~Done(p) /\ Top(p).file # f
    <3>1. PICK g : g = Top(p).file
      OBVIOUS
    <3>2. /\ Goto(p, "replace") /\ disk' = [disk EXCEPT ![Backup(g)] = disk[At(g)], ![At(g)] = Absent]
      BY <1>5, <2>4, <3>1 DEF SaveBackup, Returns, Rename
    <3>3. \A t \in Spare(f) : t \in Spare(f)'
      BY <1>e, <2>1, <3>2 DEF Saving, Writing
    <3>4. ASSUME NEW q \in {Backup(f)} \cup Spare(f), acknowledged[f] # 0, disk[q] >= acknowledged[f]
          PROVE  disk'[q] >= acknowledged[f] /\ (q \in Spare(f) => q \in Spare(f)')
      <4>1. q # At(g) /\ q # Backup(g) /\ q \in Path
        BY <1>b, <2>4, <3>1
      <4>2. disk'[q] = disk[q]
        BY <1>a, <3>2, <4>1
      <4> QED
        BY <3>3, <3>4, <4>2
    <3> QED
      BY <3>4, KeptThere
  <2> QED
    BY <2>2, <2>3, <2>4
<1>6. CASE SaveReplace(p)
  <2>1. todo[p] # <<>> /\ Top(p).call = "replace" /\ Top(p).call \in Writing /\ Top(p).call \in Saving /\ Done(p)
    BY <1>6 DEF SaveReplace, Calls, Returns, Saving, Writing
  <2>2. CASE disk' = disk
    BY <1>d, <1>f, <2>1, <2>2
  <2>3. CASE disk' # disk
    <3>1. PICK g : g = Top(p).file
      OBVIOUS
    <3>2. g # f /\ disk' = [disk EXCEPT ![At(g)] = disk[savename[p]], ![savename[p]] = Absent]
      BY <1>6, <2>3, <3>1 DEF SaveReplace, Rename
    <3>3. \A t \in Spare(f) : t \in Spare(f)'
      <4>1. ~Is(p, 1, Writing)'
        BY <1>f, <2>1 DEF Is, Saving, Writing
      <4> QED
        BY <4>1, SpareStep
    <3>4. ASSUME NEW q \in {Backup(f)} \cup Spare(f), acknowledged[f] # 0, disk[q] >= acknowledged[f]
          PROVE  disk'[q] >= acknowledged[f] /\ (q \in Spare(f) => q \in Spare(f)')
      <4>1. q # At(g) /\ q # savename[p] /\ q \in Path
        BY <1>b, <1>g, <2>1, <3>1, <3>2
      <4>2. disk'[q] = disk[q]
        BY <1>a, <3>2, <4>1
      <4> QED
        BY <3>3, <3>4, <4>2
    <3> QED
      BY <3>4, KeptThere
  <2> QED
    BY <2>2, <2>3
<1>7. CASE ~Saves(p) /\ ~SaveReplace(p)
  <2>1. ~Is(p, 1, Saving \ {"save"})'
    BY <1>7, CallsStep
  <2>2. CASE disk' = disk
    BY <1>d, <2>1, <2>2
  <2>3. CASE disk' # disk
    <3>1. PICK g : g = Top(p).file
      OBVIOUS
    <3>2. \E v : disk' = [disk EXCEPT ![At(g)] = v]
      <4>1. Create(p) \/ Unlink(p)
        BY <1>7, <2>3, DiskStep
      <4> QED
        BY <2>3, <3>1, <4>1 DEF Create, Unlink
    <3>3. ~Is(p, 1, Writing)'
      BY <2>1 DEF Is, Saving, Writing
    <3>4. \A t \in Spare(f) : t \in Spare(f)'
      BY <3>3, SpareStep
    <3>5. ASSUME NEW q \in {Backup(f)} \cup Spare(f), acknowledged[f] # 0, disk[q] >= acknowledged[f]
          PROVE  disk'[q] >= acknowledged[f] /\ (q \in Spare(f) => q \in Spare(f)')
      <4>1. disk'[q] = disk[q]
        BY <1>a, <1>b, <3>2
      <4> QED
        BY <3>4, <3>5, <4>1
    <3> QED
      BY <3>5, KeptThere
  <2> QED
    BY <2>2, <2>3
<1> QED
  BY <1>1, <1>2, <1>3, <1>4, <1>5, <1>6, <1>7 DEF Saves

\* The file is changed only when the version is kept elsewhere, or is not newer.
LEMMA KeptStep ==
  ASSUME TInv, Alone, option_save_mode # "quick", NEW p \in Editor, Step(p), WriteInv(p), NEW f \in Plain,
         Kept(f), MayRemove(p, f) => KeptElsewhere(f),
         acknowledged'[f] = acknowledged[f] \/ acknowledged'[f] = 0,
         SaveReplace(p) /\ f = Top(p).file => disk' = disk
  PROVE  Kept(f)'
<1>a. /\ disk \in [Path -> Absent..MaxVersion] /\ ed[p].text \in Int /\ f \in File
      /\ acknowledged[f] \in Int /\ acknowledged[f] >= -1 /\ Absent = -2 /\ Broken = -1
      /\ At(f) \in Path
  <2>1. acknowledged[f] \in Broken..MaxVersion /\ ed[p].text \in Broken..MaxVersion
    BY EdFacts DEF TInv, DataInv, Plain
  <2> QED
    BY <2>1, PathFacts DEF TInv, DataInv, Plain
<1>b. (\A g : At(f) = At(g) => f = g) /\ (\A g : At(f) # Backup(g)) /\ At(f) \notin Temps
  BY PathsApart
<1>c. p \in alive
  BY StepActive
<1>d. ASSUME KeptElsewhere(f) PROVE Kept(f)'
  <2>1. KeptElsewhere(f)'
    BY <1>d, ElsewhereStep
  <2> QED
    BY <2>1 DEF Kept
<1>e. ASSUME Holds(f, At(f)), acknowledged[f] = 0 \/ disk'[At(f)] >= acknowledged[f] PROVE Kept(f)'
  <2>1. acknowledged'[f] = 0 \/ (acknowledged'[f] = acknowledged[f] /\ disk'[At(f)] >= acknowledged[f])
    BY <1>e
  <2>2. acknowledged'[f] # 0 => disk'[At(f)] >= acknowledged'[f]
    BY <2>1
  <2>3. Holds(f, At(f))'
    BY <2>2 DEF Holds, At
  <2> QED
    BY <2>3 DEF Kept, At
<1>f. ASSUME todo[p] # <<>>, Top(p).call \in Writing
      PROVE  /\ savename[p] \in {At(Top(p).file)} \cup Temps /\ savename[p] \in Path
             /\ Top(p).call \in {"backup", "replace"} => savename[p] \in Temps
             /\ Top(p).call = "open_save" => disk[savename[p]] \in {Absent, 0} \/ acknowledged[Top(p).file] <= 0
             /\ Top(p).call = "write" => fd[p] = savename[p]
             /\ acknowledged[Top(p).file] = 0 \/ ed[p].text >= acknowledged[Top(p).file]
  <2>1. Writing \subseteq Saving \ {"save"}
    BY DEF Saving, Writing
  <2> QED
    BY <1>f, <2>1, SavingFacts, TopFacts DEF WriteInv
<1> SUFFICES ASSUME Holds(f, At(f)), acknowledged[f] # 0, disk[At(f)] >= acknowledged[f], disk' # disk
             PROVE  Kept(f)'
  BY <1>d, <1>e DEF Kept, Holds
<1>1. CASE Create(p) \/ Unlink(p)
  <2>1. PICK g : g = Top(p).file
    OBVIOUS
  <2>2. CASE Create(p)
    <3>1. disk[At(g)] = Absent /\ disk' = [disk EXCEPT ![At(g)] = 0]
      BY <2>1, <2>2 DEF Create
    <3>2. g # f
      BY <1>a, <3>1
    <3>3. disk'[At(f)] = disk[At(f)]
      BY <1>a, <1>b, <3>1, <3>2
    <3> QED
      BY <1>e, <3>3
  <2>3. CASE Unlink(p) /\ g = f
    <3>1. todo[p] # <<>> /\ Top(p).call = "unlink" /\ Top(p) = todo[p][1]
      BY <2>3, TopFacts DEF Unlink, Calls
    <3>2. Is(p, 1, {"unlink"})
      BY <3>1, TopFacts
    <3>3. Removes(p, f)
      BY <2>1, <2>3, <3>1, <3>2 DEF Removes
    <3> QED
      BY <1>d, <3>3 DEF MayRemove
  <2>4. CASE Unlink(p) /\ g # f
    <3>1. disk' = [disk EXCEPT ![At(g)] = Absent]
      BY <2>1, <2>4 DEF Unlink
    <3>2. disk'[At(f)] = disk[At(f)]
      BY <1>a, <1>b, <2>4, <3>1
    <3> QED
      BY <1>e, <3>2
  <2> QED
    BY <1>1, <2>2, <2>3, <2>4
<1>2. CASE SaveTemp(p)
  <2>1. PICK t : t = FreeTemp(disk)
    OBVIOUS
  <2>2. disk' = [disk EXCEPT ![t] = 0] /\ \E q \in Temps : IsFree(disk, q)
    BY <1>2, <2>1 DEF SaveTemp
  <2>3. t \in Temps
    BY <2>1, <2>2, PathFacts
  <2>4. disk'[At(f)] = disk[At(f)]
    BY <1>a, <1>b, <2>2, <2>3
  <2> QED
    BY <1>e, <2>4
<1>3. CASE SaveOpen(p)
  <2>1. todo[p] # <<>> /\ Top(p).call = "open_save" /\ Top(p).call \in Writing
    BY <1>3 DEF SaveOpen, Calls, Writing
  <2>2. disk' = [disk EXCEPT ![savename[p]] = Broken]
    BY <1>3 DEF SaveOpen
  <2>3. CASE savename[p] = At(f)
    <3>0. Top(p).file = f
      BY <1>b, <1>f, <2>1, <2>3
    <3>1. (disk[At(f)] \in {Absent, 0} \/ acknowledged[f] <= 0) /\ disk'[At(f)] = Broken
      BY <1>a, <1>f, <2>1, <2>2, <2>3, <3>0
    <3>2. acknowledged[f] = -1
      BY <1>a, <3>1
    <3>3. disk'[At(f)] >= acknowledged[f]
      BY <1>a, <3>1, <3>2
    <3> QED
      BY <1>e, <3>3
  <2>4. CASE savename[p] # At(f)
    <3>1. disk'[At(f)] = disk[At(f)]
      BY <1>a, <2>2, <2>4
    <3> QED
      BY <1>e, <3>1
  <2> QED
    BY <2>3, <2>4
<1>4. CASE SaveWrite(p)
  <2>1. todo[p] # <<>> /\ Top(p).call = "write" /\ Top(p).call \in Writing
    BY <1>4 DEF SaveWrite, Calls, Writing
  <2>2. disk' = [disk EXCEPT ![savename[p]] = ed[p].text]
    BY <1>4, <1>f, <2>1 DEF SaveWrite
  <2>3. CASE savename[p] = At(f)
    <3>1. Top(p).file = f
      BY <1>b, <1>f, <2>1, <2>3
    <3>2. disk'[At(f)] = ed[p].text /\ ed[p].text >= acknowledged[f]
      BY <1>a, <1>f, <2>1, <2>2, <2>3, <3>1
    <3>3. disk'[At(f)] >= acknowledged[f]
      BY <3>2
    <3> QED
      BY <1>e, <3>3
  <2>4. CASE savename[p] # At(f)
    <3>1. disk'[At(f)] = disk[At(f)]
      BY <1>a, <2>2, <2>4
    <3> QED
      BY <1>e, <3>1
  <2> QED
    BY <2>3, <2>4
<1>5. CASE SaveBackup(p)
  <2>0. ~Done(p)
    BY <1>5, BackupFails
  <2>1. PICK g : g = Top(p).file
    OBVIOUS
  <2>2. CASE g = f
    <3>1. KeptElsewhere(f)'
      BY <1>5, <1>c, <2>0, <2>1, <2>2, BackupKeeps
    <3> QED
      BY <3>1 DEF Kept
  <2>3. CASE g # f
    <3>1. disk' = [disk EXCEPT ![Backup(g)] = disk[At(g)], ![At(g)] = Absent]
      BY <1>5, <2>0, <2>1 DEF SaveBackup, Rename, Returns
    <3>2. disk'[At(f)] = disk[At(f)]
      BY <1>a, <1>b, <2>3, <3>1
    <3> QED
      BY <1>e, <3>2
  <2> QED
    BY <2>2, <2>3
<1>6. CASE SaveReplace(p)
  <2>1. todo[p] # <<>> /\ Top(p).call = "replace" /\ Top(p).call \in Writing
    BY <1>6 DEF SaveReplace, Calls, Writing
  <2>2. PICK g : g = Top(p).file
    OBVIOUS
  <2>3. g # f /\ disk' = [disk EXCEPT ![At(g)] = disk[savename[p]], ![savename[p]] = Absent]
    BY <1>6, <2>2 DEF SaveReplace, Rename
  <2>4. savename[p] # At(f)
    BY <1>b, <1>f, <2>1
  <2>5. disk'[At(f)] = disk[At(f)]
    BY <1>a, <1>b, <2>3, <2>4
  <2> QED
    BY <1>e, <2>5
<1>7. ~Save(p)
  BY DEF Save
<1> QED
  BY <1>1, <1>2, <1>3, <1>4, <1>5, <1>6, <1>7, DiskStep DEF Saves

LEMMA LossStep == TInv /\ SaveInv /\ Loads /\ LossInv /\ [Next]_vars => LossInv'
<1> SUFFICES ASSUME TInv, SaveInv, Loads, LossInv, [Next]_vars, ~together', option_save_mode' # "quick",
                    NEW f \in Plain
             PROVE  Kept(f)' /\ \A q \in alive' : MayRemove(q, f)' => KeptElsewhere(f)'
  BY DEF LossInv, Plain
<1>1. ASSUME NEW p \in Editor, Step(p)
      PROVE  Kept(f)' /\ \A q \in alive' : MayRemove(q, f)' => KeptElsewhere(f)'
  <2>1. ~together /\ option_save_mode # "quick"
    BY <1>1, ModeStep
  <2>2. p \in alive /\ Alone /\ WriteInv(p) /\ NewInv(p)
    BY <1>1, <2>1, StepActive DEF SaveInv, Loads
  <2>3. Kept(f) /\ \A q \in alive : MayRemove(q, f) => KeptElsewhere(f)
    BY <2>1 DEF LossInv
  <2>a. f \in File /\ alive' \subseteq Editor
    BY <1>1, DataStep DEF Plain, DataInv
  <2>4. CASE /\ SaveWrite(p) \/ SaveReplace(p)
             /\ f = Top(p).file /\ result'[p] /\ Done(p) /\ acknowledged'[f] = ed[p].text
             /\ disk'[At(f)] = ed[p].text
    <3>1. Kept(f)'
      <4>1. ed[p].text \in Int
        <5>1. ed[p].text \in Broken..MaxVersion
          BY EdFacts DEF TInv
        <5> QED
          BY <5>1, PathFacts
      <4>2. disk'[At(f)] >= acknowledged'[f]
        BY <2>4, <4>1
      <4>3. Holds(f, At(f))'
        BY <4>2 DEF Holds, At
      <4> QED
        BY <4>3 DEF Kept, At
    <3>2. ASSUME NEW q \in alive', MayRemove(q, f)' PROVE FALSE
      <4>1. CASE q = p
        BY <2>2, <2>4, <3>2, <4>1, SavedStays
      <4>2. CASE q # p
        <5>1. q \in alive /\ Active(q)
          BY <1>1, <2>1, <2>2, <2>a, <3>2, <4>2, OtherRemoves DEF Loads
        <5>2. Active(p)
          BY <2>4 DEF Active, SaveWrite, SaveReplace, Calls
        <5> QED
          BY <2>2, <4>2, <5>1, <5>2 DEF Alone
      <4> QED
        BY <4>1, <4>2
    <3> QED
      BY <3>1, <3>2
  <2>5. CASE /\ acknowledged'[f] = acknowledged[f] \/ acknowledged'[f] = 0
             /\ SaveReplace(p) /\ f = Top(p).file => disk' = disk
    <3>1. Kept(f)'
      BY <1>1, <2>1, <2>2, <2>3, <2>5, KeptStep
    <3>2. ASSUME KeptElsewhere(f) PROVE KeptElsewhere(f)'
      BY <1>1, <2>1, <2>2, <2>5, <3>2, ElsewhereStep
    <3>3. ASSUME NEW q \in alive', MayRemove(q, f)' PROVE KeptElsewhere(f)
      <4>1. CASE q = p
        <5>1. CASE MayRemove(p, f)
          BY <2>2, <2>3, <5>1
        <5>2. CASE disk[At(f)] = Absent
          <6>1. acknowledged[f] \in Int /\ acknowledged[f] >= -1 /\ Absent = -2
            <7>1. acknowledged[f] \in Broken..MaxVersion
              BY <2>a DEF TInv, DataInv
            <7> QED
              BY <7>1, PathFacts
          <6>2. CASE acknowledged[f] = 0
            BY <6>2 DEF KeptElsewhere, Holds
          <6>3. CASE acknowledged[f] # 0
            <7>1. ~Holds(f, At(f))
              BY <5>2, <6>1, <6>3 DEF Holds
            <7> QED
              BY <2>3, <7>1 DEF Kept
          <6> QED
            BY <6>2, <6>3
        <5> QED
          BY <1>1, <2>2, <3>3, <4>1, <5>1, <5>2, MayRemoveStep
      <4>2. CASE q # p
        <5>1. q \in alive /\ MayRemove(q, f)
          BY <1>1, <2>1, <2>2, <2>a, <3>3, <4>2, OtherRemoves DEF Loads
        <5> QED
          BY <2>3, <5>1
      <4> QED
        BY <4>1, <4>2
    <3> QED
      BY <3>1, <3>2, <3>3
  <2>6. Save(p) => ~SaveReplace(p)
    BY DEF Save, SaveReplace, Calls
  <2> QED
    BY <1>1, <2>2, <2>4, <2>5, <2>6, <2>a, Reported
<1>2. CASE UNCHANGED vars
  <2>1. /\ disk' = disk /\ alive' = alive /\ ed' = ed /\ new' = new /\ todo' = todo /\ result' = result
        /\ savename' = savename /\ acknowledged' = acknowledged /\ together' = together
        /\ option_save_mode' = option_save_mode
    BY <1>2 DEF vars, procVars, modeVars, historyVars
  <2>2. Kept(f) /\ \A q \in alive : MayRemove(q, f) => KeptElsewhere(f)
    BY <2>1 DEF LossInv
  <2>3. \A q, k, names : Is(q, k, names)' <=> Is(q, k, names)
    BY <2>1 DEF Is
  <2>4. (KeptElsewhere(f)' <=> KeptElsewhere(f)) /\ (Kept(f)' <=> Kept(f))
    BY <2>1, <2>3 DEF KeptElsewhere, Kept, Holds, Spare, Top, At, Backup, Temps
  <2>5. \A q : MayRemove(q, f)' <=> MayRemove(q, f)
    BY <2>1, <2>3 DEF MayRemove, Succeeding, Removes
  <2> QED
    BY <2>1, <2>2, <2>4, <2>5
<1> QED
  BY <1>1, <1>2 DEF Next

LEMMA InitLoss == Init => LossInv
<1> SUFFICES ASSUME Init, NEW f \in Plain PROVE Kept(f) /\ KeptElsewhere(f)
  BY DEF LossInv
<1>1. acknowledged[f] = 0
  BY DEF Init, Plain
<1>2. Holds(f, At(f)) /\ Holds(f, Backup(f))
  BY <1>1 DEF Holds
<1> QED
  BY <1>2 DEF Kept, KeptElsewhere

\* With safe saves or backups, a version whose save was reported done, or a newer one, is whole
\* in the file, its backup or a temporary file at every moment, wherever the process is killed and
\* however often, and whichever calls fail but one, for every number of processes, files and
\* changes.  That one is the open at the start of a save: when it fails though the file is there,
\* the version is given up until a save is reported done.  (It is given up too when the user has
\* an older text written over it; a filter must not write the file, and no other editor be open.)
THEOREM NothingSavedIsLostCorrect == Spec => []NothingSavedIsLost
<1>1. LossInv => NothingSavedIsLost
  <2> SUFFICES ASSUME LossInv, option_save_mode # "quick", ~together, NEW f \in File \ Filtered
               PROVE  \E q \in {At(f), Backup(f)} \cup Temps : acknowledged[f] # 0 => disk[q] >= acknowledged[f]
    BY DEF NothingSavedIsLost
  <2>1. Kept(f)
    BY DEF LossInv, Plain
  <2>2. PICK q \in {At(f), Backup(f)} \cup Temps : Holds(f, q)
    BY <2>1 DEF Kept, KeptElsewhere, Spare
  <2> QED
    BY <2>2 DEF Holds
<1>2. Init => TInv /\ SaveInv /\ Loads /\ LossInv
  BY InitTypes, InitSaves, InitLoads, InitLoss
<1>3. (TInv /\ SaveInv /\ Loads /\ LossInv) /\ [Next]_vars => (TInv /\ SaveInv /\ Loads /\ LossInv)'
  BY TypesStep, SaveInvStep, LoadsStep, LossStep
<1> QED
  BY <1>1, <1>2, <1>3, PTL DEF Spec
=============================================================================
