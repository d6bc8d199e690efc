----------------------------- MODULE Panel_proofs -----------------------------
(***************************************************************************)
(* What Panel promises for any number of files, sizes and changes by other *)
(* programs: the variables stay in their types, the summary is that of the *)
(* marked entries, nothing is marked that the user has not marked, the     *)
(* cursor stays on its file, and a manual reload shows the directory.      *)
(***************************************************************************)
EXTENDS Panel, FiniteSetTheorems, SequenceTheorems, FunctionTheorems, WellFoundedInduction, TLAPS

Fields == {"cwd", "list", "selected", "marked", "dirs_marked", "total", "is_panelized", "dir_stat"}

\* A list: not empty, of entries whose names differ.
IsList(l) ==
  /\ l \in Seq(Range(l)) /\ Len(l) \in Nat \ {0} /\ DOMAIN l = 1..Len(l)
  /\ \A i \in DOMAIN l : EntryOK(l[i])
  /\ \A i, j \in DOMAIN l : i # j => l[i].name # l[j].name

\* The lists have the same names.
SameNames(p, r) ==
  /\ DOMAIN r.list = DOMAIN p.list /\ Len(r.list) = Len(p.list)
  /\ \A i \in DOMAIN p.list : r.list[i].name = p.list[i].name

\* The entries of S that can be marked.
Named(p, S) == {i \in S : p.list[i].name # DotDot}

\* A panel as it may be between two statements, with a cursor that may be below the list.
Shape(p) ==
  /\ DOMAIN p = Fields /\ p.cwd \in Dir /\ p.is_panelized \in BOOLEAN /\ p.dir_stat \subseteq Dir
  /\ IsList(p.list) /\ p.selected \in Nat \ {0}

Tally(p) ==
  /\ p.marked = Cardinality(Marked(p))
  /\ \A i \in Marked(p) : p.list[i].name # DotDot

Good(p) == Shape(p) /\ Tally(p) /\ p.selected \in DOMAIN p.list

\* Each mark of r is one of p by its name, in the same directory or in its parent.
From(p, r) ==
  \A j \in Marked(r) : \E i \in Marked(p) :
    p.list[i].name = r.list[j].name /\ (r.cwd = p.cwd \/ r.cwd = "above")

\* The marks are those of the user.
Wanted(p, w) ==
  \A i \in Marked(p) :
    \/ <<p.cwd, p.list[i].name>> \in w
    \/ p.cwd = "above" /\ <<"below", p.list[i].name>> \in w

WorkType ==
  /\ size \in [Place -> 0..MaxSize] /\ changes \in 0..MaxChanges /\ fast_reload \in BOOLEAN
  /\ pc \in {"idle", "single", "many", "chmod", "command"}
  /\ op \in {"NONE", "COPY", "DELETE"} /\ force \in BOOLEAN
  /\ wanted \subseteq Dir \X AnyName

AtInv ==
  /\ pc \in {"single", "chmod"} => at \in DOMAIN panel.list
  /\ pc = "many" => at \in Nat \ {0}

PInv == WorkType /\ Good(panel) /\ AtInv /\ Wanted(panel, wanted)
-----------------------------------------------------------------------------
(* Lists *)

\* A function on 1..n is a list if its values are entries with different names.
LEMMA ListOf ==
  ASSUME NEW n \in Nat \ {0}, NEW l, l = [i \in 1..n |-> l[i]],
         \A i \in 1..n : EntryOK(l[i]),
         \A i, j \in 1..n : i # j => l[i].name # l[j].name
  PROVE  IsList(l) /\ Len(l) = n /\ DOMAIN l = 1..n
<1>1. l \in [1..n -> Range(l)] /\ DOMAIN l = 1..n
  BY DEF Range
<1>2. l \in Seq(Range(l))
  BY <1>1, SeqDef
<1>3. Len(l) \in Nat /\ DOMAIN l = 1..Len(l)
  BY <1>2, LenProperties
<1>4. Len(l) = n
  BY <1>1, <1>3
<1> QED
  BY <1>1, <1>2, <1>3, <1>4 DEF IsList

\* The marks are finitely many, and counted.
LEMMA MarkedFinite ==
  ASSUME NEW p, IsList(p.list)
  PROVE  /\ Marked(p) \subseteq 1..Len(p.list) /\ IsFiniteSet(Marked(p))
         /\ Cardinality(Marked(p)) \in Nat
         /\ Cardinality(Marked(p)) = 0 <=> Marked(p) = {}
<1>1. Marked(p) \subseteq 1..Len(p.list) /\ Len(p.list) \in Nat
  BY DEF Marked, IsList
<1>2. IsFiniteSet(1..Len(p.list))
  BY <1>1, FS_Interval
<1> QED
  BY <1>1, <1>2, FS_Subset, FS_CardinalityType, FS_EmptySet

\* A set of naturals that is not empty has a least element.
LEMMA Least ==
  ASSUME NEW S, S \subseteq Nat, S # {}
  PROVE  Min(S) \in S /\ \A y \in S : Min(S) <= y
<1> DEFINE R == OpToRel(<, Nat)
<1>1. \A m, n \in Nat : m < n => <<m, n>> \in R
  BY DEF OpToRel
<1>2. IsWellFoundedOn(R, Nat)
  BY NatLessThanWellFounded
<1> HIDE DEF R
<1>3. PICK x \in S : \A y \in S : ~ (<<y, x>> \in R)
  BY <1>2, WFMin
<1>4. \A y \in S : x <= y
  <2> SUFFICES ASSUME NEW y \in S, ~ (x <= y) PROVE FALSE
    OBVIOUS
  <2>1. <<y, x>> \in R
    BY <1>1
  <2> QED
    BY <1>3, <2>1
<1> QED
  BY <1>3, <1>4 DEF Min

\* The greatest of one number.
LEMMA MostOfOne ==
  ASSUME NEW i \in Int
  PROVE  Max({i}) = i
  BY DEF Max

\* The lesser of two numbers.
LEMMA LeastOfTwo ==
  ASSUME NEW m \in Nat, NEW n \in Nat
  PROVE  Min({m, n}) \in {m, n} /\ Min({m, n}) <= m /\ Min({m, n}) <= n
  BY Least

\* panel_get_file finds a mark, if there is one from i on, or the end of the list.
LEMMA FirstMarkedIn ==
  ASSUME NEW p, IsList(p.list), NEW i \in Nat
  PROVE  /\ FirstMarked(p, i) \in Nat \ {0}
         /\ FirstMarked(p, i) \in Marked(p) \/ FirstMarked(p, i) = Len(p.list) + 1
         /\ i <= 1 /\ Marked(p) # {} => FirstMarked(p, i) \in Marked(p)
<1> DEFINE S == {j \in Marked(p) : j >= i}
<1>1. Marked(p) \subseteq Nat \ {0} /\ Len(p.list) \in Nat
  BY MarkedFinite DEF IsList
<1>2. CASE S = {}
  <2>1. FirstMarked(p, i) = Len(p.list) + 1
    BY <1>2 DEF FirstMarked
  <2>2. i <= 1 => Marked(p) = {}
    BY <1>1, <1>2
  <2> QED
    BY <1>1, <2>1, <2>2
<1>3. CASE S # {}
  <2>1. FirstMarked(p, i) = Min(S)
    BY <1>3 DEF FirstMarked
  <2>2. Min(S) \in S
    BY <1>1, <1>3, Least
  <2> QED
    BY <1>1, <2>1, <2>2
<1> QED
  BY <1>2, <1>3
-----------------------------------------------------------------------------
(* Marks *)

\* do_file_mark keeps everything but the marks and the counters, and marks what it is told to.
LEMMA FileMark ==
  ASSUME NEW p, Shape(p), NEW S \in SUBSET DOMAIN p.list, NEW mark \in BOOLEAN,
         NEW r, r = do_file_mark(p, S, mark)
  PROVE  /\ Shape(r) /\ (Tally(p) => Tally(r))
         /\ r.cwd = p.cwd /\ r.selected = p.selected /\ SameNames(p, r)
         /\ mark = TRUE => Marked(r) = Marked(p) \cup Named(p, S)
         /\ mark = FALSE => Marked(r) = Marked(p) \ Named(p, S)
<1> DEFINE C == {i \in S : p.list[i].marked # mark /\ p.list[i].name # DotDot}
           n == Len(p.list)
           sign == IF mark THEN 1 ELSE -1
           l == [i \in 1..n |-> IF i \in C THEN [p.list[i] EXCEPT !.marked = mark] ELSE p.list[i]]
<1>1. n \in Nat \ {0} /\ DOMAIN p.list = 1..n /\ C \subseteq 1..n
  BY DEF Shape, IsList
<1>2. /\ DOMAIN r = Fields /\ r.cwd = p.cwd /\ r.selected = p.selected
      /\ r.is_panelized = p.is_panelized /\ r.dir_stat = p.dir_stat
      /\ r.list = l /\ r.marked = p.marked + sign * Cardinality(C)
  BY <1>1 DEF do_file_mark, Shape, Fields
<1>3. \A i \in 1..n : EntryOK(p.list[i])
  BY <1>1 DEF Shape, IsList
<1>4. \A i \in 1..n : /\ EntryOK(l[i]) /\ l[i].name = p.list[i].name
                      /\ l[i].marked = IF i \in C THEN mark ELSE p.list[i].marked
  BY <1>3 DEF EntryOK
<1>5. IsList(r.list) /\ Len(r.list) = n /\ DOMAIN r.list = 1..n
  <2>1. \A i, j \in 1..n : i # j => l[i].name # l[j].name
    BY <1>1, <1>4 DEF Shape, IsList
  <2>2. l = [i \in 1..n |-> l[i]]
    OBVIOUS
  <2>3. \A i \in 1..n : EntryOK(l[i])
    BY <1>4
  <2> HIDE DEF l, n
  <2>4. IsList(l) /\ Len(l) = n /\ DOMAIN l = 1..n
    BY <1>1, <2>1, <2>2, <2>3, ListOf
  <2> QED
    BY <1>2, <2>4
<1>6. Shape(r)
  BY <1>2, <1>5 DEF Shape
<1>7. Marked(r) = IF mark THEN Marked(p) \cup C ELSE Marked(p) \ C
  <2> HIDE DEF l
  <2>1. \A i \in 1..n : i \in Marked(r) <=> IF i \in C THEN mark ELSE p.list[i].marked
    BY <1>1, <1>2, <1>4, <1>5 DEF Marked
  <2>2. \A i \in 1..n : i \in Marked(p) <=> p.list[i].marked
    BY <1>1 DEF Marked
  <2>3. Marked(r) \subseteq 1..n /\ Marked(p) \subseteq 1..n
    BY <1>1, <1>5 DEF Marked
  <2>4. CASE mark
    BY <2>1, <2>2, <2>3, <2>4, <1>1
  <2>5. CASE ~ mark
    BY <2>1, <2>2, <2>3, <2>5, <1>1
  <2> QED
    BY <2>4, <2>5
<1>8. \A i \in C : i \in Marked(p) <=> ~ mark
  BY <1>1, <1>3 DEF Marked, EntryOK
<1>9. Marked(r) = IF mark THEN Marked(p) \cup Named(p, S)
                  ELSE Marked(p) \ Named(p, S)
  <2>1. CASE mark
    <3>1. Named(p, S) \subseteq Marked(p) \cup C
      BY <1>1, <1>3, <2>1 DEF Marked, EntryOK, Named
    <3> QED
      BY <1>7, <2>1, <3>1 DEF Named
  <2>2. CASE ~ mark
    <3>1. \A i \in Marked(p) : i \in C <=> i \in S /\ p.list[i].name # DotDot
      BY <1>1, <1>3, <2>2 DEF Marked, EntryOK
    <3> QED
      BY <1>7, <2>2, <3>1 DEF Named
  <2> QED
    BY <2>1, <2>2
<1>10. Tally(p) => Tally(r)
  <2> HAVE Tally(p)
  <2> HIDE DEF C, l, n
  <2>1. IsFiniteSet(Marked(p)) /\ Cardinality(Marked(p)) \in Nat
    BY MarkedFinite DEF Shape
  <2>2. IsFiniteSet(C) /\ Cardinality(C) \in Nat
    <3>1. IsFiniteSet(1..n) /\ C \in SUBSET (1..n)
      BY <1>1, FS_Interval
    <3>2. IsFiniteSet(C)
      BY <3>1, FS_Subset
    <3> QED
      BY <3>2, FS_CardinalityType
  <2>3. r.marked = Cardinality(Marked(r))
    <3>1. CASE mark
      <4>1. Marked(p) \cap C = {}
        BY <1>8, <3>1
      <4>2. Cardinality(Marked(p) \cup C) = Cardinality(Marked(p)) + Cardinality(C)
        BY <2>1, <2>2, <4>1, FS_Union, FS_EmptySet
      <4> QED
        BY <1>2, <1>7, <2>1, <2>2, <3>1, <4>2 DEF Tally
    <3>2. CASE ~ mark
      <4>1. C \subseteq Marked(p)
        BY <1>8, <3>2
      <4>2. IsFiniteSet(Marked(p) \ C) /\ Cardinality(Marked(p) \ C) \in Nat
        BY <2>1, FS_Subset, FS_CardinalityType
      <4>3. (Marked(p) \ C) \cup C = Marked(p) /\ (Marked(p) \ C) \cap C = {}
        BY <4>1
      <4>4. Cardinality(Marked(p)) = Cardinality(Marked(p) \ C) + Cardinality(C)
        BY <2>2, <4>2, <4>3, FS_Union, FS_EmptySet
      <4> QED
        BY <1>2, <1>7, <2>1, <2>2, <3>2, <4>2, <4>4 DEF Tally
    <3> QED
      BY <3>1, <3>2
  <2>4. \A i \in Marked(r) : r.list[i].name # DotDot
    <3>1. \A i \in Marked(r) : i \in Marked(p) \/ p.list[i].name # DotDot
      BY <1>9 DEF Named
    <3>2. \A i \in Marked(r) : i \in 1..n /\ r.list[i].name = p.list[i].name
      BY <1>1, <1>2, <1>4, <1>5, MarkedFinite
    <3> QED
      BY <3>1, <3>2 DEF Tally
  <2> QED
    BY <2>3, <2>4 DEF Tally
<1>11. SameNames(p, r)
  BY <1>1, <1>2, <1>4, <1>5 DEF SameNames
<1> QED
  BY <1>1, <1>2, <1>6, <1>9, <1>10, <1>11

\* What do_file_mark marks.
LEMMA MarkOn ==
  ASSUME NEW p, Shape(p), NEW S \in SUBSET DOMAIN p.list, NEW r, r = do_file_mark(p, S, TRUE)
  PROVE  /\ Shape(r) /\ (Tally(p) => Tally(r))
         /\ r.cwd = p.cwd /\ r.selected = p.selected /\ SameNames(p, r)
         /\ Marked(r) = Marked(p) \cup Named(p, S)
<1>1. Shape(r) /\ r.cwd = p.cwd /\ r.selected = p.selected /\ SameNames(p, r)
  BY FileMark
<1>2. Tally(p) => Tally(r)
  BY FileMark
<1>3. Marked(r) = Marked(p) \cup Named(p, S)
  BY FileMark
<1> QED
  BY <1>1, <1>2, <1>3

\* What do_file_mark unmarks.
LEMMA MarkOff ==
  ASSUME NEW p, Shape(p), NEW S \in SUBSET DOMAIN p.list, NEW r, r = do_file_mark(p, S, FALSE)
  PROVE  /\ Shape(r) /\ (Tally(p) => Tally(r))
         /\ r.cwd = p.cwd /\ r.selected = p.selected /\ SameNames(p, r)
         /\ Marked(r) = Marked(p) \ Named(p, S)
<1>1. Shape(r) /\ r.cwd = p.cwd /\ r.selected = p.selected /\ SameNames(p, r)
  BY FileMark
<1>2. Tally(p) => Tally(r)
  BY FileMark
<1>3. Marked(r) = Marked(p) \ Named(p, S)
  BY FileMark
<1> QED
  BY <1>1, <1>2, <1>3

\* The marks are taken off and the counters cleared.
LEMMA Cleared ==
  ASSUME NEW p, Shape(p), NEW r,
         r = [p EXCEPT !.list = [i \in DOMAIN @ |-> [@[i] EXCEPT !.marked = FALSE]],
                       !.marked = 0, !.dirs_marked = 0, !.total = 0]
  PROVE  /\ Shape(r) /\ Tally(r) /\ Marked(r) = {}
         /\ r.cwd = p.cwd /\ r.selected = p.selected /\ SameNames(p, r)
<1> DEFINE n == Len(p.list)
           l == [i \in 1..n |-> [p.list[i] EXCEPT !.marked = FALSE]]
<1>1. n \in Nat \ {0} /\ DOMAIN p.list = 1..n /\ \A i \in 1..n : EntryOK(p.list[i])
  BY DEF Shape, IsList
<1>2. /\ DOMAIN r = Fields /\ r.cwd = p.cwd /\ r.selected = p.selected
      /\ r.is_panelized = p.is_panelized /\ r.dir_stat = p.dir_stat
      /\ r.list = l /\ r.marked = 0
  BY <1>1 DEF Shape, Fields
<1>3. \A i \in 1..n : EntryOK(l[i]) /\ l[i].name = p.list[i].name /\ ~ l[i].marked
  BY <1>1 DEF EntryOK
<1>4. \A i, j \in 1..n : i # j => l[i].name # l[j].name
  BY <1>1, <1>3 DEF Shape, IsList
<1>5. l = [i \in 1..n |-> l[i]]
  OBVIOUS
<1> HIDE DEF l
<1>6. IsList(l) /\ DOMAIN l = 1..n
  BY <1>1, <1>3, <1>4, <1>5, ListOf
<1>7. Marked(r) = {}
  BY <1>2, <1>3, <1>6 DEF Marked
<1>8. SameNames(p, r)
  BY <1>1, <1>2, <1>3, <1>6 DEF SameNames, IsList
<1> QED
  BY <1>1, <1>2, <1>3, <1>6, <1>7, <1>8, FS_EmptySet DEF Shape, Tally

\* unmark_files leaves no mark, and works only if the counter tells it of one.
LEMMA Unmarked ==
  ASSUME NEW p, Good(p), NEW r, r = unmark_files(p)
  PROVE  Good(r) /\ Marked(r) = {} /\ r.cwd = p.cwd
<1>1. CASE p.marked = 0
  BY <1>1, MarkedFinite DEF Good, Shape, Tally, unmark_files
<1>2. CASE p.marked # 0
  <2>1. r = [p EXCEPT !.list = [i \in DOMAIN @ |-> [@[i] EXCEPT !.marked = FALSE]],
                      !.marked = 0, !.dirs_marked = 0, !.total = 0]
    BY <1>2 DEF unmark_files
  <2> QED
    BY <2>1, Cleared DEF Good, SameNames
<1> QED
  BY <1>1, <1>2

\* The counters are computed from the marks.
LEMMA Recalculated ==
  ASSUME NEW p, Shape(p), NEW r, r = recalculate_panel_summary(p)
  PROVE  /\ Shape(r) /\ Tally(r) /\ r.cwd = p.cwd /\ r.selected = p.selected
         /\ SameNames(p, r) /\ Marked(r) = {i \in Marked(p) : p.list[i].name # DotDot}
<1> DEFINE c == [p EXCEPT !.list = [i \in DOMAIN @ |-> [@[i] EXCEPT !.marked = FALSE]],
                          !.marked = 0, !.dirs_marked = 0, !.total = 0]
<1>1. r = do_file_mark(c, Marked(p), TRUE)
  BY DEF recalculate_panel_summary
<1>2. /\ Shape(c) /\ Tally(c) /\ Marked(c) = {}
      /\ c.cwd = p.cwd /\ c.selected = p.selected /\ SameNames(p, c)
  BY Cleared
<1>3. Marked(p) \in SUBSET DOMAIN c.list
  BY <1>2 DEF Marked, SameNames
<1> HIDE DEF c
<1>4. /\ Shape(r) /\ (Tally(c) => Tally(r))
      /\ r.cwd = c.cwd /\ r.selected = c.selected /\ SameNames(c, r)
      /\ Marked(r) = Marked(c) \cup Named(c, Marked(p))
  BY <1>1, <1>2, <1>3, MarkOn
<1>5. Named(c, Marked(p)) = {i \in Marked(p) : p.list[i].name # DotDot}
  BY <1>2 DEF Marked, Named, SameNames
<1> QED
  BY <1>2, <1>4, <1>5 DEF SameNames

-----------------------------------------------------------------------------
(* Loading and sorting *)

\* A directory as it is read: a list, with marks on names that were marked, and not on "..".
LEMMA Loaded ==
  ASSUME NEW f, NEW d, NEW names, NEW l \in ListsOf(f, d, names)
  PROVE  /\ IsList(l)
         /\ \A i \in DOMAIN l : l[i].marked => l[i].name \in names /\ l[i].name # DotDot
<1> DEFINE zero == [name |-> DotDot, size |-> 0, computed |-> FALSE, marked |-> FALSE]
           S == {n \in File \cup {Sub} : lstat(f, d, n)}
           n == Cardinality(S)
<1>1. ZeroDir = <<zero>> /\ EntryOK(zero) /\ zero.name = DotDot /\ zero.marked = FALSE
  BY DEF ZeroDir, EntryOK, AnyName
<1>2. IsFiniteSet(S) /\ n \in Nat
  <2>1. IsFiniteSet(File \cup {Sub})
    BY PanelAssumption, FS_AddElement DEF PanelAssumption
  <2> QED
    BY <2>1, FS_Subset, FS_CardinalityType
<1>3. S \subseteq AnyName /\ DotDot \notin S
  BY PanelAssumption DEF PanelAssumption, AnyName
<1>4. CASE l = ZeroDir
  <2>1. l = [i \in 1..1 |-> l[i]] /\ l[1] = zero
    BY <1>1, <1>4
  <2>2. IsList(l) /\ DOMAIN l = 1..1
    <3> HIDE DEF zero
    <3>1. \A i \in 1..1 : EntryOK(l[i])
      BY <1>1, <2>1
    <3>2. 1 \in Nat \ {0} /\ \A i, j \in 1..1 : i = j
      OBVIOUS
    <3> QED
      BY <2>1, <3>1, <3>2, ListOf
  <2> QED
    BY <1>1, <2>1, <2>2
<1>5. CASE l # ZeroDir
  <2> DEFINE m(q) == [i \in DOMAIN q |-> [name |-> q[i], size |-> SizeOf(f, d, q[i]), computed |-> FALSE,
                                          marked |-> q[i] \in names]]
  <2>1. PICK q \in SetToSeqs(S) : l = ZeroDir \o m(q)
    BY <1>5 DEF ListsOf
  <2>2. q \in [1..n -> S] /\ \A i, j \in 1..n : i # j => q[i] # q[j]
    BY <2>1 DEF SetToSeqs
  <2> DEFINE k == m(q)
             E == Range(k) \cup {zero}
  <2>3. /\ DOMAIN k = 1..n /\ k = [i \in 1..n |-> k[i]]
        /\ \A i \in 1..n : /\ EntryOK(k[i]) /\ k[i].name = q[i] /\ k[i].name # DotDot
                           /\ k[i].marked => k[i].name \in names
    <3>1. DOMAIN k = 1..n /\ k = [i \in 1..n |-> k[i]]
      BY <2>2
    <3>2. ASSUME NEW i \in 1..n
          PROVE  /\ EntryOK(k[i]) /\ k[i].name = q[i] /\ k[i].name # DotDot
                 /\ k[i].marked => k[i].name \in names
      <4>1. q[i] \in AnyName /\ q[i] # DotDot
        BY <1>3, <2>2
      <4>2. k[i] = [name |-> q[i], size |-> SizeOf(f, d, q[i]), computed |-> FALSE, marked |-> q[i] \in names]
        BY <2>2
      <4> HIDE DEF k
      <4>3. DOMAIN k[i] = {"name", "size", "computed", "marked"} /\ k[i].name = q[i] /\ k[i].computed = FALSE
        BY <4>2
      <4>4. k[i].marked \in BOOLEAN
        BY <4>2
      <4>5. k[i].marked => k[i].name \in names
        <5>1. CASE q[i] \in names
          BY <4>3, <5>1
        <5>2. CASE q[i] \notin names
          <6>1. (q[i] \in names) = FALSE
            BY <5>2
          <6>2. k[i] = [name |-> q[i], size |-> SizeOf(f, d, q[i]), computed |-> FALSE, marked |-> FALSE]
            BY <4>2, <6>1, Zenon
          <6> QED
            BY <6>2
        <5> QED
          BY <5>1, <5>2
      <4>6. EntryOK(k[i])
        BY <4>1, <4>3, <4>4 DEF EntryOK
      <4> QED
        BY <4>1, <4>3, <4>5, <4>6
    <3> QED
      BY <3>1, <3>2
  <2>4. l = ZeroDir \o k
    BY <2>1
  <2> HIDE DEF k, zero
  <2>5. k \in Seq(E) /\ Len(k) = n
    <3>1. k \in [1..n -> E]
      BY <2>3 DEF Range
    <3>2. k \in Seq(E)
      BY <1>2, <3>1, SeqDef
    <3> QED
      BY <1>2, <2>3, <3>2, LenProperties
  <2>6. ZeroDir \in Seq(E) /\ Len(ZeroDir) = 1 /\ ZeroDir[1] = zero
    BY <1>1
  <2> HIDE DEF E, n, S
  <2>7. l \in Seq(E) /\ Len(l) = n + 1
        /\ \A i \in 1..(n + 1) : l[i] = IF i <= 1 THEN ZeroDir[i] ELSE k[i - 1]
    <3>1. /\ ZeroDir \o k \in Seq(E) /\ Len(ZeroDir \o k) = Len(ZeroDir) + Len(k)
          /\ \A i \in 1..Len(ZeroDir) + Len(k) :
               (ZeroDir \o k)[i] = IF i <= Len(ZeroDir) THEN ZeroDir[i] ELSE k[i - Len(ZeroDir)]
      BY <2>5, <2>6, ConcatProperties
    <3>2. Len(ZeroDir) + Len(k) = n + 1
      BY <1>2, <2>5, <2>6
    <3> QED
      BY <2>4, <2>6, <3>1, <3>2
  <2>8. l[1] = zero /\ \A i \in 2..(n + 1) : l[i] = k[i - 1] /\ i - 1 \in 1..n
    BY <1>2, <2>6, <2>7
  <2>9. l = [i \in 1..(n + 1) |-> l[i]]
    BY <2>7, LenProperties
  <2>10. \A i \in 1..(n + 1) : EntryOK(l[i])
    <3> SUFFICES ASSUME NEW i \in 1..(n + 1) PROVE EntryOK(l[i])
      OBVIOUS
    <3>1. CASE i = 1
      BY <1>1, <2>8, <3>1
    <3>2. CASE i # 1
      <4>1. i \in 2..(n + 1)
        BY <1>2, <3>2
      <4>2. l[i] = k[i - 1] /\ i - 1 \in 1..n
        BY <2>8, <4>1
      <4> QED
        BY <2>3, <4>2
    <3> QED
      BY <3>1, <3>2
  <2>11. \A i, j \in 1..(n + 1) : i # j => l[i].name # l[j].name
    <3> SUFFICES ASSUME NEW i \in 1..(n + 1), NEW j \in 1..(n + 1), i < j
                 PROVE  l[i].name # l[j].name
      BY <1>2
    <3>1. j \in 2..(n + 1)
      BY <1>2
    <3>2. CASE i = 1
      BY <1>1, <2>3, <2>8, <3>1, <3>2
    <3>3. CASE i # 1
      <4>1. i \in 2..(n + 1) /\ i - 1 # j - 1
        BY <1>2, <3>3
      <4>2. l[i] = k[i - 1] /\ i - 1 \in 1..n /\ l[j] = k[j - 1] /\ j - 1 \in 1..n
        BY <2>8, <3>1, <4>1
      <4>3. k[i - 1].name = q[i - 1] /\ k[j - 1].name = q[j - 1] /\ q[i - 1] # q[j - 1]
        BY <2>2, <2>3, <4>1, <4>2
      <4> QED
        BY <4>2, <4>3
    <3> QED
      BY <3>2, <3>3
  <2>12. IsList(l) /\ DOMAIN l = 1..(n + 1)
    BY <1>2, <2>9, <2>10, <2>11, ListOf
  <2>13. \A i \in 1..(n + 1) : l[i].marked => l[i].name \in names /\ l[i].name # DotDot
    <3> SUFFICES ASSUME NEW i \in 1..(n + 1), l[i].marked
                 PROVE  l[i].name \in names /\ l[i].name # DotDot
      OBVIOUS
    <3>1. i \in 2..(n + 1)
      BY <1>1, <1>2, <2>8
    <3> QED
      BY <2>3, <2>8, <3>1
  <2> QED
    BY <2>12, <2>13
<1> QED
  BY <1>4, <1>5

\* The cursor is put on an entry of the list, and nothing else changes.
LEMMA Selected ==
  ASSUME NEW p, Shape(p), NEW name, NEW r, r = try_to_select(p, name)
  PROVE  /\ Shape(r) /\ r.selected \in DOMAIN r.list /\ (Tally(p) => Tally(r))
         /\ r.list = p.list /\ r.cwd = p.cwd /\ Marked(r) = Marked(p)
<1> DEFINE I == IndexesOf(p, BaseName(name))
           k == IF I # {} THEN Min(I) ELSE Min({p.selected, Len(p.list)})
<1>1. DOMAIN p.list = 1..Len(p.list) /\ Len(p.list) \in Nat \ {0} /\ p.selected \in Nat \ {0}
  BY DEF Shape, IsList
<1>2. r = [p EXCEPT !.selected = k]
  BY DEF try_to_select
<1>3. k \in 1..Len(p.list)
  <2>1. I \subseteq 1..Len(p.list)
    BY <1>1 DEF IndexesOf
  <2>2. CASE I # {}
    <3>1. I \subseteq Nat
      BY <2>1
    <3> HIDE DEF I
    <3> QED
      BY <2>1, <2>2, <3>1, Least
  <2>3. CASE I = {}
    <3> HIDE DEF I
    <3>1. k = Min({p.selected, Len(p.list)})
      BY <2>3
    <3> QED
      BY <1>1, <3>1, LeastOfTwo
  <2> QED
    BY <2>2, <2>3
<1> HIDE DEF k
<1>4. /\ DOMAIN r = Fields /\ r.cwd = p.cwd /\ r.is_panelized = p.is_panelized
      /\ r.dir_stat = p.dir_stat /\ r.list = p.list /\ r.marked = p.marked /\ r.selected = k
  BY <1>2 DEF Shape, Fields
<1>5. Marked(r) = Marked(p)
  BY <1>4 DEF Marked
<1>6. Shape(r) /\ r.selected \in DOMAIN r.list
  BY <1>1, <1>3, <1>4 DEF Shape
<1>7. Tally(p) => Tally(r)
  BY <1>4, <1>5 DEF Tally
<1> QED
  BY <1>4, <1>5, <1>6, <1>7

\* The same list, marks and directory, and a cursor in it.
LEMMA Alike ==
  ASSUME NEW p, Good(p), NEW r, DOMAIN r = Fields, r.cwd = p.cwd, r.list = p.list, r.marked = p.marked,
         r.selected \in DOMAIN p.list, r.is_panelized \in BOOLEAN, r.dir_stat \subseteq Dir
  PROVE  Good(r) /\ Marked(r) = Marked(p) /\ From(p, r)
<1>1. Marked(r) = Marked(p)
  BY DEF Marked
<1>2. r.selected \in Nat \ {0}
  BY DEF Good, Shape, IsList
<1> QED
  BY <1>1, <1>2 DEF Good, Shape, Tally, From

\* A panel that does not change has its own marks.
LEMMA FromSelf ==
  ASSUME NEW p PROVE From(p, p)
  BY DEF From

\* Marks that come from marks of the user are marks of the user.
LEMMA StaysWanted ==
  ASSUME NEW p, NEW r, NEW w, From(p, r), Wanted(p, w), p.cwd \in Dir
  PROVE  Wanted(r, w)
<1> SUFFICES ASSUME NEW j \in Marked(r)
             PROVE  \/ <<r.cwd, r.list[j].name>> \in w
                    \/ r.cwd = "above" /\ <<"below", r.list[j].name>> \in w
  BY DEF Wanted
<1>1. PICK i \in Marked(p) : p.list[i].name = r.list[j].name /\ (r.cwd = p.cwd \/ r.cwd = "above")
  BY DEF From
<1> QED
  BY <1>1 DEF Wanted, Dir

\* The directory is read again, or its parent: marks stay with their names.
LEMMA Reloaded ==
  ASSUME NEW f, NEW p, Good(p), NEW r \in panel_reload(f, p)
  PROVE  Good(r) /\ From(p, r)
<1>1. CASE r = p
  BY <1>1, FromSelf
<1>2. CASE r # p
  <2> DEFINE q == IF Exists(f, p.cwd) THEN p ELSE [p EXCEPT !.cwd = "above", !.dir_stat = {}]
             names == {q.list[i].name : i \in {j \in DOMAIN q.list : q.list[j].marked}}
  <2>1. PICK l \in ListsOf(f, q.cwd, names) :
          r = recalculate_panel_summary([q EXCEPT !.list = l, !.selected = Min({@, Len(l)})])
    BY <1>2 DEF panel_reload, do_reload_dir
  <2>2. /\ DOMAIN q = Fields /\ q.cwd \in Dir /\ (q.cwd = p.cwd \/ q.cwd = "above")
        /\ q.is_panelized \in BOOLEAN /\ q.dir_stat \subseteq Dir /\ q.list = p.list
        /\ q.selected = p.selected
    BY DEF Good, Shape, Fields, Dir
  <2>3. names = {p.list[i].name : i \in Marked(p)}
    BY <2>2 DEF Marked
  <2> HIDE DEF q, names
  <2>4. IsList(l) /\ \A i \in DOMAIN l : l[i].marked => l[i].name \in names /\ l[i].name # DotDot
    BY Loaded
  <2> DEFINE c == Min({q.selected, Len(l)})
             v == [q EXCEPT !.list = l, !.selected = c]
  <2>5. c \in DOMAIN l /\ c \in Nat \ {0}
    <3>1. DOMAIN l = 1..Len(l) /\ Len(l) \in Nat \ {0} /\ q.selected \in Nat \ {0}
      BY <2>2, <2>4 DEF IsList, Good, Shape
    <3> QED
      BY <3>1, LeastOfTwo
  <2>6. r = recalculate_panel_summary(v)
    BY <2>1
  <2> HIDE DEF c
  <2>7. /\ DOMAIN v = Fields /\ v.cwd = q.cwd /\ v.is_panelized = q.is_panelized
        /\ v.dir_stat = q.dir_stat /\ v.list = l /\ v.selected = c
    BY <2>2 DEF Fields
  <2> HIDE DEF v
  <2>8. Shape(v)
    BY <2>2, <2>4, <2>5, <2>7 DEF Shape
  <2>9. /\ Shape(r) /\ Tally(r) /\ r.cwd = v.cwd /\ r.selected = v.selected /\ DOMAIN r.list = DOMAIN l
        /\ \A i \in DOMAIN l : r.list[i].name = l[i].name
        /\ Marked(r) \subseteq {i \in DOMAIN l : l[i].marked}
    BY <2>6, <2>7, <2>8, Recalculated DEF Marked, SameNames
  <2>10. Good(r)
    BY <2>5, <2>7, <2>9 DEF Good
  <2>11. From(p, r)
    <3> SUFFICES ASSUME NEW j \in Marked(r)
                 PROVE  \E i \in Marked(p) : /\ p.list[i].name = r.list[j].name
                                             /\ r.cwd = p.cwd \/ r.cwd = "above"
      BY DEF From
    <3>1. r.list[j].name = l[j].name /\ l[j].name \in names
      BY <2>4, <2>9
    <3> QED
      BY <2>2, <2>3, <2>7, <2>9, <3>1
  <2> QED
    BY <2>10, <2>11
<1> QED
  BY <1>1, <1>2

\* A panelized list loses all its marks.
LEMMA ReloadedPanelized ==
  ASSUME NEW f, NEW p, Good(p), NEW r \in reload_panelized(f, p)
  PROVE  Shape(r) /\ Tally(r) /\ Marked(r) = {}
<1> DEFINE u == do_file_mark(p, Marked(p), FALSE)
           S == {i \in DOMAIN u.list : lstat(f, p.cwd, u.list[i].name)}
           again(v) == do_file_mark(v, Marked(v), TRUE)
           k(q) == [i \in DOMAIN q |-> [u.list[q[i]] EXCEPT !.size = SizeOf(f, p.cwd, u.list[q[i]].name)]]
<1>1. PICK q \in InOrder(S) : r = again([u EXCEPT !.list = IF q = <<>> THEN ZeroDir ELSE k(q)])
  BY DEF reload_panelized
<1>2. Shape(u) /\ Tally(u) /\ Marked(u) = {}
  <2>1. Marked(p) \in SUBSET DOMAIN p.list
    BY DEF Marked
  <2>2. Shape(p) /\ Tally(p) /\ \A i \in Marked(p) : p.list[i].name # DotDot
    BY DEF Good, Tally
  <2>3. u = do_file_mark(p, Marked(p), FALSE)
    OBVIOUS
  <2> HIDE DEF u
  <2>4. Shape(u) /\ Tally(u) /\ Marked(u) = Marked(p) \ Named(p, Marked(p))
    BY <2>1, <2>2, <2>3, MarkOff
  <2> QED
    BY <2>2, <2>4 DEF Named
<1> DEFINE l == IF q = <<>> THEN ZeroDir ELSE k(q)
           v == [u EXCEPT !.list = l]
<1>3. r = do_file_mark(v, Marked(v), TRUE)
  BY <1>1
<1>4. IsList(l) /\ \A i \in DOMAIN l : l[i].marked = FALSE
  <2>1. CASE q = <<>>
    <3>1. ZeroDir \in ListsOf(f, "above", {})
      BY DEF ListsOf
    <3>2. IsList(ZeroDir) /\ \A i \in DOMAIN ZeroDir : ~ ZeroDir[i].marked
      BY <3>1, Loaded
    <3> QED
      BY <2>1, <3>2 DEF IsList, EntryOK
  <2>2. CASE q # <<>>
    <3> DEFINE n == Cardinality(S)
               m == k(q)
    <3>1. S \subseteq 1..Len(u.list) /\ Len(u.list) \in Nat
      BY <1>2 DEF Shape, IsList
    <3> HIDE DEF u
    <3>2. IsFiniteSet(S) /\ n \in Nat
      <4>1. IsFiniteSet(1..Len(u.list)) /\ S \in SUBSET (1..Len(u.list))
        BY <3>1, FS_Interval
      <4> HIDE DEF S
      <4>2. IsFiniteSet(S)
        BY <4>1, FS_Subset
      <4> QED
        BY <4>2, FS_CardinalityType
    <3>3. q \in [1..n -> S] /\ \A i, j \in 1..n : i # j => q[i] # q[j]
      <4>1. q \in [1..n -> S] /\ \A j \in 1..n : \A i \in 1..j - 1 : q[i] < q[j]
        BY DEF InOrder
      <4>2. \A i, j \in 1..n : i < j => q[i] # q[j]
        BY <3>1, <3>2, <4>1
      <4> HIDE DEF S, n
      <4> QED
        BY <3>2, <4>1, <4>2
    <3>4. n # 0
      BY <2>2, <3>3
    <3>5. \A i \in DOMAIN u.list : EntryOK(u.list[i]) /\ u.list[i].marked = FALSE
      BY <1>2 DEF Shape, IsList, Marked, EntryOK
    <3>6. /\ DOMAIN m = 1..n /\ m = [i \in 1..n |-> m[i]]
          /\ \A i \in 1..n : EntryOK(m[i]) /\ m[i].name = u.list[q[i]].name /\ m[i].marked = FALSE
      BY <3>3, <3>5 DEF EntryOK
    <3> HIDE DEF m, n
    <3>7. \A i, j \in 1..n : i # j => m[i].name # m[j].name
      BY <1>2, <3>3, <3>6 DEF Shape, IsList
    <3>8. IsList(m) /\ DOMAIN m = 1..n
      BY <3>2, <3>4, <3>6, <3>7, ListOf
    <3>9. l = m
      BY <2>2 DEF m
    <3> QED
      BY <3>6, <3>8, <3>9
  <2> QED
    BY <2>1, <2>2
<1> HIDE DEF l, u
<1>5. /\ DOMAIN v = Fields /\ v.cwd = u.cwd /\ v.is_panelized = u.is_panelized
      /\ v.dir_stat = u.dir_stat /\ v.list = l /\ v.selected = u.selected /\ v.marked = u.marked
  BY <1>2 DEF Shape, Fields
<1> HIDE DEF v
<1>6. Marked(v) = {}
  BY <1>4, <1>5 DEF Marked
<1>7. Shape(v) /\ Tally(v)
  BY <1>2, <1>4, <1>5, <1>6 DEF Shape, Tally
<1>8. Marked(v) \in SUBSET DOMAIN v.list
  BY <1>6
<1>9. Shape(r) /\ Tally(r) /\ Marked(r) = Marked(v) \cup Named(v, Marked(v))
  BY <1>3, <1>7, <1>8, MarkOn
<1> QED
  BY <1>6, <1>9 DEF Named

\* The update after a command or an operation: marks are only lost.
LEMMA Updated ==
  ASSUME NEW f, NEW p, Good(p), NEW reload \in BOOLEAN, NEW r \in update_panels(f, p, reload)
  PROVE  Good(r) /\ From(p, r)
<1> DEFINE q == IF reload THEN Reload(p) ELSE p
<1>1. Good(q) /\ From(p, q) /\ Marked(q) = Marked(p) /\ q.list = p.list /\ q.cwd = p.cwd
  <2>1. CASE reload
    <3>1. q = [p EXCEPT !.is_panelized = FALSE, !.dir_stat = {}]
      BY <2>1 DEF Reload
    <3>2. /\ DOMAIN q = Fields /\ q.cwd = p.cwd /\ q.list = p.list /\ q.marked = p.marked
          /\ q.selected = p.selected /\ q.is_panelized = FALSE /\ q.dir_stat = {}
      BY <3>1 DEF Good, Shape, Fields
    <3> HIDE DEF q
    <3> QED
      BY <3>2, Alike DEF Good
  <2>2. CASE ~ reload
    BY <2>2, FromSelf
  <2> QED
    BY <2>1, <2>2
<1> HIDE DEF q
<1>2. PICK t \in IF q.is_panelized THEN reload_panelized(f, q) ELSE panel_reload(f, q) :
        r = try_to_select(t, p.list[p.selected].name)
  BY DEF update_panels, q
<1>3. Shape(t) /\ Tally(t) /\ From(q, t)
  <2>1. CASE q.is_panelized
    BY <1>1, <1>2, <2>1, ReloadedPanelized DEF From
  <2>2. CASE ~ q.is_panelized
    BY <1>1, <1>2, <2>2, Reloaded DEF Good
  <2> QED
    BY <2>1, <2>2
<1>4. /\ Shape(r) /\ r.selected \in DOMAIN r.list /\ Tally(r) /\ r.list = t.list
      /\ r.cwd = t.cwd /\ Marked(r) = Marked(t)
  BY <1>2, <1>3, Selected
<1> QED
  BY <1>1, <1>3, <1>4 DEF Good, From

\* What is left of the user's marks after an update.
LEMMA StillWanted ==
  ASSUME NEW p, Good(p), NEW r, Good(r), From(p, r), NEW w, Wanted(p, w), NEW v, v = Kept(w, r)
  PROVE  Wanted(r, v) /\ v \subseteq w
<1>1. Wanted(r, w)
  BY StaysWanted DEF Good, Shape
<1>2. \A x \in w : (\E i \in Marked(r) : r.list[i].name = x[2]) => x \in v
  BY DEF Kept
<1>3. ASSUME NEW i \in Marked(r), NEW d, <<d, r.list[i].name>> \in w
      PROVE  <<d, r.list[i].name>> \in v
  BY <1>2, <1>3
<1> QED
  BY <1>1, <1>3 DEF Wanted, Kept

\* Sorting takes each entry to one other place.
LEMMA Sorted ==
  ASSUME NEW p, Good(p), NEW r \in panel_re_sort(p)
  PROVE  Good(r) /\ From(p, r)
<1> DEFINE n == Len(p.list)
<1>1. n \in Nat \ {0} /\ DOMAIN p.list = 1..n
  BY DEF Good, Shape, IsList
<1>2. PICK l \in do_sort(p.list) :
        r = [p EXCEPT !.list = l, !.selected = Max({i \in DOMAIN l : l[i].name = p.list[p.selected].name})]
  BY DEF panel_re_sort
<1>3. PICK q \in SetToSeqs(1..n) : l = [i \in 1..n |-> p.list[q[i]]]
  BY <1>1, <1>2 DEF do_sort
<1>4. IsFiniteSet(1..n) /\ Cardinality(1..n) = n
  BY <1>1, FS_Interval
<1>5. q \in [1..n -> 1..n] /\ \A i, j \in 1..n : i # j => q[i] # q[j]
  BY <1>3, <1>4 DEF SetToSeqs
<1>6. \A j \in 1..n : \E i \in 1..n : q[i] = j
  <2>1. q \in Injection(1..n, 1..n)
    BY <1>5, Fun_IsInj
  <2> HIDE DEF n
  <2>2. q \in Surjection(1..n, 1..n)
    BY <1>4, <2>1, FS_Injection
  <2> QED
    BY <2>2 DEF Surjection
<1>7. IsList(l) /\ DOMAIN l = 1..n
  <2>0. l = [i \in 1..n |-> l[i]]
    BY <1>3
  <2>1. \A i \in 1..n : l[i] = p.list[q[i]]
    BY <1>3
  <2>2. \A i \in 1..n : EntryOK(l[i])
    BY <1>1, <1>5, <2>1 DEF Good, Shape, IsList
  <2>3. \A i, j \in 1..n : i # j => p.list[i].name # p.list[j].name
    BY <1>1 DEF Good, Shape, IsList
  <2> HIDE DEF n
  <2>4. \A i, j \in 1..n : i # j => l[i].name # l[j].name
    BY <1>5, <2>1, <2>3
  <2> QED
    BY <1>1, <2>0, <2>2, <2>4, ListOf
<1> DEFINE c == Max({i \in DOMAIN l : l[i].name = p.list[p.selected].name})
<1>8. c \in 1..n
  <2>1. p.selected \in 1..n
    BY <1>1 DEF Good
  <2>2. PICK i \in 1..n : q[i] = p.selected
    BY <1>6, <2>1
  <2>3. l[i].name = p.list[p.selected].name
    BY <1>3, <2>2
  <2>4. {j \in DOMAIN l : l[j].name = p.list[p.selected].name} = {i}
    BY <1>7, <2>3 DEF IsList
  <2> QED
    BY <2>4, MostOfOne
<1> HIDE DEF c
<1>9. /\ DOMAIN r = Fields /\ r.cwd = p.cwd /\ r.is_panelized = p.is_panelized /\ r.dir_stat = p.dir_stat
      /\ r.list = l /\ r.selected = c /\ r.marked = p.marked
  BY <1>2 DEF Good, Shape, Fields, c
<1>10. Shape(r)
  BY <1>1, <1>7, <1>8, <1>9 DEF Good, Shape
<1>11. \A i \in 1..n : r.list[i] = p.list[q[i]] /\ (i \in Marked(r) <=> q[i] \in Marked(p))
  BY <1>1, <1>3, <1>5, <1>7, <1>9 DEF Marked
<1>12. Marked(r) \subseteq 1..n /\ Marked(p) \subseteq 1..n
  BY <1>1, <1>7, <1>9 DEF Marked
<1>13. Cardinality(Marked(r)) = Cardinality(Marked(p))
  <2> DEFINE g == [i \in Marked(r) |-> q[i]]
  <2>1. g \in [Marked(r) -> Marked(p)]
    BY <1>11, <1>12
  <2>2. \A i, j \in Marked(r) : g[i] = g[j] => i = j
    BY <1>5, <1>12
  <2>3. \A j \in Marked(p) : \E i \in Marked(r) : g[i] = j
    BY <1>6, <1>11, <1>12
  <2> HIDE DEF g
  <2>4. g \in Bijection(Marked(r), Marked(p))
    BY <2>1, <2>2, <2>3, Fun_IsBij
  <2>5. ExistsBijection(Marked(r), Marked(p))
    BY <2>4 DEF ExistsBijection
  <2>6. IsFiniteSet(Marked(r))
    BY <1>10, MarkedFinite DEF Shape
  <2> QED
    BY <2>5, <2>6, FS_Bijection
<1>14. Tally(r)
  BY <1>9, <1>11, <1>12, <1>13 DEF Good, Tally
<1>15. From(p, r)
  BY <1>9, <1>11, <1>12 DEF From
<1> QED
  BY <1>7, <1>8, <1>9, <1>10, <1>14, <1>15 DEF Good

-----------------------------------------------------------------------------
(* The marks of the user *)

\* What is taken off by the user is not marked any more: no other entry has its name.
LEMMA OffIsWanted ==
  ASSUME NEW p, Good(p), NEW S \in SUBSET DOMAIN p.list, NEW T \in SUBSET S, NEW w, Wanted(p, w),
         NEW r, r = do_file_mark(p, S, FALSE)
  PROVE  Good(r) /\ r.cwd = p.cwd /\ r.list # <<>> /\ SameNames(p, r)
         /\ Wanted(r, w \ {<<p.cwd, p.list[i].name>> : i \in T})
<1>1. Shape(p) /\ Tally(p)
  BY DEF Good
<1>2. /\ Shape(r) /\ Tally(r) /\ r.cwd = p.cwd /\ r.selected = p.selected /\ SameNames(p, r)
      /\ Marked(r) = Marked(p) \ Named(p, S)
  <2>1. Shape(r) /\ r.cwd = p.cwd /\ r.selected = p.selected /\ SameNames(p, r)
    BY <1>1, MarkOff
  <2>2. Tally(r)
    BY <1>1, MarkOff
  <2>3. Marked(r) = Marked(p) \ Named(p, S)
    BY <1>1, MarkOff
  <2> QED
    BY <2>1, <2>2, <2>3
<1>3. Good(r)
  BY <1>2 DEF Good, SameNames
<1> DEFINE v == w \ {<<p.cwd, p.list[i].name>> : i \in T}
<1>4. ASSUME NEW j \in Marked(r)
      PROVE  \/ <<r.cwd, r.list[j].name>> \in v
             \/ r.cwd = "above" /\ <<"below", r.list[j].name>> \in v
  <2>1. j \in Marked(p) /\ j \notin S /\ j \in DOMAIN p.list /\ r.list[j].name = p.list[j].name
    BY <1>1, <1>2 DEF Tally, Marked, Named, SameNames
  <2>2. \A i \in T : p.list[i].name # p.list[j].name
    BY <1>1, <2>1 DEF Shape, IsList
  <2>3. \/ <<p.cwd, p.list[j].name>> \in w
        \/ p.cwd = "above" /\ <<"below", p.list[j].name>> \in w
    BY <2>1 DEF Wanted
  <2> QED
    BY <1>2, <2>1, <2>2, <2>3
<1>5. Wanted(r, v)
  BY <1>4 DEF Wanted
<1>6. r.list # <<>>
  BY <1>2 DEF Shape, IsList
<1> QED
  BY <1>2, <1>3, <1>5, <1>6

\* What is put on by the user is the user's.
LEMMA OnIsWanted ==
  ASSUME NEW p, Good(p), NEW S \in SUBSET DOMAIN p.list, NEW w, Wanted(p, w),
         NEW r, r = do_file_mark(p, S, TRUE)
  PROVE  Good(r) /\ Wanted(r, w \cup {<<p.cwd, p.list[i].name>> : i \in {i \in S : p.list[i].name # DotDot}})
<1>1. Shape(p) /\ Tally(p)
  BY DEF Good
<1>2. /\ Shape(r) /\ Tally(r) /\ r.cwd = p.cwd /\ r.selected = p.selected /\ SameNames(p, r)
      /\ Marked(r) = Marked(p) \cup Named(p, S)
  <2>1. Shape(r) /\ r.cwd = p.cwd /\ r.selected = p.selected /\ SameNames(p, r)
    BY <1>1, MarkOn
  <2>2. Tally(r)
    BY <1>1, MarkOn
  <2>3. Marked(r) = Marked(p) \cup Named(p, S)
    BY <1>1, MarkOn
  <2> QED
    BY <2>1, <2>2, <2>3
<1>3. Good(r)
  BY <1>2 DEF Good, SameNames
<1>4. \A i \in Marked(r) : i \in DOMAIN p.list /\ r.list[i].name = p.list[i].name
  BY <1>2 DEF Marked, SameNames
<1> QED
  BY <1>2, <1>3, <1>4 DEF Wanted, Named

\* Another cursor or other directories in dir_stat.
LEMMA AgedGood ==
  ASSUME NEW p, Good(p), NEW D, NEW r \in Aged(p, D)
  PROVE  Good(r) /\ From(p, r) /\ Marked(r) = Marked(p) /\ r.list = p.list /\ r.cwd = p.cwd
<1>1. CASE r = p
  BY <1>1, FromSelf
<1>2. CASE r = [p EXCEPT !.dir_stat = @ \ D]
  <2>1. /\ DOMAIN r = Fields /\ r.cwd = p.cwd /\ r.list = p.list /\ r.marked = p.marked
        /\ r.selected = p.selected /\ r.is_panelized = p.is_panelized /\ r.dir_stat = p.dir_stat \ D
    BY <1>2 DEF Good, Shape, Fields
  <2> QED
    BY <2>1, Alike DEF Good, Shape
<1> QED
  BY <1>1, <1>2 DEF Aged

\* Saving the stamps of the directories changes no mark.
LEMMA SavedGood ==
  ASSUME NEW p, Good(p), NEW r \in save_cwds_stat(p)
  PROVE  Good(r) /\ From(p, r) /\ Marked(r) = Marked(p) /\ r.list = p.list /\ r.cwd = p.cwd
<1>1. CASE r = p
  BY <1>1, FromSelf
<1>2. CASE r # p
  <2>1. PICK D \in SUBSET Dir : r = [p EXCEPT !.dir_stat = D]
    BY <1>2 DEF save_cwds_stat
  <2>2. /\ DOMAIN r = Fields /\ r.cwd = p.cwd /\ r.list = p.list /\ r.marked = p.marked
        /\ r.selected = p.selected /\ r.is_panelized = p.is_panelized /\ r.dir_stat = D
    BY <2>1 DEF Good, Shape, Fields
  <2> QED
    BY <2>2, Alike DEF Good, Shape
<1> QED
  BY <1>1, <1>2

\* Nor does moving the cursor.
LEMMA CursorGood ==
  ASSUME NEW p, Good(p), NEW k \in DOMAIN p.list, NEW r, r = [p EXCEPT !.selected = k]
  PROVE  Good(r) /\ From(p, r)
<1>1. /\ DOMAIN r = Fields /\ r.cwd = p.cwd /\ r.list = p.list /\ r.marked = p.marked
      /\ r.selected = k /\ r.is_panelized = p.is_panelized /\ r.dir_stat = p.dir_stat
  BY DEF Good, Shape, Fields
<1>2. p.is_panelized \in BOOLEAN /\ p.dir_stat \subseteq Dir
  BY DEF Good, Shape
<1> QED
  BY <1>1, <1>2, Alike

\* Where the user's marks may be.
LEMMA HereIsPlace ==
  ASSUME Good(panel), NEW i \in DOMAIN panel.list
  PROVE  Here(i) \in Dir \X AnyName
  BY DEF Good, Shape, IsList, EntryOK, Here

\* What has to be shown of the next state.
LEMMA Arrived ==
  ASSUME WorkType', Good(panel'), AtInv', Wanted(panel', wanted')
  PROVE  PInv'
  BY DEF PInv, Good, Shape, IsList, Tally, EntryOK, Marked, Wanted, Fields

\* The steps of an idle panel.
LEMMA IdleArrived ==
  ASSUME PInv, UNCHANGED <<size, fast_reload, changes>>, pc' = "idle", op' = "NONE" \/ op' = op,
         force' = FALSE \/ force' = force,
         Good(panel'), wanted' \subseteq Dir \X AnyName, Wanted(panel', wanted')
  PROVE  PInv'
<1>1. WorkType'
  BY DEF PInv, WorkType
<1>2. AtInv'
  BY DEF AtInv
<1> QED
  BY <1>1, <1>2, Arrived

\* The marks that remain are marks of the user.
LEMMA PanelFrom ==
  ASSUME PInv, NEW p, Good(p), From(panel, p)
  PROVE  Wanted(p, wanted)
  BY StaysWanted DEF PInv, Good, Shape
-----------------------------------------------------------------------------
(* Marking keeps the invariant *)

\* Each action keeps the invariant.
LEMMA MarkFileKeeps == ASSUME PInv, MarkFile PROVE PInv'
<1> DEFINE i == panel.selected
           mark == ~ panel.list[i].marked
           p == do_file_mark(panel, {i}, mark)
<1>1. /\ Good(panel) /\ Wanted(panel, wanted) /\ i \in DOMAIN panel.list /\ {i} \subseteq DOMAIN panel.list
      /\ panel.list[i].marked \in BOOLEAN /\ wanted \subseteq Dir \X AnyName
      /\ Shape(panel) /\ Tally(panel) /\ mark \in BOOLEAN
  BY DEF PInv, WorkType, Good, Shape, IsList, EntryOK
<1>2. PICK down \in {0, 1} : panel' = [p EXCEPT !.selected = Min({i + down, Len(p.list)})]
  BY DEF MarkFile
<1>3. wanted' = IF panel.list[i].name = DotDot THEN wanted
                ELSE IF panel.list[i].marked THEN wanted \ {Here(i)} ELSE wanted \cup {Here(i)}
  BY DEF MarkFile
<1>4. wanted' \subseteq Dir \X AnyName
  BY <1>1, <1>3, HereIsPlace
<1>5. UNCHANGED <<size, fast_reload, changes>> /\ pc' = "idle" /\ op' = op /\ force' = force
  BY DEF MarkFile, work
<1>6. Good(p) /\ Wanted(p, wanted')
  <2>1. CASE panel.list[i].name = DotDot
    <3>1. i \notin Marked(panel)
      BY <1>1, <2>1 DEF Tally
    <3>2. mark = TRUE
      BY <1>1, <3>1 DEF Marked
    <3>3. Good(p) /\ Wanted(p, wanted \cup {<<panel.cwd, panel.list[j].name>> :
                                              j \in {j \in {i} : panel.list[j].name # DotDot}})
      <4> HIDE DEF i, mark, p
      <4>1. p = do_file_mark(panel, {i}, TRUE)
        BY <3>2 DEF p
      <4> QED
        BY <1>1, <4>1, OnIsWanted
    <3>4. {<<panel.cwd, panel.list[j].name>> : j \in {j \in {i} : panel.list[j].name # DotDot}} = {}
      BY <2>1
    <3>5. wanted' = wanted \cup {<<panel.cwd, panel.list[j].name>> : j \in {j \in {i} : panel.list[j].name # DotDot}}
      BY <1>3, <2>1, <3>4
    <3> QED
      BY <3>3, <3>5
  <2>2. CASE panel.list[i].name # DotDot /\ panel.list[i].marked
    <3> HIDE DEF i, mark, p
    <3>1. p = do_file_mark(panel, {i}, FALSE)
      BY <1>1, <2>2 DEF p, mark
    <3>2. Good(p) /\ Wanted(p, wanted \ {<<panel.cwd, panel.list[j].name>> : j \in {i}})
      BY <1>1, <3>1, OffIsWanted
    <3>3. wanted' = wanted \ {<<panel.cwd, panel.list[j].name>> : j \in {i}}
      BY <1>3, <2>2 DEF Here
    <3> QED
      BY <3>2, <3>3
  <2>3. CASE panel.list[i].name # DotDot /\ ~ panel.list[i].marked
    <3> HIDE DEF i, mark, p
    <3>1. p = do_file_mark(panel, {i}, TRUE)
      BY <1>1, <2>3 DEF p, mark
    <3>2. Good(p) /\ Wanted(p, wanted \cup {<<panel.cwd, panel.list[j].name>> :
                                              j \in {j \in {i} : panel.list[j].name # DotDot}})
      BY <1>1, <3>1, OnIsWanted
    <3>3. wanted' = wanted \cup {<<panel.cwd, panel.list[j].name>> : j \in {j \in {i} : panel.list[j].name # DotDot}}
      BY <1>3, <2>3 DEF Here
    <3> QED
      BY <3>2, <3>3
  <2> QED
    BY <2>1, <2>2, <2>3
<1> HIDE DEF p
<1> DEFINE k == Min({i + down, Len(p.list)})
<1>7. k \in DOMAIN p.list
  <2>1. DOMAIN p.list = 1..Len(p.list) /\ Len(p.list) \in Nat \ {0} /\ i \in Nat \ {0}
    BY <1>1, <1>6 DEF Good, Shape, IsList
  <2> QED
    BY <2>1, LeastOfTwo
<1> HIDE DEF k
<1>8. Good(panel') /\ From(p, panel')
  BY <1>2, <1>6, <1>7, CursorGood DEF k
<1>9. Wanted(panel', wanted')
  BY <1>6, <1>8, StaysWanted DEF Good, Shape
<1> QED
  BY <1>4, <1>5, <1>8, <1>9, IdleArrived

LEMMA SelectKeeps == ASSUME PInv, NEW mark \in BOOLEAN, SelectCmd(mark) PROVE PInv'
<1>1. PICK S \in SUBSET DOMAIN panel.list : Mark(S, mark)
  BY DEF SelectCmd
<1> DEFINE T == {i \in S : panel.list[i].name # DotDot}
<1>2. /\ panel' = do_file_mark(panel, S, mark)
      /\ wanted' = IF mark THEN wanted \cup {Here(i) : i \in T} ELSE wanted \ {Here(i) : i \in T}
  BY <1>1 DEF Mark
<1>3. Good(panel) /\ Wanted(panel, wanted) /\ wanted \subseteq Dir \X AnyName
  BY DEF PInv, WorkType
<1>4. {Here(i) : i \in T} = {<<panel.cwd, panel.list[i].name>> : i \in T}
      /\ {Here(i) : i \in T} \subseteq Dir \X AnyName
  BY <1>3, HereIsPlace DEF Here
<1>5. UNCHANGED <<size, fast_reload, changes>> /\ pc' = "idle" /\ op' = op /\ force' = force
  BY DEF SelectCmd, work
<1>6. wanted' \subseteq Dir \X AnyName
  BY <1>2, <1>3, <1>4
<1>7. Good(panel') /\ Wanted(panel', wanted')
  <2>1. CASE mark
    BY <1>2, <1>3, <1>4, <2>1, OnIsWanted
  <2>2. CASE ~ mark
    <3>1. T \in SUBSET S /\ panel' = do_file_mark(panel, S, FALSE)
      BY <1>2, <2>2
    <3>2. wanted' = wanted \ {<<panel.cwd, panel.list[i].name>> : i \in T}
      BY <1>2, <1>4, <2>2
    <3> HIDE DEF T
    <3> QED
      BY <1>3, <3>1, <3>2, OffIsWanted
  <2> QED
    BY <2>1, <2>2
<1> QED
  BY <1>5, <1>6, <1>7, IdleArrived

LEMMA ReverseKeeps == ASSUME PInv, reverse_selection_cmd PROVE PInv'
<1> DEFINE files == {i \in DOMAIN panel.list : ~ IsDir(panel.list[i])}
           off == files \cap Marked(panel)
           on == files \ off
           p == do_file_mark(panel, off, FALSE)
           w == wanted \ {<<panel.cwd, panel.list[i].name>> : i \in off}
<1>1. Good(panel) /\ Wanted(panel, wanted) /\ wanted \subseteq Dir \X AnyName
  BY DEF PInv, WorkType
<1>2. off \in SUBSET DOMAIN panel.list /\ off \in SUBSET off /\ on \in SUBSET DOMAIN panel.list
  OBVIOUS
<1>3. panel' = do_file_mark(p, on, TRUE) /\ wanted' = (wanted \ {Here(i) : i \in off}) \cup {Here(i) : i \in on}
  BY DEF reverse_selection_cmd
<1>4. \A i \in on : panel.list[i].name # DotDot
  BY DEF IsDir
<1>5. UNCHANGED <<size, fast_reload, changes>> /\ pc' = "idle" /\ op' = op /\ force' = force
  BY DEF reverse_selection_cmd, work
<1>6. wanted' \subseteq Dir \X AnyName
  BY <1>1, <1>2, <1>3, HereIsPlace
<1> HIDE DEF off, on
<1>7. /\ Good(p) /\ p.cwd = panel.cwd /\ DOMAIN p.list = DOMAIN panel.list /\ Wanted(p, w)
      /\ \A i \in DOMAIN panel.list : p.list[i].name = panel.list[i].name
  <2>1. p = do_file_mark(panel, off, FALSE)
    OBVIOUS
  <2> HIDE DEF p
  <2>2. /\ Good(p) /\ p.cwd = panel.cwd /\ SameNames(panel, p)
        /\ Wanted(p, wanted \ {<<panel.cwd, panel.list[i].name>> : i \in off})
    BY <1>1, <1>2, <2>1, OffIsWanted
  <2> QED
    BY <2>2 DEF SameNames
<1> HIDE DEF p
<1>8. /\ Good(panel')
      /\ Wanted(panel', w \cup {<<p.cwd, p.list[i].name>> : i \in {i \in on : p.list[i].name # DotDot}})
  <2> HIDE DEF w
  <2> QED
    BY <1>2, <1>3, <1>7, OnIsWanted
<1>9. {i \in on : p.list[i].name # DotDot} = on
  BY <1>2, <1>4, <1>7
<1>10. {<<p.cwd, p.list[i].name>> : i \in on} = {Here(i) : i \in on}
  BY <1>2, <1>7 DEF Here
<1>11. w = wanted \ {Here(i) : i \in off}
  BY DEF Here
<1>12. wanted' = w \cup {<<p.cwd, p.list[i].name>> : i \in {i \in on : p.list[i].name # DotDot}}
  BY <1>3, <1>9, <1>10, <1>11
<1> QED
  BY <1>5, <1>6, <1>8, <1>12, IdleArrived

LEMMA DirsizesKeeps == ASSUME PInv, dirsizes_cmd PROVE PInv'
<1> DEFINE n == Len(panel.list)
           due(e) == e.name = Sub /\ (panel.dirs_marked = 0 \/ e.marked)
           l == [i \in 1..n |-> IF due(panel.list[i])
                                THEN [panel.list[i] EXCEPT !.size = SizeBelow, !.computed = TRUE]
                                ELSE panel.list[i]]
           p == [panel EXCEPT !.list = l]
<1>1. /\ Good(panel) /\ Shape(panel) /\ Tally(panel) /\ wanted \subseteq Dir \X AnyName
      /\ n \in Nat \ {0} /\ DOMAIN panel.list = 1..n
      /\ \A i \in 1..n : EntryOK(panel.list[i])
  BY DEF PInv, WorkType, Good, Shape, IsList
<1>2. panel' = recalculate_panel_summary(p)
  BY <1>1 DEF dirsizes_cmd
<1>3. UNCHANGED <<size, fast_reload, changes, wanted>> /\ pc' = "idle" /\ op' = op /\ force' = force
  BY DEF dirsizes_cmd, work
<1>4. \A i \in 1..n : EntryOK(l[i]) /\ l[i].name = panel.list[i].name /\ l[i].marked = panel.list[i].marked
  BY <1>1 DEF EntryOK
<1>5. l = [i \in 1..n |-> l[i]]
  OBVIOUS
<1> HIDE DEF l
<1>6. IsList(l) /\ DOMAIN l = 1..n
  <2>1. \A i, j \in 1..n : i # j => l[i].name # l[j].name
    BY <1>1, <1>4 DEF Shape, IsList
  <2> QED
    BY <1>1, <1>4, <1>5, <2>1, ListOf
<1>7. /\ DOMAIN p = Fields /\ p.cwd = panel.cwd /\ p.is_panelized = panel.is_panelized
      /\ p.dir_stat = panel.dir_stat /\ p.list = l /\ p.selected = panel.selected
  BY <1>1 DEF Shape, Fields
<1> HIDE DEF p
<1>8. Shape(p)
  BY <1>1, <1>6, <1>7 DEF Shape
<1>9. Marked(p) = Marked(panel)
  BY <1>1, <1>4, <1>6, <1>7 DEF Marked
<1>10. /\ Shape(panel') /\ Tally(panel') /\ panel'.cwd = p.cwd /\ panel'.selected = p.selected
       /\ DOMAIN panel'.list = DOMAIN p.list
       /\ \A i \in DOMAIN p.list : panel'.list[i].name = p.list[i].name
       /\ Marked(panel') = {i \in Marked(p) : p.list[i].name # DotDot}
  BY <1>2, <1>8, Recalculated DEF SameNames
<1>11. Good(panel')
  BY <1>1, <1>6, <1>7, <1>10 DEF Good
<1>12. From(panel, panel')
  <2>1. \A i \in Marked(panel') : i \in Marked(panel) /\ panel'.list[i].name = panel.list[i].name
    BY <1>1, <1>4, <1>6, <1>7, <1>9, <1>10 DEF Marked
  <2> QED
    BY <1>7, <1>10, <2>1 DEF From
<1> QED
  BY <1>1, <1>3, <1>11, <1>12, PanelFrom, IdleArrived

LEMMA MoveCursorKeeps == ASSUME PInv, MoveCursor PROVE PInv'
<1>1. PICK i \in DOMAIN panel.list : panel' = [panel EXCEPT !.selected = i]
  BY DEF MoveCursor
<1>2. UNCHANGED <<size, fast_reload, changes, wanted>> /\ pc' = "idle" /\ op' = op /\ force' = force
  BY DEF MoveCursor, work
<1>3. Good(panel) /\ wanted \subseteq Dir \X AnyName
  BY DEF PInv, WorkType
<1>4. Good(panel') /\ From(panel, panel')
  BY <1>1, <1>3, CursorGood
<1> QED
  BY <1>2, <1>3, <1>4, PanelFrom, IdleArrived

-----------------------------------------------------------------------------
(* Loading keeps the invariant *)

LEMMA RereadKeeps == ASSUME PInv, reread_cmd PROVE PInv'
<1>1. /\ panel' \in update_panels(size, panel, TRUE) /\ TRUE \in BOOLEAN /\ wanted' = Kept(wanted, panel')
      /\ UNCHANGED <<size, fast_reload, changes>> /\ pc' = "idle" /\ op' = op /\ force' = force
  BY DEF reread_cmd, work
<1>2. Good(panel) /\ wanted \subseteq Dir \X AnyName /\ Wanted(panel, wanted)
  BY DEF PInv, WorkType
<1>3. Good(panel') /\ From(panel, panel')
  BY <1>1, <1>2, Updated
<1>4. Wanted(panel', wanted') /\ wanted' \subseteq wanted
  BY <1>1, <1>2, <1>3, StillWanted
<1> QED
  BY <1>1, <1>2, <1>3, <1>4, IdleArrived

\* A panel with a new list and nothing marked.
LEMMA CleanGood ==
  ASSUME NEW r, DOMAIN r = Fields, r.cwd \in Dir, IsList(r.list), \A i \in DOMAIN r.list : r.list[i].marked = FALSE,
         r.is_panelized \in BOOLEAN, r.selected = 1, r.marked = 0, r.dir_stat \subseteq Dir
  PROVE  Good(r) /\ Marked(r) = {}
<1>1. Marked(r) = {}
  BY DEF Marked
<1>2. 1 \in DOMAIN r.list
  BY DEF IsList
<1>3. Shape(r)
  BY DEF Shape
<1>4. Tally(r)
  BY <1>1, FS_EmptySet DEF Tally
<1> QED
  BY <1>1, <1>2, <1>3, <1>4 DEF Good

LEMMA CdKeeps == ASSUME PInv, NEW d \in Dir, do_cd(d) PROVE PInv'
<1>1. PICK l \in ListsOf(size, d, {}) :
        panel' = try_to_select([panel_clean_dir(panel) EXCEPT !.cwd = d, !.list = l],
                               IF d = "above" THEN Sub ELSE DotDot)
  BY DEF do_cd, do_load_dir
<1>2. UNCHANGED <<size, fast_reload, changes>> /\ wanted' = {} /\ pc' = "idle" /\ op' = op /\ force' = force
  BY DEF do_cd, work
<1>3. Good(panel)
  BY DEF PInv
<1> DEFINE c == [panel_clean_dir(panel) EXCEPT !.cwd = d, !.list = l]
<1>4. /\ DOMAIN c = Fields /\ c.cwd = d /\ c.list = l /\ c.is_panelized = FALSE /\ c.selected = 1
      /\ c.marked = 0 /\ c.dir_stat = panel.dir_stat /\ panel.dir_stat \subseteq Dir
  BY <1>3 DEF panel_clean_dir, Good, Shape, Fields
<1>5. IsList(l) /\ \A i \in DOMAIN l : l[i].marked = FALSE
  BY Loaded DEF IsList, EntryOK
<1> HIDE DEF c
<1>6. Good(c) /\ Marked(c) = {}
  BY <1>4, <1>5, CleanGood
<1>7. Good(panel') /\ Marked(panel') = {}
  <2>1. panel' = try_to_select(c, IF d = "above" THEN Sub ELSE DotDot)
    BY <1>1 DEF c
  <2>2. Shape(c) /\ Tally(c)
    BY <1>6 DEF Good
  <2> QED
    BY <1>6, <2>1, <2>2, Selected DEF Good
<1>8. wanted' \subseteq Dir \X AnyName /\ Wanted(panel', wanted')
  BY <1>2, <1>7 DEF Wanted
<1> QED
  BY <1>2, <1>7, <1>8, IdleArrived

\* There are finitely many names.
LEMMA AnyNameFinite == IsFiniteSet(AnyName)
<1>1. IsFiniteSet(File) /\ IsFiniteSet(File \cup {Sub, DotDot})
  <2>1. IsFiniteSet(File) /\ IsFiniteSet({Sub}) /\ IsFiniteSet({DotDot})
    BY PanelAssumption, FS_Singleton DEF PanelAssumption
  <2>2. File \cup {Sub, DotDot} = (File \cup {Sub}) \cup {DotDot}
    OBVIOUS
  <2> QED
    BY <2>1, <2>2, FS_Union
<1>2. IsFiniteSet(Path)
  <2> DEFINE g == [n \in File |-> <<Sub, n>>]
  <2>1. g \in [File -> Path] /\ \A y \in Path : \E n \in File : g[n] = y
    BY DEF Path
  <2>2. g \in Surjection(File, Path)
    BY <2>1, Fun_IsSurj
  <2> QED
    BY <1>1, <2>2, FS_Surjection
<1> QED
  BY <1>1, <1>2, FS_Union DEF AnyName

LEMMA PanelizeKeeps == ASSUME PInv, do_external_panelize PROVE PInv'
<1>1. Good(panel)
  BY DEF PInv
<1>2. PICK S \in SUBSET (AnyName \ {DotDot}) :
        \E names \in SetToSeqs({n \in S : lstat(size, panel.cwd, n)}) :
          LET l == [i \in DOMAIN names |-> [name |-> names[i], size |-> SizeOf(size, panel.cwd, names[i]),
                                            computed |-> FALSE, marked |-> FALSE]]
          IN  panel' \in panel_re_sort([panel_clean_dir(panel) EXCEPT
                                          !.list = IF l = <<>> THEN ZeroDir ELSE l, !.is_panelized = TRUE])
  BY DEF do_external_panelize
<1> DEFINE found == {n \in S : lstat(size, panel.cwd, n)}
           n == Cardinality(found)
           k(q) == [i \in DOMAIN q |-> [name |-> q[i], size |-> SizeOf(size, panel.cwd, q[i]),
                                        computed |-> FALSE, marked |-> FALSE]]
<1>3. PICK q \in SetToSeqs(found) :
        panel' \in panel_re_sort([panel_clean_dir(panel) EXCEPT
                                    !.list = IF k(q) = <<>> THEN ZeroDir ELSE k(q), !.is_panelized = TRUE])
  BY <1>2
<1>4. UNCHANGED <<size, fast_reload, changes>> /\ wanted' = {} /\ pc' = "idle" /\ op' = op /\ force' = force
  BY DEF do_external_panelize, work
<1>5. found \subseteq AnyName
  OBVIOUS
<1>6. q \in [1..n -> found] /\ \A i, j \in 1..n : i # j => q[i] # q[j]
  BY <1>3 DEF SetToSeqs
<1>7. n \in Nat
  <2>1. IsFiniteSet(found)
    <3>1. IsFiniteSet(AnyName)
      BY AnyNameFinite
    <3> QED
      BY <1>5, <3>1, FS_Subset
  <2> QED
    BY <2>1, FS_CardinalityType
<1> DEFINE l == IF k(q) = <<>> THEN ZeroDir ELSE k(q)
           c == [panel_clean_dir(panel) EXCEPT !.list = l, !.is_panelized = TRUE]
<1>8. IsList(l) /\ \A i \in DOMAIN l : l[i].marked = FALSE
  <2>1. CASE k(q) = <<>>
    <3>1. ZeroDir \in ListsOf(size, "above", {})
      BY DEF ListsOf
    <3>2. IsList(ZeroDir) /\ \A i \in DOMAIN ZeroDir : ~ ZeroDir[i].marked
      BY <3>1, Loaded
    <3> QED
      BY <2>1, <3>2 DEF IsList, EntryOK
  <2>2. CASE k(q) # <<>>
    <3> DEFINE m == k(q)
    <3>1. /\ DOMAIN m = 1..n /\ m = [i \in 1..n |-> m[i]]
          /\ \A i \in 1..n : EntryOK(m[i]) /\ m[i].name = q[i] /\ m[i].marked = FALSE
      BY <1>5, <1>6 DEF EntryOK
    <3>2. l = m
      BY <2>2
    <3>3. n # 0
      <4> SUFFICES ASSUME n = 0 PROVE m = <<>>
        BY <2>2
      <4> HIDE DEF m, n
      <4>1. DOMAIN m = {} /\ m = [i \in {} |-> m[i]]
        BY <3>1
      <4> QED
        BY <4>1
    <3> HIDE DEF m, l, n
    <3>4. IsList(m) /\ DOMAIN m = 1..n
      BY <1>6, <1>7, <3>1, <3>3, ListOf
    <3> QED
      BY <3>1, <3>2, <3>4
  <2> QED
    BY <2>1, <2>2
<1>9. panel' \in panel_re_sort(c)
  BY <1>3
<1> HIDE DEF l, c
<1>10. /\ DOMAIN c = Fields /\ c.cwd \in Dir /\ c.list = l /\ c.is_panelized = TRUE /\ c.selected = 1
       /\ c.marked = 0 /\ c.dir_stat \subseteq Dir
  BY <1>1 DEF panel_clean_dir, Good, Shape, Fields, c
<1>11. Good(c) /\ Marked(c) = {}
  BY <1>8, <1>10, CleanGood
<1>12. Good(panel') /\ Marked(panel') = {}
  BY <1>9, <1>11, Sorted DEF From
<1>13. wanted' \subseteq Dir \X AnyName /\ Wanted(panel', wanted')
  BY <1>4, <1>12 DEF Wanted
<1> QED
  BY <1>4, <1>12, <1>13, IdleArrived

\* Marks that come from marks come from the first ones.
LEMMA FromTwice ==
  ASSUME NEW p, NEW q, NEW r, From(p, q), From(q, r)
  PROVE  From(p, r)
  BY DEF From

LEMMA SortKeeps == ASSUME PInv, NEW unsorted \in BOOLEAN, panel_set_sort_order(unsorted) PROVE PInv'
<1>1. /\ UNCHANGED <<size, fast_reload, changes>> /\ pc' = "idle" /\ op' = op /\ force' = force
      /\ wanted' = Kept(wanted, panel')
  BY DEF panel_set_sort_order, work
<1>2. Good(panel) /\ wanted \subseteq Dir \X AnyName /\ Wanted(panel, wanted)
  BY DEF PInv, WorkType
<1>3. PICK p : /\ panel' \in panel_re_sort(p)
               /\ \/ p = panel
                  \/ \E q \in panel_reload(size, panel) : p = try_to_select(q, panel.list[panel.selected].name)
  BY DEF panel_set_sort_order
<1>4. Good(p) /\ From(panel, p)
  <2>1. CASE p = panel
    BY <1>2, <2>1, FromSelf
  <2>2. CASE p # panel
    <3>1. PICK q \in panel_reload(size, panel) : p = try_to_select(q, panel.list[panel.selected].name)
      BY <1>3, <2>2
    <3>2. Good(q) /\ From(panel, q)
      BY <1>2, Reloaded
    <3>3. Shape(q) /\ Tally(q)
      BY <3>2 DEF Good
    <3>4. /\ Shape(p) /\ p.selected \in DOMAIN p.list /\ Tally(p) /\ p.list = q.list
          /\ p.cwd = q.cwd /\ Marked(p) = Marked(q)
      BY <3>1, <3>3, Selected
    <3> QED
      BY <3>2, <3>4 DEF Good, From
  <2> QED
    BY <2>1, <2>2
<1>5. Good(panel') /\ From(p, panel')
  BY <1>3, <1>4, Sorted
<1>6. Good(panel') /\ From(panel, panel')
  BY <1>4, <1>5, FromTwice
<1>7. Wanted(panel', wanted') /\ wanted' \subseteq wanted
  BY <1>1, <1>2, <1>6, StillWanted
<1> QED
  BY <1>1, <1>2, <1>6, <1>7, IdleArrived

LEMMA ExecuteKeeps == ASSUME PInv, shell_execute PROVE PInv'
<1>1. UNCHANGED <<size, fast_reload, changes, wanted>> /\ pc' = "command" /\ op' = op /\ force' = force
  BY DEF shell_execute
<1>2. Good(panel)
  BY DEF PInv
<1>3. Good(panel') /\ From(panel, panel')
  BY <1>2, SavedGood, FromSelf DEF shell_execute
<1>4. WorkType' /\ AtInv'
  BY <1>1 DEF PInv, WorkType, AtInv
<1> QED
  BY <1>1, <1>3, <1>4, PanelFrom, Arrived

LEMMA CommandDoneKeeps == ASSUME PInv, CommandDone PROVE PInv'
<1>1. /\ panel' \in update_panels(size, panel, FALSE) /\ FALSE \in BOOLEAN /\ wanted' = Kept(wanted, panel')
      /\ UNCHANGED <<size, fast_reload, changes>> /\ pc' = "idle" /\ op' = "NONE" /\ force' = FALSE
  BY DEF CommandDone, AtRest
<1>2. Good(panel) /\ wanted \subseteq Dir \X AnyName /\ Wanted(panel, wanted)
  BY DEF PInv, WorkType
<1>3. Good(panel') /\ From(panel, panel')
  BY <1>1, <1>2, Updated
<1>4. Wanted(panel', wanted') /\ wanted' \subseteq wanted
  BY <1>1, <1>2, <1>3, StillWanted
<1> QED
  BY <1>1, <1>2, <1>3, <1>4, IdleArrived
-----------------------------------------------------------------------------
(* Operations keep the invariant *)

LEMMA OperateKeeps ==
  ASSUME PInv, NEW o \in {"COPY", "DELETE"}, NEW f \in BOOLEAN, panel_operate(o, f) PROVE PInv'
<1> DEFINE single == panel.marked <= 1 \/ f
           i == IF ~ f /\ panel.marked # 0 THEN FirstMarked(panel, 1)
                ELSE IF single THEN panel.selected ELSE 1
<1>1. /\ panel' \in save_cwds_stat(panel) /\ UNCHANGED <<size, fast_reload, changes, wanted>> /\ pc = "idle"
      /\ \/ UNCHANGED work
         \/ pc' = (IF single THEN "single" ELSE "many") /\ op' = o /\ force' = f /\ at' = i
  BY DEF panel_operate
<1>2. Good(panel)
  BY DEF PInv
<1>3. Good(panel') /\ From(panel, panel') /\ panel'.list = panel.list
  BY <1>1, <1>2, SavedGood
<1>4. i \in DOMAIN panel.list
  <2>1. IsList(panel.list) /\ DOMAIN panel.list = 1..Len(panel.list) /\ Len(panel.list) \in Nat \ {0}
    BY <1>2 DEF Good, Shape, IsList
  <2>2. panel.selected \in DOMAIN panel.list
    BY <1>2 DEF Good
  <2>3. CASE panel.marked # 0
    <3>1. Marked(panel) # {}
      BY <1>2, <2>1, <2>3, MarkedFinite DEF Good, Tally
    <3>2. FirstMarked(panel, 1) \in Marked(panel)
      BY <2>1, <3>1, FirstMarkedIn
    <3> QED
      BY <2>1, <2>2, <3>2 DEF Marked
  <2>4. CASE panel.marked = 0
    BY <2>1, <2>2, <2>4
  <2> QED
    BY <2>3, <2>4
<1> HIDE DEF i, single
<1>5. WorkType'
  BY <1>1 DEF PInv, WorkType, work
<1>6. AtInv'
  <2>1. CASE UNCHANGED work
    BY <1>1, <2>1 DEF AtInv, work
  <2>2. CASE at' = i
    <3>1. i \in Nat \ {0}
      BY <1>2, <1>4 DEF Good, Shape, IsList
    <3> QED
      BY <1>3, <1>4, <2>2, <3>1 DEF AtInv
  <2> QED
    BY <1>1, <2>1, <2>2
<1> QED
  BY <1>1, <1>3, <1>5, <1>6, PanelFrom, Arrived

LEMMA CancelledKeeps == ASSUME PInv, OperateCancelled PROVE PInv'
<1>1. /\ panel' \in save_cwds_stat(panel) /\ UNCHANGED <<size, fast_reload, changes, wanted>>
      /\ pc' = "idle" /\ op' = op /\ force' = force
  BY DEF OperateCancelled, work
<1>2. Good(panel) /\ wanted \subseteq Dir \X AnyName
  BY DEF PInv, WorkType
<1>3. Good(panel') /\ From(panel, panel')
  BY <1>1, <1>2, SavedGood
<1> QED
  BY <1>1, <1>2, <1>3, PanelFrom, IdleArrived

\* Files that go leave their sizes in range.
LEMMA WithoutType ==
  ASSUME WorkType, NEW P
  PROVE  Without(P) \in [Place -> 0..MaxSize]
  BY PanelAssumption DEF WorkType, Without, PanelAssumption

LEMMA SingleKeeps == ASSUME PInv, OperateSingle PROVE PInv'
<1>1. UNCHANGED <<fast_reload, changes>> /\ pc' = "idle" /\ op' = "NONE" /\ force' = FALSE /\ at' = 0
  BY DEF OperateSingle, AtRest
<1>2. /\ Good(panel) /\ wanted \subseteq Dir \X AnyName /\ FALSE \in BOOLEAN /\ Wanted(panel, wanted)
      /\ WorkType /\ panel.cwd \in Dir
  BY DEF PInv, WorkType, Good, Shape
<1>3. /\ size' \in [Place -> 0..MaxSize] /\ Good(panel') /\ Wanted(panel', wanted')
      /\ wanted' \subseteq Dir \X AnyName
  <2>1. ASSUME NEW p, p \in Aged(IF force THEN panel ELSE unmark_files(panel), Changed(Target(at))),
               size' = Without(Target(at)), panel' \in update_panels(size', p, FALSE),
               wanted' = Kept(IF force THEN wanted ELSE wanted \ {Here(at)}, panel')
        PROVE  /\ size' \in [Place -> 0..MaxSize] /\ Good(panel') /\ Wanted(panel', wanted')
               /\ wanted' \subseteq Dir \X AnyName
    <3>1. size' \in [Place -> 0..MaxSize] /\ wanted' \subseteq Dir \X AnyName
      BY <1>2, <2>1, WithoutType DEF Kept
    <3>2. CASE force
      <4>1. Good(p) /\ From(panel, p)
        BY <1>2, <2>1, <3>2, AgedGood
      <4>2. Good(panel') /\ From(p, panel')
        BY <1>2, <2>1, <4>1, Updated
      <4>3. From(panel, panel')
        BY <4>1, <4>2, FromTwice
      <4>4. wanted' = Kept(wanted, panel')
        BY <2>1, <3>2
      <4> QED
        BY <1>2, <3>1, <4>2, <4>3, <4>4, StillWanted
    <3>3. CASE ~ force
      <4> DEFINE u == unmark_files(panel)
      <4>1. Good(u) /\ Marked(u) = {}
        BY <1>2, Unmarked
      <4>2. Good(p) /\ Marked(p) = {}
        BY <2>1, <3>3, <4>1, AgedGood
      <4>3. Good(panel') /\ From(p, panel')
        BY <1>2, <2>1, <4>2, Updated
      <4> QED
        BY <3>1, <4>2, <4>3 DEF From, Wanted
    <3> QED
      BY <3>2, <3>3
  <2>2. ASSUME NEW P, size' = Without(P), NEW p, p \in Aged(panel, Changed(P)),
               panel' \in update_panels(size', p, FALSE), wanted' = Kept(wanted, panel')
        PROVE  /\ size' \in [Place -> 0..MaxSize] /\ Good(panel') /\ Wanted(panel', wanted')
               /\ wanted' \subseteq Dir \X AnyName
    <3>1. size' \in [Place -> 0..MaxSize] /\ wanted' \subseteq Dir \X AnyName
      BY <1>2, <2>2, WithoutType DEF Kept
    <3>2. Good(p) /\ From(panel, p)
      BY <1>2, <2>2, AgedGood
    <3>3. Good(panel') /\ From(p, panel')
      BY <1>2, <2>2, <3>2, Updated
    <3>4. From(panel, panel')
      BY <3>2, <3>3, FromTwice
    <3> QED
      BY <1>2, <2>2, <3>1, <3>3, <3>4, StillWanted
  <2> QED
    BY <2>1, <2>2 DEF OperateSingle
<1>4. WorkType'
  BY <1>1, <1>2, <1>3 DEF WorkType
<1>5. AtInv'
  BY <1>1 DEF AtInv
<1> QED
  BY <1>3, <1>4, <1>5, Arrived

LEMMA NextKeeps == ASSUME PInv, OperateNext PROVE PInv'
<1>1. UNCHANGED <<fast_reload, changes, pc, op, force>> /\ pc = "many" /\ at \in 1..Len(panel.list)
      /\ at' = FirstMarked(panel, at + 1)
  BY DEF OperateNext, PInv, AtInv, Good, Shape, IsList
<1>2. /\ Good(panel) /\ wanted \subseteq Dir \X AnyName /\ Wanted(panel, wanted)
      /\ WorkType /\ panel.cwd \in Dir /\ IsList(panel.list)
  BY DEF PInv, WorkType, Good, Shape
<1>3. /\ size' \in [Place -> 0..MaxSize] /\ Good(panel') /\ Wanted(panel', wanted')
      /\ wanted' \subseteq Dir \X AnyName
  <2>1. CASE size' = Without(Target(at)) /\ panel' \in Aged(do_file_mark(panel, {at}, FALSE), Changed(Target(at)))
             /\ wanted' = wanted \ {Here(at)}
    <3> DEFINE u == do_file_mark(panel, {at}, FALSE)
    <3>1. {at} \in SUBSET DOMAIN panel.list /\ {at} \in SUBSET {at}
      BY <1>1, <1>2 DEF IsList
    <3>2. wanted' = wanted \ {<<panel.cwd, panel.list[i].name>> : i \in {at}}
      BY <2>1 DEF Here
    <3> HIDE DEF u
    <3>3. Good(u) /\ u.cwd = panel.cwd /\ Wanted(u, wanted')
      BY <1>2, <3>1, <3>2, OffIsWanted DEF u
    <3>4. Good(panel') /\ From(u, panel')
      BY <2>1, <3>3, AgedGood DEF u
    <3>5. Wanted(panel', wanted')
      BY <1>2, <3>3, <3>4, StaysWanted
    <3> QED
      BY <1>2, <2>1, <3>4, <3>5, WithoutType
  <2>2. CASE wanted' = wanted /\ \E P \in Remnant(at) : size' = Without(P) /\ panel' \in Aged(panel, Changed(P))
    <3>1. PICK P : size' = Without(P) /\ panel' \in Aged(panel, Changed(P))
      BY <2>2
    <3>2. Good(panel') /\ From(panel, panel')
      BY <1>2, <3>1, AgedGood
    <3> QED
      BY <1>2, <2>2, <3>1, <3>2, StaysWanted, WithoutType
  <2> QED
    BY <2>1, <2>2 DEF OperateNext
<1>4. WorkType'
  BY <1>1, <1>2, <1>3 DEF WorkType
<1>5. AtInv'
  <2>1. at' \in Nat \ {0}
    BY <1>1, <1>2, FirstMarkedIn
  <2> QED
    BY <1>1, <2>1 DEF AtInv
<1> QED
  BY <1>3, <1>4, <1>5, Arrived

LEMMA DoneKeeps == ASSUME PInv, OperateDone PROVE PInv'
<1>1. /\ panel' \in update_panels(size, panel, FALSE) /\ FALSE \in BOOLEAN /\ wanted' = Kept(wanted, panel')
      /\ UNCHANGED <<size, fast_reload, changes>> /\ pc' = "idle" /\ op' = "NONE" /\ force' = FALSE
  BY DEF OperateDone, AtRest
<1>2. Good(panel) /\ wanted \subseteq Dir \X AnyName /\ Wanted(panel, wanted)
  BY DEF PInv, WorkType
<1>3. Good(panel') /\ From(panel, panel')
  BY <1>1, <1>2, Updated
<1>4. Wanted(panel', wanted') /\ wanted' \subseteq wanted
  BY <1>1, <1>2, <1>3, StillWanted
<1> QED
  BY <1>1, <1>2, <1>3, <1>4, IdleArrived

\* next_file ends, since a panel that counts a mark has one.
LEMMA NextChmodAt ==
  ASSUME NEW p, Good(p), NextChmod(p), NEW l, l = p.list, PInv
  PROVE  /\ pc' \in {"idle", "chmod"} /\ op' \in {"NONE", "COPY", "DELETE"} /\ force' \in BOOLEAN
         /\ pc' = "chmod" => at' \in DOMAIN l
<1> DEFINE i == IF p.marked # 0 THEN FirstMarked(p, 1) ELSE p.selected
<1>1. i \in DOMAIN p.list
  <2>1. IsList(p.list)
    BY DEF Good, Shape
  <2>2. CASE p.marked # 0
    <3>1. Marked(p) # {}
      BY <2>1, <2>2, MarkedFinite DEF Good, Tally
    <3>2. FirstMarked(p, 1) \in Marked(p)
      BY <2>1, <3>1, FirstMarkedIn
    <3> QED
      BY <2>2, <3>2 DEF Marked
  <2>3. CASE p.marked = 0
    BY <2>3 DEF Good
  <2> QED
    BY <2>2, <2>3
<1>2. \/ pc' = "chmod" /\ at' = i /\ UNCHANGED <<op, force>>
      \/ AtRest
  BY DEF NextChmod
<1> HIDE DEF i
<1> QED
  BY <1>1, <1>2 DEF AtRest, PInv, WorkType

LEMMA ChmodKeeps == ASSUME PInv, chmod_cmd PROVE PInv'
<1>1. NextChmod(panel) /\ UNCHANGED <<size, panel, fast_reload, wanted, changes>>
  BY DEF chmod_cmd
<1>2. Good(panel)
  BY DEF PInv
<1>3. /\ pc' \in {"idle", "chmod"} /\ op' \in {"NONE", "COPY", "DELETE"} /\ force' \in BOOLEAN
      /\ pc' = "chmod" => at' \in DOMAIN panel.list
  BY <1>1, <1>2, NextChmodAt
<1>4. WorkType' /\ AtInv'
  BY <1>1, <1>3 DEF PInv, WorkType, AtInv
<1>5. Good(panel') /\ Wanted(panel', wanted')
  BY <1>1, <1>2 DEF PInv
<1> QED
  BY <1>4, <1>5, Arrived

LEMMA EnterKeeps == ASSUME PInv, ChmodEnter PROVE PInv'
<1> DEFINE p == IF panel.marked # 0 THEN do_file_mark(panel, {at}, FALSE) ELSE panel
           w == IF panel.marked # 0 THEN wanted \ {Here(at)} ELSE wanted
<1>1. /\ UNCHANGED <<size, fast_reload, changes>> /\ pc = "chmod"
      /\ \/ panel' = p /\ wanted' = w /\ NextChmod(p)
         \/ panel' \in update_panels(size, p, FALSE) /\ wanted' = Kept(w, panel') /\ AtRest
  BY DEF ChmodEnter
<1>2. /\ Good(panel) /\ wanted \subseteq Dir \X AnyName /\ Wanted(panel, wanted) /\ FALSE \in BOOLEAN
      /\ at \in DOMAIN panel.list /\ panel.cwd \in Dir
  BY <1>1 DEF PInv, WorkType, AtInv, Good, Shape
<1>3. Good(p) /\ Wanted(p, w) /\ p.cwd = panel.cwd
  <2>1. CASE panel.marked # 0
    <3>1. w = wanted \ {<<panel.cwd, panel.list[i].name>> : i \in {at}}
      BY <2>1 DEF Here
    <3> HIDE DEF p, w
    <3>2. {at} \in SUBSET DOMAIN panel.list /\ {at} \in SUBSET {at} /\ p = do_file_mark(panel, {at}, FALSE)
      BY <1>2, <2>1 DEF p
    <3> QED
      BY <1>2, <3>1, <3>2, OffIsWanted
  <2>2. CASE panel.marked = 0
    BY <1>2, <2>2
  <2> QED
    BY <2>1, <2>2
<1>4. w \subseteq Dir \X AnyName
  BY <1>2
<1> HIDE DEF p, w
<1>5. CASE panel' = p /\ wanted' = w /\ NextChmod(p)
  <2>1. /\ pc' \in {"idle", "chmod"} /\ op' \in {"NONE", "COPY", "DELETE"} /\ force' \in BOOLEAN
        /\ pc' = "chmod" => at' \in DOMAIN panel'.list
    BY <1>3, <1>5, NextChmodAt
  <2>2. WorkType' /\ AtInv'
    BY <1>1, <1>4, <1>5, <2>1 DEF PInv, WorkType, AtInv
  <2> QED
    BY <1>3, <1>5, <2>2, Arrived
<1>6. CASE panel' \in update_panels(size, p, FALSE) /\ wanted' = Kept(w, panel') /\ AtRest
  <2>1. Good(panel') /\ From(p, panel')
    BY <1>2, <1>3, <1>6, Updated
  <2>2. Wanted(panel', wanted') /\ wanted' \subseteq w
    BY <1>3, <1>6, <2>1, StillWanted
  <2> QED
    BY <1>1, <1>4, <1>6, <2>1, <2>2, IdleArrived DEF AtRest
<1> QED
  BY <1>1, <1>5, <1>6

LEMMA ChmodCancelKeeps == ASSUME PInv, ChmodCancel PROVE PInv'
<1>1. UNCHANGED <<size, panel, fast_reload, wanted, changes>> /\ AtRest
  BY DEF ChmodCancel
<1>2. Good(panel') /\ Wanted(panel', wanted') /\ wanted' \subseteq Dir \X AnyName
  BY <1>1 DEF PInv, WorkType
<1> QED
  BY <1>1, <1>2, IdleArrived DEF AtRest

LEMMA ApplyKeeps == ASSUME PInv, ChmodApply PROVE PInv'
<1> DEFINE gone == {i \in Marked(panel) : i > at /\ ~ lstat(size, panel.cwd, panel.list[i].name)}
           S == {i \in Marked(panel) : \A j \in gone : i <= j}
           p == do_file_mark(panel, S, FALSE)
           w == wanted \ {<<panel.cwd, panel.list[i].name>> : i \in S}
<1>1. /\ UNCHANGED <<size, fast_reload, changes>> /\ AtRest /\ FALSE \in BOOLEAN
      /\ panel' \in update_panels(size, p, FALSE) /\ wanted' = Kept(w, panel')
  BY DEF ChmodApply, Here
<1>2. Good(panel) /\ wanted \subseteq Dir \X AnyName /\ Wanted(panel, wanted) /\ panel.cwd \in Dir
  BY DEF PInv, WorkType, Good, Shape
<1>3. S \in SUBSET DOMAIN panel.list /\ S \in SUBSET S
  BY DEF Marked
<1>4. w \subseteq wanted
  OBVIOUS
<1> HIDE DEF S, p
<1>5. Good(p) /\ Wanted(p, w)
  BY <1>2, <1>3, OffIsWanted DEF p
<1> HIDE DEF w
<1>6. Good(panel') /\ From(p, panel')
  BY <1>1, <1>5, Updated
<1>7. Wanted(panel', wanted') /\ wanted' \subseteq w
  BY <1>1, <1>5, <1>6, StillWanted
<1> QED
  BY <1>1, <1>2, <1>4, <1>6, <1>7, IdleArrived DEF AtRest
-----------------------------------------------------------------------------
(* Other programs, and all steps *)

LEMMA OthersKeep ==
  ASSUME PInv, NEW f \in [Place -> 0..MaxSize], NEW D, Others(f, D) PROVE PInv'
<1>1. /\ size' = f /\ panel' \in Aged(panel, D) /\ changes < MaxChanges /\ changes' = changes + 1
      /\ UNCHANGED <<fast_reload, pc, op, force, at, wanted>>
  BY DEF Others, work
<1>2. Good(panel)
  BY DEF PInv
<1>3. Good(panel') /\ From(panel, panel') /\ panel'.list = panel.list
  BY <1>1, <1>2, AgedGood
<1>4. WorkType'
  BY <1>1, PanelAssumption DEF PInv, WorkType, PanelAssumption
<1>5. AtInv'
  BY <1>1, <1>3 DEF PInv, AtInv
<1> QED
  BY <1>1, <1>3, <1>4, <1>5, PanelFrom, Arrived

LEMMA ElsewhereKeeps == ASSUME PInv, Elsewhere PROVE PInv'
<1>1. WorkType /\ MaxSize \in Nat \ {0} /\ size \in [Place -> 0..MaxSize]
  BY PanelAssumption DEF PInv, WorkType, PanelAssumption
<1>2. CASE Appear
  <2>1. PICK q \in Place, k \in 1..MaxSize : Others([size EXCEPT ![q] = k], {q[1]})
    BY <1>2 DEF Appear
  <2>2. [size EXCEPT ![q] = k] \in [Place -> 0..MaxSize]
    BY <1>1
  <2> QED
    BY <2>1, <2>2, OthersKeep
<1>3. CASE Vanish
  <2>1. PICK q \in Place : Others(Without(Subtree(q)), Changed(Subtree(q)))
    BY <1>3 DEF Vanish
  <2> QED
    BY <1>1, <2>1, WithoutType, OthersKeep
<1>4. CASE Grow
  <2>1. PICK q \in Place : size[q] \in 1..(MaxSize - 1) /\ Others([size EXCEPT ![q] = @ + 1], {})
    BY <1>4 DEF Grow
  <2>2. [size EXCEPT ![q] = @ + 1] \in [Place -> 0..MaxSize]
    BY <1>1, <2>1
  <2> QED
    BY <2>1, <2>2, OthersKeep
<1> QED
  BY <1>2, <1>3, <1>4 DEF Elsewhere

\* The first panel has it.
LEMMA InitKeeps == ASSUME Init PROVE PInv
<1>1. PICK d \in Dir : panel \in {[cwd |-> d, list |-> l, selected |-> 1, marked |-> 0, dirs_marked |-> 0,
                                   total |-> 0, is_panelized |-> FALSE, dir_stat |-> {}] :
                                    l \in ListsOf(size, d, {})}
  BY DEF Init, do_load_dir
<1>2. PICK l \in ListsOf(size, d, {}) :
        panel = [cwd |-> d, list |-> l, selected |-> 1, marked |-> 0, dirs_marked |-> 0,
                 total |-> 0, is_panelized |-> FALSE, dir_stat |-> {}]
  BY <1>1
<1>3. IsList(l) /\ \A i \in DOMAIN l : ~ l[i].marked
  BY Loaded
<1>4. Marked(panel) = {}
  BY <1>2, <1>3 DEF Marked
<1>5. Good(panel)
  <2>1. Shape(panel) /\ 1 \in DOMAIN l
    BY <1>2, <1>3 DEF Shape, Fields, IsList
  <2> QED
    BY <1>2, <1>4, <2>1, FS_EmptySet DEF Good, Tally
<1>6. WorkType /\ AtInv
  <2>1. {0, 1} \subseteq 0..MaxSize /\ 0 \in 0..MaxChanges
    BY PanelAssumption DEF PanelAssumption
  <2>2. size \in [Place -> 0..MaxSize]
    BY <2>1 DEF Init
  <2>3. fast_reload \in BOOLEAN /\ pc = "idle" /\ op = "NONE" /\ force = FALSE /\ wanted = {} /\ changes = 0
    BY DEF Init
  <2> QED
    BY <2>1, <2>2, <2>3 DEF WorkType, AtInv
<1>7. Wanted(panel, wanted)
  BY <1>4 DEF Wanted
<1> QED
  BY <1>5, <1>6, <1>7 DEF PInv

\* A step that changes nothing keeps it.
LEMMA StutterKeeps == ASSUME PInv, UNCHANGED vars PROVE PInv'
<1>1. UNCHANGED <<size, panel, fast_reload, pc, op, force, at, wanted, changes>>
  BY DEF vars
<1>2. WorkType' /\ AtInv' /\ Good(panel') /\ Wanted(panel', wanted')
  BY <1>1 DEF PInv, WorkType, AtInv
<1> QED
  BY <1>2, Arrived

\* Every step keeps the invariant.
LEMMA StepKeeps == ASSUME PInv, [Next]_vars PROVE PInv'
<1>1. CASE Marks
  BY <1>1, MarkFileKeeps, ReverseKeeps, DirsizesKeeps, MoveCursorKeeps, SelectKeeps DEF Marks
<1>2. CASE Loads
  BY <1>2, RereadKeeps, PanelizeKeeps, ExecuteKeeps, CommandDoneKeeps, CdKeeps, SortKeeps DEF Loads
<1>3. CASE Operations
  <2>1. CASE FileCommand
    BY <2>1, CancelledKeeps, OperateKeeps DEF FileCommand
  <2> QED
    BY <1>3, <2>1, SingleKeeps, NextKeeps, DoneKeeps, ChmodKeeps, EnterKeeps, ChmodCancelKeeps, ApplyKeeps
       DEF Operations
<1>4. CASE Elsewhere
  BY <1>4, ElsewhereKeeps
<1>5. CASE UNCHANGED vars
  BY <1>5, StutterKeeps
<1> QED
  BY <1>1, <1>2, <1>3, <1>4, <1>5 DEF Next

LEMMA Always == Spec => []PInv
  BY InitKeeps, StepKeeps, PTL DEF Spec

\* The variables keep their types: the cursor, and the entry an operation or the chmod dialog is at,
\* stay in the list, and no name is in it twice, whatever is loaded, sorted and marked.
THEOREM TypeCorrect == Spec => []TypeOK
<1>1. PInv => TypeOK
  <2> HAVE PInv
  <2>1. \A i \in DOMAIN panel.list : EntryOK(panel.list[i])
    BY DEF PInv, Good, Shape, IsList
  <2>2. \A e \in Range(panel.list) : EntryOK(e)
    BY <2>1 DEF Range
  <2> QED
    BY <2>2 DEF PInv, WorkType, AtInv, Good, Shape, IsList, TypeOK
<1> QED
  BY <1>1, Always, PTL

\* The number of marks the panel keeps is that of the marked entries, and ".." is never marked: so the
\* loops of chmod.c:212 and file.c:1545, which go on as long as it is not 0, never look for a mark in vain.
THEOREM MarkedAlwaysAgrees == Spec => []MarkedAgrees
<1>1. PInv => MarkedAgrees
  BY DEF PInv, Good, Tally, MarkedAgrees
<1> QED
  BY <1>1, Always, PTL

\* What is marked is what the user has marked, by name, in this directory, or in the one below that
\* has gone (screen.c:1087).
THEOREM MarksAlwaysWanted == Spec => []MarksAreWanted
<1>1. PInv => MarksAreWanted
  BY DEF PInv, Wanted, MarksAreWanted, Here
<1> QED
  BY <1>1, Always, PTL
-----------------------------------------------------------------------------
(* Sums *)

\* The member of a set with which MapThenSumSet begins.
First(s) == CHOOSE x \in s : TRUE

\* g gives for each set of D, which has the subsets of its sets, the sum of the weights.
IsSum(g, w, D) ==
  /\ g = [s \in D |-> g[s]]
  /\ \A s \in D : g[s] = IF s = {} THEN 0 ELSE w[First(s)] + g[s \ {First(s)}]

\* What MapThenSumSet computes from a weight for each member.
SumOf(w, S) == (CHOOSE g : g = [s \in SUBSET S |-> IF s = {} THEN 0
                                 ELSE w[First(s)] + g[s \ {First(s)}]])[S]

LEMMA BytesOfIsSum ==
  ASSUME NEW p, NEW S
  PROVE  BytesOf(p, S) = SumOf([i \in S |-> Bytes(p.list[i])], S)
<1> DEFINE w == [i \in S |-> Bytes(p.list[i])]
           ch(s) == CHOOSE x \in s : TRUE
           ByList(g) == [s \in SUBSET S |-> IF s = {} THEN 0 ELSE Bytes(p.list[ch(s)]) + g[s \ {ch(s)}]]
           ByWeight(g) == [s \in SUBSET S |-> IF s = {} THEN 0 ELSE w[ch(s)] + g[s \ {ch(s)}]]
<1>1. BytesOf(p, S) = (CHOOSE g : g = ByList(g))[S]
  BY DEF BytesOf, MapThenSumSet, MapThenFoldSet
<1>2. \A s \in SUBSET S : s # {} => w[ch(s)] = Bytes(p.list[ch(s)])
  OBVIOUS
<1>3. \A g : ByList(g) = ByWeight(g)
  BY <1>2
<1>4. SumOf(w, S) = (CHOOSE g : g = ByWeight(g))[S]
  BY DEF SumOf, First
<1> HIDE DEF ByList, ByWeight
<1>5. (CHOOSE g : g = ByList(g)) = (CHOOSE g : g = ByWeight(g))
  BY <1>3
<1> HIDE DEF w
<1>6. BytesOf(p, S) = SumOf(w, S)
  BY <1>1, <1>4, <1>5
<1> QED
  BY <1>6 DEF w

\* The sums of the sets up to some size exist, and so do those of the next size.
LEMMA SumsExist ==
  ASSUME NEW S, IsFiniteSet(S), NEW w
  PROVE  \E g : IsSum(g, w, SUBSET S)
<1> DEFINE D(k) == {s \in SUBSET S : Cardinality(s) <= k}
           Missing == {k \in Nat : ~ \E g : IsSum(g, w, D(k))}
<1>1. \A s \in SUBSET S : IsFiniteSet(s) /\ Cardinality(s) \in Nat /\ Cardinality(s) <= Cardinality(S)
  BY FS_Subset, FS_CardinalityType
<1>2. Missing = {}
  <2> SUFFICES ASSUME Missing # {} PROVE FALSE
    OBVIOUS
  <2> DEFINE k == Min(Missing)
  <2>1. k \in Missing /\ \A j \in Missing : k <= j
    BY Least
  <2> HIDE DEF k, Missing
  <2>2. k \in Nat
    BY <2>1 DEF Missing
  <2>3. CASE k = 0
    <3> DEFINE g == [s \in D(k) |-> 0]
    <3>1. \A s \in D(k) : s = {}
      BY <1>1, <2>3, FS_EmptySet
    <3>2. IsSum(g, w, D(k))
      BY <3>1 DEF IsSum
    <3> QED
      BY <2>1, <3>2 DEF Missing
  <2>4. CASE k # 0
    <3>1. k - 1 \in Nat /\ k - 1 \notin Missing
      BY <2>1, <2>2, <2>4
    <3>2. PICK h : IsSum(h, w, D(k - 1))
      BY <3>1 DEF Missing
    <3> DEFINE g == [s \in D(k) |-> IF s \in D(k - 1) THEN h[s] ELSE w[First(s)] + h[s \ {First(s)}]]
    <3>3. ASSUME NEW s \in D(k), s # {} PROVE s \ {First(s)} \in D(k - 1)
      <4>1. First(s) \in s
        BY <3>3 DEF First
      <4>2. Cardinality(s \ {First(s)}) = Cardinality(s) - 1
        BY <1>1, <4>1, FS_RemoveElement
      <4> QED
        BY <1>1, <2>2, <4>2
    <3>4. {} \in D(k - 1)
      BY <3>1, FS_EmptySet
    <3>5. \A s \in D(k - 1) : h[s] = IF s = {} THEN 0 ELSE w[First(s)] + h[s \ {First(s)}]
      BY <3>2 DEF IsSum
    <3>6. \A s \in D(k - 1) : s \in D(k)
      BY <1>1, <2>2
    <3>7. ASSUME NEW s \in D(k) PROVE g[s] = IF s = {} THEN 0 ELSE w[First(s)] + g[s \ {First(s)}]
      <4>1. CASE s = {}
        BY <3>4, <3>5, <4>1
      <4>2. CASE s # {}
        <5>1. s \ {First(s)} \in D(k - 1) /\ s \ {First(s)} \in D(k)
          BY <3>3, <3>6, <4>2
        <5>2. g[s \ {First(s)}] = h[s \ {First(s)}]
          BY <5>1
        <5>3. g[s] = w[First(s)] + h[s \ {First(s)}]
          BY <3>5, <4>2
        <5> QED
          BY <4>2, <5>2, <5>3
      <4> QED
        BY <4>1, <4>2
    <3>8. g = [s \in D(k) |-> g[s]]
      OBVIOUS
    <3> HIDE DEF g
    <3>9. IsSum(g, w, D(k))
      BY <3>7, <3>8 DEF IsSum
    <3> QED
      BY <2>1, <3>9 DEF Missing
  <2> QED
    BY <2>3, <2>4
<1>3. Cardinality(S) \in Nat
  BY FS_CardinalityType
<1>4. D(Cardinality(S)) = SUBSET S
  BY <1>1
<1>5. \E g : IsSum(g, w, D(Cardinality(S)))
  BY <1>2, <1>3
<1> QED
  BY <1>4, <1>5

\* The weights are integers, and finitely many.
Weighs(g, w, S) == IsFiniteSet(S) /\ w \in [S -> Int] /\ IsSum(g, w, SUBSET S)

\* A sum does not depend on the order in which it is taken.
LEMMA SumOfMembers ==
  ASSUME NEW S, NEW w, NEW g, Weighs(g, w, S)
  PROVE  \A s \in SUBSET S : g[s] \in Int /\ \A x \in s : g[s] = w[x] + g[s \ {x}]
<1> IsFiniteSet(S) /\ w \in [S -> Int] /\ IsSum(g, w, SUBSET S)
  BY DEF Weighs
<1> DEFINE OK(s) == g[s] \in Int /\ \A x \in s : g[s] = w[x] + g[s \ {x}]
           Bad == {k \in Nat : \E s \in SUBSET S : Cardinality(s) = k /\ ~ OK(s)}
<1>1. \A s \in SUBSET S : IsFiniteSet(s) /\ Cardinality(s) \in Nat
  BY FS_Subset, FS_CardinalityType
<1>2. Bad = {}
  <2> SUFFICES ASSUME Bad # {} PROVE FALSE
    OBVIOUS
  <2> DEFINE k == Min(Bad)
  <2>1. k \in Bad /\ \A j \in Bad : k <= j
    BY Least
  <2> HIDE DEF k, OK
  <2>2. PICK s \in SUBSET S : Cardinality(s) = k /\ ~ OK(s)
    BY <2>1
  <2>3. ASSUME NEW t \in SUBSET S, Cardinality(t) < k PROVE OK(t)
    BY <1>1, <2>1, <2>3
  <2> HIDE DEF Bad
  <2>4. s # {}
    <3>1. g[{}] = 0
      BY DEF IsSum
    <3>2. OK({})
      BY <3>1 DEF OK
    <3> QED
      BY <2>2, <3>2
  <2> DEFINE y == First(s)
  <2>5. y \in s
    BY <2>4 DEF First
  <2>6. g[s] = w[y] + g[s \ {y}]
    BY <2>4 DEF IsSum
  <2> HIDE DEF y
  <2>7. \A x \in s : s \ {x} \in SUBSET S /\ OK(s \ {x})
    <3> TAKE x \in s
    <3>1. Cardinality(s \ {x}) = Cardinality(s) - 1
      BY <1>1, FS_RemoveElement
    <3> QED
      BY <1>1, <2>2, <2>3, <3>1
  <2>8. \A x \in s : w[x] \in Int
    OBVIOUS
  <2>9. g[s] \in Int
    <3>1. g[s \ {y}] \in Int
      BY <2>5, <2>7 DEF OK
    <3>2. w[y] \in Int
      BY <2>5, <2>8
    <3> QED
      BY <2>6, <3>1, <3>2
  <2>10. ASSUME NEW x \in s PROVE g[s] = w[x] + g[s \ {x}]
    <3>1. CASE x = y
      BY <2>6, <3>1
    <3>2. CASE x # y
      <4> DEFINE r == (s \ {x}) \ {y}
      <4>1. r = (s \ {y}) \ {x}
        OBVIOUS
      <4> HIDE DEF r
      <4>2. g[s \ {y}] = w[x] + g[r]
        BY <2>5, <2>7, <3>2, <4>1 DEF OK
      <4>3. g[s \ {x}] = w[y] + g[r]
        BY <2>5, <2>7, <3>2 DEF OK, r
      <4>4. g[r] \in Int
        <5>1. r \in SUBSET S
          BY DEF r
        <5>2. Cardinality(s \ {x}) = Cardinality(s) - 1
          BY <1>1, FS_RemoveElement
        <5>3. IsFiniteSet(s \ {x}) /\ y \in s \ {x}
          BY <1>1, <2>5, <2>7, <3>2
        <5>4. Cardinality(r) = Cardinality(s \ {x}) - 1
          BY <5>3, FS_RemoveElement DEF r
        <5>5. Cardinality(r) < k
          BY <1>1, <2>2, <5>2, <5>4
        <5> QED
          BY <2>3, <5>1, <5>5 DEF OK
      <4> QED
        BY <2>5, <2>6, <2>8, <4>2, <4>3, <4>4
    <3> QED
      BY <3>1, <3>2
  <2> QED
    BY <2>2, <2>9, <2>10 DEF OK
<1> QED
  BY <1>1, <1>2

\* The same, of one member.
LEMMA SumOfMember ==
  ASSUME NEW S, NEW w, NEW g, Weighs(g, w, S), NEW s, s \subseteq S, NEW x \in s
  PROVE  g[s] = w[x] + g[s \ {x}]
<1>1. s \in SUBSET S
  OBVIOUS
<1> QED
  BY <1>1, SumOfMembers

\* Sums over two domains are the same where the weights are.
LEMMA SumsAlike ==
  ASSUME NEW S, NEW g, NEW v, Weighs(g, v, S), NEW T, NEW h, NEW w, Weighs(h, w, T),
         NEW U \in SUBSET (S \cap T), \A x \in U : v[x] = w[x]
  PROVE  g[U] = h[U]
<1> DEFINE Bad == {k \in Nat : \E s \in SUBSET U : Cardinality(s) = k /\ g[s] # h[s]}
<1>1. \A s \in SUBSET U : IsFiniteSet(s) /\ Cardinality(s) \in Nat
  BY FS_Subset, FS_CardinalityType DEF Weighs
<1>2. Bad = {}
  <2> SUFFICES ASSUME Bad # {} PROVE FALSE
    OBVIOUS
  <2> DEFINE k == Min(Bad)
  <2>1. k \in Bad /\ \A j \in Bad : k <= j
    BY Least
  <2> HIDE DEF k
  <2>2. PICK s \in SUBSET U : Cardinality(s) = k /\ g[s] # h[s]
    BY <2>1
  <2>3. s # {}
    <3>1. g[{}] = 0 /\ h[{}] = 0
      BY DEF IsSum, Weighs
    <3> QED
      BY <2>2, <3>1
  <2> DEFINE x == First(s)
  <2>4. x \in s
    BY <2>3 DEF First
  <2> HIDE DEF x
  <2>5. Cardinality(s \ {x}) = Cardinality(s) - 1
    BY <1>1, <2>4, FS_RemoveElement
  <2>6. g[s \ {x}] = h[s \ {x}]
    <3> DEFINE r == s \ {x}
    <3>1. r \in SUBSET U
      OBVIOUS
    <3>2. Cardinality(r) \in Nat /\ Cardinality(r) < k
      BY <1>1, <2>2, <2>5, <3>1
    <3> HIDE DEF r
    <3>3. ~ Cardinality(r) \in Bad
      <4> HIDE DEF Bad
      <4>1. k \in Nat
        BY <1>1, <2>2
      <4> QED
        BY <2>1, <3>2, <4>1
    <3>4. g[r] = h[r]
      BY <3>1, <3>2, <3>3
    <3> QED
      BY <3>4 DEF r
  <2> HIDE DEF Bad
  <2>7. g[s] = v[x] + g[s \ {x}]
    BY <2>4, SumOfMember
  <2>8. h[s] = w[x] + h[s \ {x}]
    <3>1. s \subseteq T
      OBVIOUS
    <3> QED
      BY <2>4, <3>1, SumOfMember
  <2>9. v[x] = w[x]
    BY <2>4
  <2> QED
    BY <2>2, <2>6, <2>7, <2>8, <2>9
<1> QED
  BY <1>1, <1>2

\* The sum is the sum.
LEMMA SumOfIsSum ==
  ASSUME NEW S, IsFiniteSet(S), NEW w
  PROVE  \E g : IsSum(g, w, SUBSET S) /\ SumOf(w, S) = g[S]
<1> DEFINE Step(g) == [s \in SUBSET S |-> IF s = {} THEN 0 ELSE w[First(s)] + g[s \ {First(s)}]]
           c == CHOOSE g : g = Step(g)
<1>1. PICK g : IsSum(g, w, SUBSET S)
  BY SumsExist
<1>2. g = Step(g)
  <2>1. g = [s \in SUBSET S |-> g[s]]
    BY <1>1 DEF IsSum
  <2>2. \A s \in SUBSET S : g[s] = Step(g)[s]
    BY <1>1 DEF IsSum
  <2>3. Step(g) = [s \in SUBSET S |-> Step(g)[s]]
    OBVIOUS
  <2> HIDE DEF Step
  <2>4. [s \in SUBSET S |-> g[s]] = [s \in SUBSET S |-> Step(g)[s]]
    BY <2>2
  <2> QED
    BY <2>1, <2>3, <2>4
<1> HIDE DEF Step
<1>3. c = Step(c)
  BY <1>2
<1>4. SumOf(w, S) = c[S]
  BY DEF SumOf, Step
<1> HIDE DEF c
<1>5. IsSum(c, w, SUBSET S)
  <2>1. Step(c) = [s \in SUBSET S |-> Step(c)[s]]
    BY DEF Step
  <2>3. c = [s \in SUBSET S |-> c[s]]
    BY <1>3, <2>1
  <2>2. \A s \in SUBSET S : c[s] = IF s = {} THEN 0 ELSE w[First(s)] + c[s \ {First(s)}]
    BY <1>3 DEF Step
  <2> QED
    BY <2>2, <2>3 DEF IsSum
<1> QED
  BY <1>4, <1>5

\* The bytes of no entries.
LEMMA BytesOfNone ==
  ASSUME NEW p PROVE BytesOf(p, {}) = 0
<1> DEFINE w == [i \in {} |-> Bytes(p.list[i])]
<1>1. PICK g : IsSum(g, w, SUBSET {}) /\ SumOf(w, {}) = g[{}]
  BY FS_EmptySet, SumOfIsSum
<1>2. g[{}] = 0
  BY <1>1 DEF IsSum
<1> QED
  BY <1>1, <1>2, BytesOfIsSum

\* The bytes do not depend on what else there is in the entries.
LEMMA BytesOfAlike ==
  ASSUME NEW p, NEW r, NEW S, IsFiniteSet(S), \A i \in S : Bytes(p.list[i]) = Bytes(r.list[i])
  PROVE  BytesOf(p, S) = BytesOf(r, S)
<1> DEFINE w(q) == [i \in S |-> Bytes(q.list[i])]
<1>1. w(p) = w(r)
  OBVIOUS
<1> HIDE DEF w
<1>2. SumOf(w(p), S) = SumOf(w(r), S)
  BY <1>1
<1> QED
  BY <1>2, BytesOfIsSum DEF w

\* One entry more.
LEMMA BytesOfMore ==
  ASSUME NEW p, NEW S, IsFiniteSet(S), NEW x, x \notin S,
         \A i \in S \cup {x} : Bytes(p.list[i]) \in Int
  PROVE  BytesOf(p, S \cup {x}) = Bytes(p.list[x]) + BytesOf(p, S) /\ BytesOf(p, S) \in Int
<1> DEFINE T == S \cup {x}
           v == [i \in S |-> Bytes(p.list[i])]
           w == [i \in T |-> Bytes(p.list[i])]
<1>1. IsFiniteSet(T)
  BY FS_AddElement
<1>2. v \in [S -> Int] /\ w \in [T -> Int] /\ \A i \in S : v[i] = w[i]
  OBVIOUS
<1>3. w[x] = Bytes(p.list[x]) /\ T \ {x} = S
  OBVIOUS
<1>4. BytesOf(p, S) = SumOf(v, S) /\ BytesOf(p, T) = SumOf(w, T)
  BY BytesOfIsSum
<1> HIDE DEF v, w
<1>5. PICK g : IsSum(g, v, SUBSET S) /\ SumOf(v, S) = g[S]
  BY SumOfIsSum
<1>6. PICK h : IsSum(h, w, SUBSET T) /\ SumOf(w, T) = h[T]
  BY <1>1, SumOfIsSum
<1>0. Weighs(g, v, S) /\ Weighs(h, w, T)
  BY <1>1, <1>2, <1>5, <1>6 DEF Weighs
<1>7. h[T] = w[x] + h[T \ {x}]
  <2>1. T \subseteq T /\ x \in T
    OBVIOUS
  <2> HIDE DEF T
  <2> QED
    BY <1>0, <2>1, SumOfMember
<1>8. g[S] \in Int
  BY <1>0, SumOfMembers
<1>9. g[S] = h[S]
  <2>1. S \in SUBSET (S \cap T)
    OBVIOUS
  <2>3. \A i \in S : v[i] = w[i]
    BY <1>2
  <2> HIDE DEF T
  <2> QED
    BY <1>0, <2>1, <2>3, SumsAlike
<1> QED
  BY <1>3, <1>4, <1>5, <1>6, <1>7, <1>8, <1>9

\* The bytes of two sets.
LEMMA BytesOfBoth ==
  ASSUME NEW p, NEW S, IsFiniteSet(S), NEW T, IsFiniteSet(T), S \cap T = {},
         \A i \in S \cup T : Bytes(p.list[i]) \in Int
  PROVE  /\ BytesOf(p, S \cup T) = BytesOf(p, S) + BytesOf(p, T)
         /\ BytesOf(p, S) \in Int /\ BytesOf(p, T) \in Int
<1> DEFINE OK(U) == /\ BytesOf(p, S \cup U) = BytesOf(p, S) + BytesOf(p, U)
                    /\ BytesOf(p, S) \in Int /\ BytesOf(p, U) \in Int
           Bad == {k \in Nat : \E U \in SUBSET T : Cardinality(U) = k /\ ~ OK(U)}
<1>1. \A U \in SUBSET T : IsFiniteSet(U) /\ Cardinality(U) \in Nat
  BY FS_Subset, FS_CardinalityType
<1>2. Bad = {}
  <2> SUFFICES ASSUME Bad # {} PROVE FALSE
    OBVIOUS
  <2> DEFINE k == Min(Bad)
  <2>1. k \in Bad /\ \A j \in Bad : k <= j
    BY Least
  <2> HIDE DEF k, OK
  <2>2. PICK U \in SUBSET T : Cardinality(U) = k /\ ~ OK(U)
    BY <2>1
  <2>3. BytesOf(p, S) \in Int
    <3>1. CASE S = {}
      BY <3>1, BytesOfNone
    <3>2. CASE S # {}
      <4>1. PICK x \in S : TRUE
        BY <3>2
      <4> DEFINE R == S \ {x}
      <4>2. IsFiniteSet(R) /\ x \notin R /\ S = R \cup {x}
        BY FS_RemoveElement
      <4> HIDE DEF R
      <4>3. BytesOf(p, R \cup {x}) = Bytes(p.list[x]) + BytesOf(p, R) /\ BytesOf(p, R) \in Int
        BY <4>2, BytesOfMore
      <4> QED
        BY <4>2, <4>3
    <3> QED
      BY <3>1, <3>2
  <2>4. U # {}
    <3>1. OK({})
      BY <2>3, BytesOfNone DEF OK
    <3> QED
      BY <2>2, <3>1
  <2>5. PICK x \in U : TRUE
    BY <2>4
  <2> DEFINE R == U \ {x}
  <2>6. R \in SUBSET T /\ x \notin R /\ U = R \cup {x} /\ x \in T
    OBVIOUS
  <2>7. Cardinality(R) = Cardinality(U) - 1
    BY <1>1, FS_RemoveElement
  <2> HIDE DEF R
  <2>8. Cardinality(R) \in Nat /\ Cardinality(R) < k /\ k \in Nat
    BY <1>1, <2>2, <2>6, <2>7
  <2>9. OK(R)
    <3>1. ~ Cardinality(R) \in Bad
      <4> HIDE DEF Bad
      <4> QED
        BY <2>1, <2>8
    <3> QED
      BY <2>6, <2>8, <3>1
  <2> HIDE DEF Bad
  <2>10. BytesOf(p, R \cup {x}) = Bytes(p.list[x]) + BytesOf(p, R)
    BY <1>1, <2>6, BytesOfMore
  <2>11. BytesOf(p, (S \cup R) \cup {x}) = Bytes(p.list[x]) + BytesOf(p, S \cup R)
    <3>1. IsFiniteSet(S \cup R) /\ x \notin S \cup R
      BY <1>1, <2>6, FS_Union
    <3> QED
      BY <2>6, <3>1, BytesOfMore
  <2>12. (S \cup R) \cup {x} = S \cup U
    BY <2>6
  <2>13. Bytes(p.list[x]) \in Int
    BY <2>6
  <2>14. /\ BytesOf(p, S \cup R) = BytesOf(p, S) + BytesOf(p, R)
         /\ BytesOf(p, S) \in Int /\ BytesOf(p, R) \in Int
    BY <2>9 DEF OK
  <2>15. BytesOf(p, U) = Bytes(p.list[x]) + BytesOf(p, R)
    BY <2>6, <2>10
  <2>16. BytesOf(p, S \cup U) = Bytes(p.list[x]) + BytesOf(p, S \cup R)
    BY <2>11, <2>12
  <2>17. OK(U)
    BY <2>13, <2>14, <2>15, <2>16 DEF OK
  <2> QED
    BY <2>2, <2>17
<1> QED
  BY <1>1, <1>2

\* The bytes of entries that have moved.
LEMMA BytesOfMoved ==
  ASSUME NEW p, NEW r, NEW M, IsFiniteSet(M), NEW q,
         \A i \in M : r.list[i] = p.list[q[i]] /\ Bytes(p.list[q[i]]) \in Int,
         \A i, j \in M : i # j => q[i] # q[j]
  PROVE  BytesOf(r, M) = BytesOf(p, {q[i] : i \in M})
<1> DEFINE To(U) == {q[i] : i \in U}
           OK(U) == BytesOf(r, U) = BytesOf(p, To(U)) /\ IsFiniteSet(To(U))
           Bad == {k \in Nat : \E U \in SUBSET M : Cardinality(U) = k /\ ~ OK(U)}
<1>1. \A U \in SUBSET M : IsFiniteSet(U) /\ Cardinality(U) \in Nat
  BY FS_Subset, FS_CardinalityType
<1>2. Bad = {}
  <2> SUFFICES ASSUME Bad # {} PROVE FALSE
    OBVIOUS
  <2> DEFINE k == Min(Bad)
  <2>1. k \in Bad /\ \A j \in Bad : k <= j
    BY Least
  <2> HIDE DEF k, OK
  <2>2. PICK U \in SUBSET M : Cardinality(U) = k /\ ~ OK(U)
    BY <2>1
  <2>4. U # {}
    <3>1. To({}) = {}
      OBVIOUS
    <3> HIDE DEF To
    <3>2. OK({})
      BY <3>1, BytesOfNone, FS_EmptySet DEF OK
    <3> QED
      BY <2>2, <3>2
  <2>5. PICK x \in U : TRUE
    BY <2>4
  <2> DEFINE R == U \ {x}
  <2>6. R \in SUBSET M /\ x \notin R /\ U = R \cup {x} /\ x \in M
    OBVIOUS
  <2>7. Cardinality(R) = Cardinality(U) - 1
    BY <1>1, FS_RemoveElement
  <2> HIDE DEF R
  <2>8. Cardinality(R) \in Nat /\ Cardinality(R) < k /\ k \in Nat
    BY <1>1, <2>2, <2>6, <2>7
  <2>9. OK(R)
    <3>1. ~ Cardinality(R) \in Bad
      <4> HIDE DEF Bad
      <4> QED
        BY <2>1, <2>8
    <3> QED
      BY <2>6, <2>8, <3>1
  <2> HIDE DEF Bad
  <2>10. Bytes(r.list[x]) = Bytes(p.list[q[x]]) /\ Bytes(p.list[q[x]]) \in Int
    BY <2>6
  <2>11. \A i \in R \cup {x} : Bytes(r.list[i]) \in Int
    BY <2>6
  <2>12. BytesOf(r, R \cup {x}) = Bytes(r.list[x]) + BytesOf(r, R)
    BY <1>1, <2>6, <2>11, BytesOfMore
  <2>13. q[x] \notin To(R) /\ To(R \cup {x}) = To(R) \cup {q[x]}
    BY <2>6
  <2>14. \A j \in To(R) \cup {q[x]} : Bytes(p.list[j]) \in Int
    BY <2>6, <2>10
  <2> HIDE DEF To
  <2>15. IsFiniteSet(To(R)) /\ BytesOf(r, R) = BytesOf(p, To(R))
    BY <2>9 DEF OK
  <2>16. BytesOf(p, To(R) \cup {q[x]}) = Bytes(p.list[q[x]]) + BytesOf(p, To(R))
    BY <2>13, <2>14, <2>15, BytesOfMore
  <2>17. IsFiniteSet(To(R) \cup {q[x]})
    BY <2>15, FS_AddElement
  <2>18. OK(U)
    BY <2>6, <2>10, <2>12, <2>13, <2>15, <2>16, <2>17 DEF OK
  <2> QED
    BY <2>2, <2>18
<1>3. OK(M)
  BY <1>1, <1>2
<1> QED
  BY <1>3
-----------------------------------------------------------------------------
(* The summary of the marks *)

\* The sizes are numbers.
Sized(p) == \A i \in DOMAIN p.list : p.list[i].size \in Int

\* The summary is that of the marked entries.
Summed(p) ==
  /\ Sized(p)
  /\ p.dirs_marked = Cardinality({i \in Marked(p) : IsDir(p.list[i])})
  /\ p.total = BytesOf(p, Marked(p))

\* So is what is counted of an entry.
LEMMA BytesAreInt ==
  ASSUME NEW p, Sized(p), NEW i \in DOMAIN p.list
  PROVE  Bytes(p.list[i]) \in Int
  BY DEF Sized, Bytes

\* The number of two sets.
LEMMA CountOfBoth ==
  ASSUME NEW A, IsFiniteSet(A), NEW B, IsFiniteSet(B), A \cap B = {}
  PROVE  Cardinality(A \cup B) = Cardinality(A) + Cardinality(B)
<1>1. Cardinality(A \cup B) = Cardinality(A) + Cardinality(B) - Cardinality(A \cap B)
  BY FS_Union
<1>2. Cardinality(A) \in Nat /\ Cardinality(B) \in Nat /\ Cardinality(A \cap B) = 0
  BY FS_CardinalityType, FS_EmptySet
<1> QED
  BY <1>1, <1>2

\* The summary of no marks.
LEMMA SummedOfNone ==
  ASSUME NEW r, Sized(r), Marked(r) = {}, r.dirs_marked = 0, r.total = 0
  PROVE  Summed(r)
<1>1. {i \in Marked(r) : IsDir(r.list[i])} = {}
  OBVIOUS
<1> QED
  BY <1>1, FS_EmptySet, BytesOfNone DEF Summed

\* The same list with the same marks and the same summary.
LEMMA SummedAlike ==
  ASSUME NEW p, Summed(p), NEW r, r.list = p.list, r.dirs_marked = p.dirs_marked, r.total = p.total
  PROVE  Summed(r)
<1>1. Marked(r) = Marked(p)
  BY DEF Marked
<1>2. BytesOf(r, Marked(r)) = BytesOf(p, Marked(p))
  BY <1>1 DEF BytesOf
<1> QED
  BY <1>1, <1>2 DEF Summed, Sized

\* do_file_mark adds the entries it marks to the summary, and takes off those it unmarks.
LEMMA MarkSummed ==
  ASSUME NEW p, Shape(p), Summed(p), NEW S \in SUBSET DOMAIN p.list, NEW mark \in BOOLEAN,
         NEW r, r = do_file_mark(p, S, mark)
  PROVE  Summed(r)
<1> DEFINE C == {i \in S : p.list[i].marked # mark /\ p.list[i].name # DotDot}
           n == Len(p.list)
           sign == IF mark THEN 1 ELSE -1
           l == [i \in 1..n |-> IF i \in C THEN [p.list[i] EXCEPT !.marked = mark] ELSE p.list[i]]
           D(M) == {i \in M : IsDir(p.list[i])}
<1>1. n \in Nat \ {0} /\ DOMAIN p.list = 1..n /\ C \subseteq 1..n
  BY DEF Shape, IsList
<1>2. /\ r.list = l /\ r.dirs_marked = p.dirs_marked + sign * Cardinality(D(C))
      /\ r.total = p.total + sign * BytesOf(p, C)
  BY <1>1 DEF do_file_mark, Shape, Fields
<1>3. \A i \in 1..n : EntryOK(p.list[i])
  BY <1>1 DEF Shape, IsList
<1>4. \A i \in 1..n : /\ l[i].name = p.list[i].name /\ l[i].size = p.list[i].size
                      /\ l[i].computed = p.list[i].computed
                      /\ l[i].marked = IF i \in C THEN mark ELSE p.list[i].marked
  BY <1>3 DEF EntryOK
<1>5. DOMAIN l = 1..n
  OBVIOUS
<1> HIDE DEF l
<1>6. \A i \in 1..n : IsDir(r.list[i]) = IsDir(p.list[i]) /\ Bytes(r.list[i]) = Bytes(p.list[i])
  BY <1>2, <1>4 DEF IsDir, Bytes
<1>7. \A i \in 1..n : Bytes(p.list[i]) \in Int
  BY <1>1, BytesAreInt DEF Summed
<1>8. Sized(r)
  BY <1>1, <1>2, <1>4, <1>5 DEF Summed, Sized
<1>9. /\ \A i \in 1..n : i \in Marked(r) <=> IF i \in C THEN mark ELSE i \in Marked(p)
      /\ Marked(r) \subseteq 1..n /\ Marked(p) \subseteq 1..n
  BY <1>1, <1>2, <1>4, <1>5 DEF Marked
<1>10. \A i \in C : i \in Marked(p) <=> ~ mark
  BY <1>1, <1>3 DEF Marked, EntryOK
<1> HIDE DEF C
<1>11. IsFiniteSet(1..n)
  BY <1>1, FS_Interval
<1>12. \A U \in SUBSET (1..n) : /\ IsFiniteSet(U) /\ IsFiniteSet(D(U)) /\ Cardinality(D(U)) \in Nat
                                 /\ BytesOf(r, U) = BytesOf(p, U)
  <2> TAKE U \in SUBSET (1..n)
  <2>1. IsFiniteSet(U)
    BY <1>11, FS_Subset
  <2>2. IsFiniteSet(D(U))
    BY <2>1, FS_Subset
  <2>3. BytesOf(r, U) = BytesOf(p, U)
    BY <1>6, <2>1, BytesOfAlike
  <2> QED
    BY <2>1, <2>2, <2>3, FS_CardinalityType
<1>13. \A U, V \in SUBSET (1..n) : U \cap V = {} =>
         /\ Cardinality(D(U \cup V)) = Cardinality(D(U)) + Cardinality(D(V))
         /\ BytesOf(p, U \cup V) = BytesOf(p, U) + BytesOf(p, V)
         /\ BytesOf(p, U) \in Int /\ BytesOf(p, V) \in Int
  <2> SUFFICES ASSUME NEW U \in SUBSET (1..n), NEW V \in SUBSET (1..n), U \cap V = {}
               PROVE  /\ Cardinality(D(U \cup V)) = Cardinality(D(U)) + Cardinality(D(V))
                      /\ BytesOf(p, U \cup V) = BytesOf(p, U) + BytesOf(p, V)
                      /\ BytesOf(p, U) \in Int /\ BytesOf(p, V) \in Int
    OBVIOUS
  <2>1. D(U \cup V) = D(U) \cup D(V) /\ D(U) \cap D(V) = {}
    OBVIOUS
  <2>2. IsFiniteSet(D(U)) /\ IsFiniteSet(D(V)) /\ IsFiniteSet(U) /\ IsFiniteSet(V)
    BY <1>12
  <2>3. Cardinality(D(U)) \in Nat /\ Cardinality(D(V)) \in Nat
    BY <1>12
  <2> HIDE DEF D
  <2>4. Cardinality(D(U) \cup D(V)) = Cardinality(D(U)) + Cardinality(D(V))
    BY <2>1, <2>2, CountOfBoth
  <2>5. /\ BytesOf(p, U \cup V) = BytesOf(p, U) + BytesOf(p, V)
        /\ BytesOf(p, U) \in Int /\ BytesOf(p, V) \in Int
    <3>1. \A i \in U \cup V : Bytes(p.list[i]) \in Int
      BY <1>7
    <3> QED
      BY <2>2, <3>1, BytesOfBoth
  <2> QED
    BY <2>1, <2>4, <2>5
<1>14. {i \in Marked(r) : IsDir(r.list[i])} = D(Marked(r)) /\ {i \in Marked(p) : IsDir(p.list[i])} = D(Marked(p))
  BY <1>6, <1>9
<1>15. Marked(r) \in SUBSET (1..n) /\ Marked(p) \in SUBSET (1..n) /\ C \in SUBSET (1..n)
  BY <1>1, <1>9
<1>16. BytesOf(r, Marked(r)) = BytesOf(p, Marked(r))
  BY <1>12, <1>15
<1>17. p.dirs_marked = Cardinality(D(Marked(p))) /\ p.total = BytesOf(p, Marked(p))
  BY <1>14 DEF Summed
<1> HIDE DEF D, n
<1>18. CASE mark
  <2>1. Marked(r) = Marked(p) \cup C /\ Marked(p) \cap C = {}
    BY <1>9, <1>10, <1>15, <1>18
  <2>2. /\ Cardinality(D(Marked(r))) = Cardinality(D(Marked(p))) + Cardinality(D(C))
        /\ BytesOf(p, Marked(r)) = BytesOf(p, Marked(p)) + BytesOf(p, C)
        /\ BytesOf(p, Marked(p)) \in Int /\ BytesOf(p, C) \in Int
    BY <1>13, <1>15, <2>1
  <2>3. Cardinality(D(Marked(p))) \in Nat /\ Cardinality(D(C)) \in Nat
    BY <1>12, <1>15
  <2>4. r.dirs_marked = p.dirs_marked + Cardinality(D(C)) /\ r.total = p.total + BytesOf(p, C)
    BY <1>2, <1>18, <2>2, <2>3
  <2> QED
    BY <1>8, <1>14, <1>16, <1>17, <2>2, <2>4 DEF Summed
<1>19. CASE ~ mark
  <2>1. Marked(p) = Marked(r) \cup C /\ Marked(r) \cap C = {}
    BY <1>9, <1>10, <1>15, <1>19
  <2>2. /\ Cardinality(D(Marked(p))) = Cardinality(D(Marked(r))) + Cardinality(D(C))
        /\ BytesOf(p, Marked(p)) = BytesOf(p, Marked(r)) + BytesOf(p, C)
        /\ BytesOf(p, Marked(r)) \in Int /\ BytesOf(p, C) \in Int
    BY <1>13, <1>15, <2>1
  <2>3. Cardinality(D(Marked(r))) \in Nat /\ Cardinality(D(C)) \in Nat
    BY <1>12, <1>15
  <2>4. r.dirs_marked = p.dirs_marked - Cardinality(D(C)) /\ r.total = p.total - BytesOf(p, C)
    BY <1>2, <1>17, <1>19, <2>2, <2>3
  <2>5. r.dirs_marked = Cardinality(D(Marked(r))) /\ r.total = BytesOf(p, Marked(r))
    BY <1>17, <2>2, <2>3, <2>4
  <2> QED
    BY <1>8, <1>14, <1>16, <2>5 DEF Summed
<1> QED
  BY <1>18, <1>19

\* The summary of a list whose marks are all taken off.
LEMMA ClearedSummed ==
  ASSUME NEW p, Shape(p), Sized(p), NEW r,
         r = [p EXCEPT !.list = [i \in DOMAIN @ |-> [@[i] EXCEPT !.marked = FALSE]],
                       !.marked = 0, !.dirs_marked = 0, !.total = 0]
  PROVE  Summed(r)
<1> DEFINE l == [i \in DOMAIN p.list |-> [p.list[i] EXCEPT !.marked = FALSE]]
<1>1. r.list = l /\ r.dirs_marked = 0 /\ r.total = 0
  BY DEF Shape, Fields
<1>2. DOMAIN l = DOMAIN p.list
  OBVIOUS
<1>3. \A i \in DOMAIN l : l[i].size = p.list[i].size /\ l[i].marked = FALSE
  BY DEF Shape, IsList, EntryOK
<1> HIDE DEF l
<1>4. Sized(r) /\ Marked(r) = {}
  BY <1>1, <1>2, <1>3 DEF Sized, Marked
<1> QED
  BY <1>1, <1>4, SummedOfNone

\* unmark_files keeps the summary.
LEMMA UnmarkedSummed ==
  ASSUME NEW p, Good(p), Summed(p), NEW r, r = unmark_files(p)
  PROVE  Summed(r)
<1>1. CASE p.marked = 0
  BY <1>1 DEF unmark_files
<1>2. CASE p.marked # 0
  <2>1. r = [p EXCEPT !.list = [i \in DOMAIN @ |-> [@[i] EXCEPT !.marked = FALSE]],
                      !.marked = 0, !.dirs_marked = 0, !.total = 0]
    BY <1>2 DEF unmark_files
  <2> QED
    BY <2>1, ClearedSummed DEF Good, Summed
<1> QED
  BY <1>1, <1>2

\* recalculate_panel_summary makes a summary, whatever there was.
LEMMA RecalculatedSummed ==
  ASSUME NEW p, Shape(p), Sized(p), NEW r, r = recalculate_panel_summary(p)
  PROVE  Summed(r)
<1> DEFINE c == [p EXCEPT !.list = [i \in DOMAIN @ |-> [@[i] EXCEPT !.marked = FALSE]],
                          !.marked = 0, !.dirs_marked = 0, !.total = 0]
<1>1. r = do_file_mark(c, Marked(p), TRUE)
  BY DEF recalculate_panel_summary
<1>2. Shape(c) /\ SameNames(p, c)
  BY Cleared
<1>3. Summed(c)
  BY ClearedSummed
<1>4. Marked(p) \in SUBSET DOMAIN c.list
  BY <1>2 DEF Marked, SameNames
<1> HIDE DEF c
<1> QED
  BY <1>1, <1>2, <1>3, <1>4, MarkSummed

\* The sizes on the disk are numbers.
LEMMA SizeOfIsInt ==
  ASSUME NEW f \in [Place -> 0..MaxSize], NEW d, NEW name, lstat(f, d, name)
  PROVE  SizeOf(f, d, name) \in Int
<1>1. CASE name = DotDot
  BY <1>1 DEF SizeOf
<1>2. CASE name # DotDot
  <2>1. PlaceOf(d, name) \in Place
    BY <1>2 DEF lstat
  <2>2. f[PlaceOf(d, name)] \in 0..MaxSize
    BY <2>1
  <2> QED
    BY <1>2, <2>2 DEF SizeOf
<1> QED
  BY <1>1, <1>2

\* The sizes of a directory as it is read are numbers.
LEMMA LoadedSized ==
  ASSUME NEW f \in [Place -> 0..MaxSize], NEW d, NEW names, NEW l \in ListsOf(f, d, names)
  PROVE  \A i \in DOMAIN l : l[i].size \in Int
<1> DEFINE S == {n \in File \cup {Sub} : lstat(f, d, n)}
           n == Cardinality(S)
           m(q) == [i \in DOMAIN q |-> [name |-> q[i], size |-> SizeOf(f, d, q[i]), computed |-> FALSE,
                                       marked |-> q[i] \in names]]
<1>1. CASE l = ZeroDir
  BY <1>1 DEF ZeroDir
<1>2. CASE l # ZeroDir
  <2>1. PICK q \in SetToSeqs(S) : l = ZeroDir \o m(q)
    BY <1>2 DEF ListsOf
  <2>2. q \in [1..n -> S]
    BY <2>1 DEF SetToSeqs
  <2>3. IsFiniteSet(S) /\ n \in Nat
    <3>1. IsFiniteSet(File \cup {Sub})
      BY PanelAssumption, FS_AddElement DEF PanelAssumption
    <3> QED
      BY <3>1, FS_Subset, FS_CardinalityType
  <2> DEFINE k == m(q)
  <2>4. k = [i \in 1..n |-> k[i]] /\ \A i \in 1..n : k[i].size \in Int
    <3>1. k = [i \in 1..n |-> k[i]]
      BY <2>2
    <3>2. ASSUME NEW i \in 1..n PROVE k[i].size \in Int
      <4>1. lstat(f, d, q[i])
        BY <2>2
      <4>2. k[i].size = SizeOf(f, d, q[i])
        BY <2>2
      <4> QED
        BY <4>1, <4>2, SizeOfIsInt
    <3> QED
      BY <3>1, <3>2
  <2>5. l = ZeroDir \o k
    BY <2>1
  <2> HIDE DEF k, n
  <2>6. k \in Seq(Range(k)) /\ Len(k) = n
    <3>1. k \in [1..n -> Range(k)]
      BY <2>4 DEF Range
    <3>2. k \in Seq(Range(k)) /\ DOMAIN k = 1..n
      BY <2>3, <2>4, <3>1, SeqDef
    <3> QED
      BY <2>3, <3>2, LenProperties
  <2> DEFINE E == Range(k) \cup {ZeroDir[1]}
  <2>7. k \in Seq(E) /\ ZeroDir \in Seq(E) /\ Len(ZeroDir) = 1
    <3>1. k \in [1..n -> E]
      BY <2>4 DEF Range
    <3>2. k \in Seq(E)
      BY <2>3, <3>1, SeqDef
    <3> QED
      BY <3>2 DEF ZeroDir
  <2>8. ZeroDir[1].size \in Int
    BY DEF ZeroDir
  <2> HIDE DEF E
  <2>9. /\ l \in Seq(E) /\ Len(l) = 1 + n
        /\ \A i \in 1..(1 + n) : l[i] = IF i <= 1 THEN ZeroDir[i] ELSE k[i - 1]
    <3>1. /\ ZeroDir \o k \in Seq(E) /\ Len(ZeroDir \o k) = Len(ZeroDir) + Len(k)
          /\ \A i \in 1..Len(ZeroDir) + Len(k) :
               (ZeroDir \o k)[i] = IF i <= Len(ZeroDir) THEN ZeroDir[i] ELSE k[i - Len(ZeroDir)]
      BY <2>7, ConcatProperties
    <3> QED
      BY <2>5, <2>6, <2>7, <3>1
  <2>10. DOMAIN l = 1..(1 + n)
    BY <2>9, LenProperties
  <2>11. ASSUME NEW i \in 1..(1 + n) PROVE l[i].size \in Int
    <3>1. CASE i = 1
      BY <2>8, <2>9, <3>1
    <3>2. CASE i # 1
      <4>1. ~ (i <= 1) /\ i - 1 \in 1..n
        BY <2>3, <3>2
      <4>2. l[i] = k[i - 1]
        BY <2>9, <4>1
      <4> QED
        BY <2>4, <4>1, <4>2
    <3> QED
      BY <3>1, <3>2
  <2> QED
    BY <2>10, <2>11
<1> QED
  BY <1>1, <1>2

\* The cursor is no matter of the summary.
LEMMA SelectedSummed ==
  ASSUME NEW p, Shape(p), Summed(p), NEW name, NEW r, r = try_to_select(p, name)
  PROVE  Summed(r)
<1> DEFINE k == IF IndexesOf(p, BaseName(name)) # {} THEN Min(IndexesOf(p, BaseName(name)))
                ELSE Min({p.selected, Len(p.list)})
<1>1. r = [p EXCEPT !.selected = k]
  BY DEF try_to_select
<1> HIDE DEF k
<1>2. r.list = p.list /\ r.dirs_marked = p.dirs_marked /\ r.total = p.total
  BY <1>1 DEF Shape, Fields
<1> QED
  BY <1>2, SummedAlike

\* Nor are the directories in dir_stat.
LEMMA AgedSummed ==
  ASSUME NEW p, Good(p), Summed(p), NEW D, NEW r \in Aged(p, D)
  PROVE  Summed(r)
<1>1. CASE r = p
  BY <1>1
<1>2. CASE r = [p EXCEPT !.dir_stat = @ \ D]
  <2>1. r.list = p.list /\ r.dirs_marked = p.dirs_marked /\ r.total = p.total
    BY <1>2 DEF Good, Shape, Fields
  <2> QED
    BY <2>1, SummedAlike
<1> QED
  BY <1>1, <1>2 DEF Aged

\* Nor is what save_cwds_stat keeps.
LEMMA SavedSummed ==
  ASSUME NEW p, Good(p), Summed(p), NEW r \in save_cwds_stat(p)
  PROVE  Summed(r)
<1>1. CASE r = p
  BY <1>1
<1>2. CASE r # p
  <2>1. PICK D \in SUBSET Dir : r = [p EXCEPT !.dir_stat = D]
    BY <1>2 DEF save_cwds_stat
  <2>2. r.list = p.list /\ r.dirs_marked = p.dirs_marked /\ r.total = p.total
    BY <2>1 DEF Good, Shape, Fields
  <2> QED
    BY <2>2, SummedAlike
<1> QED
  BY <1>1, <1>2

\* A directory that is read again has the sizes of the disk, and a new summary.
LEMMA ReloadedSummed ==
  ASSUME NEW f \in [Place -> 0..MaxSize], NEW p, Good(p), Summed(p), NEW r \in panel_reload(f, p)
  PROVE  Summed(r)
<1>1. CASE r = p
  BY <1>1
<1>2. CASE r # p
  <2> DEFINE q == IF Exists(f, p.cwd) THEN p ELSE [p EXCEPT !.cwd = "above", !.dir_stat = {}]
             names == {q.list[i].name : i \in {j \in DOMAIN q.list : q.list[j].marked}}
  <2>1. PICK l \in ListsOf(f, q.cwd, names) :
          r = recalculate_panel_summary([q EXCEPT !.list = l, !.selected = Min({@, Len(l)})])
    BY <1>2 DEF panel_reload, do_reload_dir
  <2>2. /\ DOMAIN q = Fields /\ q.cwd \in Dir /\ q.is_panelized \in BOOLEAN /\ q.dir_stat \subseteq Dir
        /\ q.selected \in Nat \ {0}
    BY DEF Good, Shape, Fields, Dir
  <2> HIDE DEF q, names
  <2>3. IsList(l)
    BY Loaded
  <2>4. \A i \in DOMAIN l : l[i].size \in Int
    BY LoadedSized
  <2> DEFINE c == Min({q.selected, Len(l)})
             v == [q EXCEPT !.list = l, !.selected = c]
  <2>5. c \in Nat \ {0}
    <3>1. Len(l) \in Nat \ {0}
      BY <2>3 DEF IsList
    <3> QED
      BY <2>2, <3>1, LeastOfTwo
  <2>6. r = recalculate_panel_summary(v)
    BY <2>1
  <2> HIDE DEF c
  <2>7. /\ DOMAIN v = Fields /\ v.cwd = q.cwd /\ v.is_panelized = q.is_panelized
        /\ v.dir_stat = q.dir_stat /\ v.list = l /\ v.selected = c
    BY <2>2 DEF Fields
  <2> HIDE DEF v
  <2>8. Shape(v) /\ Sized(v)
    BY <2>2, <2>3, <2>4, <2>5, <2>7 DEF Shape, Sized
  <2> QED
    BY <2>6, <2>8, RecalculatedSummed
<1> QED
  BY <1>1, <1>2

\* A panelized list, unmarked before its sizes change, has the summary of no marks.
LEMMA ReloadedPanelizedSummed ==
  ASSUME NEW f \in [Place -> 0..MaxSize], NEW p, Good(p), Summed(p), NEW r \in reload_panelized(f, p)
  PROVE  Summed(r)
<1> DEFINE u == do_file_mark(p, Marked(p), FALSE)
           S == {i \in DOMAIN u.list : lstat(f, p.cwd, u.list[i].name)}
           again(v) == do_file_mark(v, Marked(v), TRUE)
           k(q) == [i \in DOMAIN q |-> [u.list[q[i]] EXCEPT !.size = SizeOf(f, p.cwd, u.list[q[i]].name)]]
<1>1. PICK q \in InOrder(S) : r = again([u EXCEPT !.list = IF q = <<>> THEN ZeroDir ELSE k(q)])
  BY DEF reload_panelized
<1>2. Shape(u) /\ Summed(u) /\ Marked(u) = {}
  <2>1. Marked(p) \in SUBSET DOMAIN p.list
    BY DEF Marked
  <2>2. Shape(p) /\ Tally(p) /\ \A i \in Marked(p) : p.list[i].name # DotDot
    BY DEF Good, Tally
  <2>3. u = do_file_mark(p, Marked(p), FALSE)
    OBVIOUS
  <2> HIDE DEF u
  <2>4. Shape(u) /\ Marked(u) = Marked(p) \ Named(p, Marked(p))
    BY <2>1, <2>2, <2>3, MarkOff
  <2>5. Summed(u)
    BY <2>1, <2>2, <2>3, MarkSummed
  <2> QED
    BY <2>2, <2>4, <2>5 DEF Named
<1> DEFINE l == IF q = <<>> THEN ZeroDir ELSE k(q)
           v == [u EXCEPT !.list = l]
<1>3. r = do_file_mark(v, Marked(v), TRUE)
  BY <1>1
<1>4. u.dirs_marked = 0 /\ u.total = 0
  <2>1. {i \in Marked(u) : IsDir(u.list[i])} = {}
    BY <1>2
  <2> HIDE DEF u
  <2> QED
    BY <1>2, <2>1, FS_EmptySet, BytesOfNone DEF Summed
<1>5. \A i \in DOMAIN l : l[i].marked = FALSE /\ l[i].size \in Int
  <2>1. CASE q = <<>>
    BY <2>1 DEF ZeroDir
  <2>2. CASE q # <<>>
    <3>1. \A i \in DOMAIN u.list : EntryOK(u.list[i]) /\ u.list[i].marked = FALSE
      BY <1>2 DEF Shape, IsList, Marked, EntryOK
    <3> HIDE DEF u
    <3>2. \A i \in DOMAIN q : q[i] \in S
      BY DEF InOrder
    <3>3. \A i \in DOMAIN q : SizeOf(f, p.cwd, u.list[q[i]].name) \in Int
      BY <3>2, SizeOfIsInt
    <3>4. \A i \in DOMAIN q : k(q)[i].marked = FALSE /\ k(q)[i].size = SizeOf(f, p.cwd, u.list[q[i]].name)
      BY <3>1, <3>2 DEF EntryOK
    <3>5. l = k(q) /\ DOMAIN k(q) = DOMAIN q
      BY <2>2
    <3> HIDE DEF k, l
    <3> QED
      BY <3>3, <3>4, <3>5
  <2> QED
    BY <2>1, <2>2
<1> HIDE DEF l, u
<1>6. DOMAIN u = Fields
  BY <1>2 DEF Shape
<1>7. /\ DOMAIN v = Fields /\ v.list = l
      /\ v.dirs_marked = 0 /\ v.total = 0
  BY <1>4, <1>6 DEF Fields
<1> HIDE DEF v
<1>8. Marked(v) = {}
  BY <1>5, <1>7 DEF Marked
<1> DEFINE C == {i \in {} : v.list[i].marked # TRUE /\ v.list[i].name # DotDot}
<1>9. r = do_file_mark(v, {}, TRUE)
  BY <1>3, <1>8
<1>10. /\ r.list = [i \in DOMAIN l |-> l[i]]
       /\ r.dirs_marked = 0 + 1 * Cardinality({i \in C : IsDir(v.list[i])})
       /\ r.total = 0 + 1 * BytesOf(v, C)
  BY <1>7, <1>9 DEF do_file_mark, Fields
<1>11. C = {} /\ {i \in C : IsDir(v.list[i])} = {}
  OBVIOUS
<1>12. r.dirs_marked = 0 /\ r.total = 0
  BY <1>10, <1>11, FS_EmptySet, BytesOfNone
<1>13. Sized(r)
  BY <1>5, <1>10 DEF Sized
<1>14. Marked(r) = {}
  BY ReloadedPanelized
<1> QED
  BY <1>12, <1>13, <1>14, SummedOfNone

\* The update after a command or an operation keeps the summary.
LEMMA UpdatedSummed ==
  ASSUME NEW f \in [Place -> 0..MaxSize], NEW p, Good(p), Summed(p), NEW reload \in BOOLEAN,
         NEW r \in update_panels(f, p, reload)
  PROVE  Summed(r)
<1> DEFINE q == IF reload THEN Reload(p) ELSE p
<1>1. Good(q) /\ Summed(q)
  <2>1. CASE reload
    <3>1. q = [p EXCEPT !.is_panelized = FALSE, !.dir_stat = {}]
      BY <2>1 DEF Reload
    <3>2. /\ DOMAIN q = Fields /\ q.cwd = p.cwd /\ q.list = p.list /\ q.marked = p.marked
          /\ q.selected = p.selected /\ q.is_panelized = FALSE /\ q.dir_stat = {}
          /\ q.dirs_marked = p.dirs_marked /\ q.total = p.total
      BY <3>1 DEF Good, Shape, Fields
    <3> HIDE DEF q
    <3>3. Good(q)
      BY <3>2, Alike DEF Good
    <3>4. Summed(q)
      BY <3>2, SummedAlike
    <3> QED
      BY <3>3, <3>4
  <2>2. CASE ~ reload
    BY <2>2
  <2> QED
    BY <2>1, <2>2
<1> HIDE DEF q
<1>2. PICK t \in IF q.is_panelized THEN reload_panelized(f, q) ELSE panel_reload(f, q) :
        r = try_to_select(t, p.list[p.selected].name)
  BY DEF update_panels, q
<1>3. Shape(t) /\ Summed(t)
  <2>1. CASE q.is_panelized
    BY <1>1, <1>2, <2>1, ReloadedPanelized, ReloadedPanelizedSummed
  <2>2. CASE ~ q.is_panelized
    BY <1>1, <1>2, <2>2, Reloaded, ReloadedSummed DEF Good
  <2> QED
    BY <2>1, <2>2
<1> QED
  BY <1>2, <1>3, SelectedSummed

\* Sorting keeps the summary: each entry is in one other place.
LEMMA SortedSummed ==
  ASSUME NEW p, Good(p), Summed(p), NEW r \in panel_re_sort(p)
  PROVE  Summed(r)
<1> DEFINE n == Len(p.list)
<1>1. n \in Nat \ {0} /\ DOMAIN p.list = 1..n
  BY DEF Good, Shape, IsList
<1>2. PICK l \in do_sort(p.list) :
        r = [p EXCEPT !.list = l, !.selected = Max({i \in DOMAIN l : l[i].name = p.list[p.selected].name})]
  BY DEF panel_re_sort
<1>3. PICK q \in SetToSeqs(1..n) : l = [i \in 1..n |-> p.list[q[i]]]
  BY <1>1, <1>2 DEF do_sort
<1>4. IsFiniteSet(1..n) /\ Cardinality(1..n) = n
  BY <1>1, FS_Interval
<1>5. q \in [1..n -> 1..n] /\ \A i, j \in 1..n : i # j => q[i] # q[j]
  BY <1>3, <1>4 DEF SetToSeqs
<1>6. \A j \in 1..n : \E i \in 1..n : q[i] = j
  <2>1. q \in Injection(1..n, 1..n)
    BY <1>5, Fun_IsInj
  <2> HIDE DEF n
  <2>2. q \in Surjection(1..n, 1..n)
    BY <1>4, <2>1, FS_Injection
  <2> QED
    BY <2>2 DEF Surjection
<1>7. r.list = l /\ r.dirs_marked = p.dirs_marked /\ r.total = p.total /\ DOMAIN l = 1..n
  BY <1>2, <1>3 DEF Good, Shape, Fields
<1>8. \A i \in 1..n : r.list[i] = p.list[q[i]] /\ (i \in Marked(r) <=> q[i] \in Marked(p))
  BY <1>1, <1>3, <1>5, <1>7 DEF Marked
<1>9. Marked(r) \subseteq 1..n /\ Marked(p) \subseteq 1..n
  BY <1>1, <1>7 DEF Marked
<1>10. Sized(r)
  BY <1>1, <1>5, <1>7, <1>8 DEF Summed, Sized
<1>11. \A i \in 1..n : Bytes(p.list[i]) \in Int
  BY <1>1, BytesAreInt DEF Summed
<1> HIDE DEF n
<1>12. BytesOf(r, Marked(r)) = BytesOf(p, Marked(p))
  <2>1. IsFiniteSet(Marked(r))
    BY <1>4, <1>9, FS_Subset
  <2>2. \A i \in Marked(r) : r.list[i] = p.list[q[i]] /\ Bytes(p.list[q[i]]) \in Int
    BY <1>5, <1>8, <1>9, <1>11
  <2>3. \A i, j \in Marked(r) : i # j => q[i] # q[j]
    BY <1>5, <1>9
  <2>4. BytesOf(r, Marked(r)) = BytesOf(p, {q[i] : i \in Marked(r)})
    BY <2>1, <2>2, <2>3, BytesOfMoved
  <2>5. {q[i] : i \in Marked(r)} = Marked(p)
    BY <1>5, <1>6, <1>8, <1>9
  <2> QED
    BY <2>4, <2>5
<1> DEFINE A == {i \in Marked(r) : IsDir(r.list[i])}
           B == {i \in Marked(p) : IsDir(p.list[i])}
<1>13. Cardinality(A) = Cardinality(B)
  <2> DEFINE g == [i \in A |-> q[i]]
  <2>1. g \in [A -> B]
    BY <1>8, <1>9
  <2>2. \A i, j \in A : g[i] = g[j] => i = j
    BY <1>5, <1>9
  <2>3. \A j \in B : \E i \in A : g[i] = j
    BY <1>6, <1>8, <1>9
  <2>4. A \in SUBSET (1..n)
    BY <1>9
  <2> HIDE DEF g, A, B
  <2>5. g \in Bijection(A, B)
    BY <2>1, <2>2, <2>3, Fun_IsBij
  <2>6. ExistsBijection(A, B)
    BY <2>5 DEF ExistsBijection
  <2>7. IsFiniteSet(A)
    BY <1>4, <2>4, FS_Subset
  <2> QED
    BY <2>6, <2>7, FS_Bijection
<1> QED
  BY <1>7, <1>10, <1>12, <1>13 DEF Summed

\* The size of a directory is a number.
LEMMA SizeBelowIsInt ==
  ASSUME size \in [Place -> 0..MaxSize]
  PROVE  SizeBelow \in Int
<1> DEFINE w == [n \in File |-> size[<<"below", n>>]]
           ch(s) == CHOOSE x \in s : TRUE
           ByName(g) == [s \in SUBSET File |-> IF s = {} THEN 0 ELSE size[<<"below", ch(s)>>] + g[s \ {ch(s)}]]
           ByWeight(g) == [s \in SUBSET File |-> IF s = {} THEN 0 ELSE w[ch(s)] + g[s \ {ch(s)}]]
<1>1. SizeBelow = (CHOOSE g : g = ByName(g))[File]
  BY DEF SizeBelow, MapThenSumSet, MapThenFoldSet
<1>2. \A s \in SUBSET File : s # {} => w[ch(s)] = size[<<"below", ch(s)>>]
  OBVIOUS
<1>3. \A g : ByName(g) = ByWeight(g)
  BY <1>2
<1>4. SumOf(w, File) = (CHOOSE g : g = ByWeight(g))[File]
  BY DEF SumOf, First
<1> HIDE DEF ByName, ByWeight
<1>5. (CHOOSE g : g = ByName(g)) = (CHOOSE g : g = ByWeight(g))
  BY <1>3
<1>6. IsFiniteSet(File)
  BY PanelAssumption DEF PanelAssumption
<1>7. w \in [File -> Int]
  <2>1. \A n \in File : <<"below", n>> \in Place
    BY DEF Place
  <2> QED
    BY <2>1
<1> HIDE DEF w
<1>8. PICK g : IsSum(g, w, SUBSET File) /\ SumOf(w, File) = g[File]
  BY <1>6, SumOfIsSum
<1>9. Weighs(g, w, File)
  BY <1>6, <1>7, <1>8 DEF Weighs
<1>10. g[File] \in Int
  BY <1>9, SumOfMembers
<1> QED
  BY <1>1, <1>4, <1>5, <1>8, <1>10

\* A list is put into an empty panel.
LEMMA CleanSummed ==
  ASSUME NEW p, Shape(p), NEW r, r.list = p.list, r.dirs_marked = 0, r.total = 0,
         \A i \in DOMAIN p.list : p.list[i].marked = FALSE /\ p.list[i].size \in Int
  PROVE  Summed(r)
<1>1. Marked(r) = {} /\ Sized(r)
  BY DEF Marked, Sized
<1> QED
  BY <1>1, SummedOfNone
-----------------------------------------------------------------------------
(* Each action keeps the summary *)

\* Marks are put on and taken off.
LEMMA MarksSummed == ASSUME PInv, Summed(panel), Marks PROVE Summed(panel')
<1>1. /\ Good(panel) /\ Shape(panel) /\ Tally(panel) /\ panel.selected \in DOMAIN panel.list
      /\ IsList(panel.list) /\ size \in [Place -> 0..MaxSize]
  BY DEF PInv, WorkType, Good, Shape
<1>2. CASE MarkFile
  <2> DEFINE i == panel.selected
             mark == ~ panel.list[i].marked
             p == do_file_mark(panel, {i}, mark)
  <2>1. PICK down \in {0, 1} : panel' = [p EXCEPT !.selected = Min({i + down, Len(p.list)})]
    BY <1>2 DEF MarkFile
  <2>2. mark \in BOOLEAN /\ {i} \in SUBSET DOMAIN panel.list
    BY <1>1
  <2>3. p = do_file_mark(panel, {i}, mark)
    OBVIOUS
  <2> HIDE DEF p, mark
  <2>4. Shape(p)
    BY <1>1, <2>2, <2>3, FileMark
  <2>5. Summed(p)
    BY <1>1, <2>2, <2>3, MarkSummed
  <2>6. panel'.list = p.list /\ panel'.dirs_marked = p.dirs_marked /\ panel'.total = p.total
    BY <2>1, <2>4 DEF Shape, Fields
  <2> QED
    BY <2>5, <2>6, SummedAlike
<1>3. CASE reverse_selection_cmd
  <2> DEFINE files == {i \in DOMAIN panel.list : ~ IsDir(panel.list[i])}
             off == files \cap Marked(panel)
             on == files \ off
             p == do_file_mark(panel, off, FALSE)
  <2>1. panel' = do_file_mark(p, on, TRUE)
    BY <1>3 DEF reverse_selection_cmd
  <2>2. off \in SUBSET DOMAIN panel.list /\ on \in SUBSET DOMAIN panel.list
    OBVIOUS
  <2>3. p = do_file_mark(panel, off, FALSE)
    OBVIOUS
  <2> HIDE DEF p, off, on, files
  <2>4. Shape(p) /\ SameNames(panel, p)
    BY <1>1, <2>2, <2>3, MarkOff
  <2>5. Summed(p)
    BY <1>1, <2>2, <2>3, MarkSummed
  <2>6. on \in SUBSET DOMAIN p.list
    BY <2>2, <2>4 DEF SameNames
  <2> QED
    BY <2>1, <2>4, <2>5, <2>6, MarkSummed
<1>4. CASE dirsizes_cmd
  <2> DEFINE n == Len(panel.list)
             due(e) == e.name = Sub /\ (panel.dirs_marked = 0 \/ e.marked)
             l == [i \in 1..n |-> IF due(panel.list[i])
                                  THEN [panel.list[i] EXCEPT !.size = SizeBelow, !.computed = TRUE]
                                  ELSE panel.list[i]]
             p == [panel EXCEPT !.list = l]
  <2>1. n \in Nat \ {0} /\ DOMAIN panel.list = 1..n /\ \A i \in 1..n : EntryOK(panel.list[i])
    BY <1>1 DEF IsList
  <2>2. panel' = recalculate_panel_summary(p)
    BY <1>4, <2>1 DEF dirsizes_cmd
  <2>3. \A i \in 1..n : EntryOK(l[i]) /\ l[i].name = panel.list[i].name /\ l[i].size \in {SizeBelow, panel.list[i].size}
    BY <2>1 DEF EntryOK
  <2>4. l = [i \in 1..n |-> l[i]]
    OBVIOUS
  <2> HIDE DEF l
  <2>5. IsList(l) /\ DOMAIN l = 1..n
    <3>1. \A i, j \in 1..n : i # j => l[i].name # l[j].name
      BY <1>1, <2>1, <2>3 DEF IsList
    <3> QED
      BY <2>1, <2>3, <2>4, <3>1, ListOf
  <2>6. /\ DOMAIN p = Fields /\ p.cwd = panel.cwd /\ p.is_panelized = panel.is_panelized
        /\ p.dir_stat = panel.dir_stat /\ p.list = l /\ p.selected = panel.selected
    BY <1>1 DEF Shape, Fields
  <2> HIDE DEF p
  <2>7. Shape(p)
    BY <1>1, <2>5, <2>6 DEF Shape
  <2>8. Sized(p)
    <3>1. SizeBelow \in Int
      BY <1>1, SizeBelowIsInt
    <3>2. \A i \in 1..n : panel.list[i].size \in Int
      BY <2>1 DEF Summed, Sized
    <3> QED
      BY <2>3, <2>5, <2>6, <3>1, <3>2 DEF Sized
  <2> QED
    BY <2>2, <2>7, <2>8, RecalculatedSummed
<1>5. CASE MoveCursor
  <2>1. PICK i \in DOMAIN panel.list : panel' = [panel EXCEPT !.selected = i]
    BY <1>5 DEF MoveCursor
  <2>2. panel'.list = panel.list /\ panel'.dirs_marked = panel.dirs_marked /\ panel'.total = panel.total
    BY <1>1, <2>1 DEF Shape, Fields
  <2> QED
    BY <2>2, SummedAlike
<1>6. ASSUME NEW mark \in BOOLEAN, SelectCmd(mark) PROVE Summed(panel')
  <2>1. PICK dirflag \in BOOLEAN :
          \E pattern : LET kind == {i \in DOMAIN panel.list :
                                      panel.list[i].name # DotDot /\ IsDir(panel.list[i]) = dirflag}
                       IN  Mark({i \in kind : panel.list[i].name \in pattern}, mark)
    BY <1>6 DEF SelectCmd
  <2>2. PICK S \in SUBSET DOMAIN panel.list : panel' = do_file_mark(panel, S, mark)
    BY <2>1 DEF Mark
  <2> QED
    BY <1>1, <2>2, MarkSummed
<1> QED
  BY <1>2, <1>3, <1>4, <1>5, <1>6 DEF Marks

\* Lists are loaded, reloaded and sorted.
LEMMA LoadsSummed == ASSUME PInv, Summed(panel), Loads PROVE Summed(panel')
<1>1. /\ Good(panel) /\ Shape(panel) /\ size \in [Place -> 0..MaxSize] /\ TRUE \in BOOLEAN /\ FALSE \in BOOLEAN
      /\ DOMAIN panel = Fields
  BY DEF PInv, WorkType, Good, Shape
<1>2. CASE reread_cmd
  BY <1>1, <1>2, UpdatedSummed DEF reread_cmd
<1>3. CASE do_external_panelize
  <2> DEFINE m(q) == [i \in DOMAIN q |-> [name |-> q[i], size |-> SizeOf(size, panel.cwd, q[i]),
                                          computed |-> FALSE, marked |-> FALSE]]
             base(l) == [panel_clean_dir(panel) EXCEPT !.list = IF l = <<>> THEN ZeroDir ELSE l,
                                                       !.is_panelized = TRUE]
  <2>1. PICK S \in SUBSET (AnyName \ {DotDot}) :
          \E names \in SetToSeqs({n \in S : lstat(size, panel.cwd, n)}) : panel' \in panel_re_sort(base(m(names)))
    BY <1>3 DEF do_external_panelize
  <2> DEFINE found == {n \in S : lstat(size, panel.cwd, n)}
             n == Cardinality(found)
  <2>2. PICK q \in SetToSeqs(found) : panel' \in panel_re_sort(base(m(q)))
    BY <2>1
  <2>3. q \in [1..n -> found] /\ (\A i, j \in 1..n : i # j => q[i] # q[j]) /\ found \subseteq AnyName
    BY <2>2 DEF SetToSeqs
  <2>4. n \in Nat
    <3>1. IsFiniteSet(found)
      BY <2>3, AnyNameFinite, FS_Subset
    <3> QED
      BY <3>1, FS_CardinalityType
  <2> DEFINE k == m(q)
             l == IF k = <<>> THEN ZeroDir ELSE k
             c == base(k)
  <2>5. \A i \in 1..n : SizeOf(size, panel.cwd, q[i]) \in Int
    BY <1>1, <2>3, SizeOfIsInt
  <2>6. /\ DOMAIN k = 1..n /\ k = [i \in 1..n |-> k[i]]
        /\ \A i \in 1..n : EntryOK(k[i]) /\ k[i].name = q[i] /\ k[i].marked = FALSE /\ k[i].size \in Int
    BY <2>3, <2>5 DEF EntryOK
  <2>7. panel' \in panel_re_sort(c)
    BY <2>2
  <2>8. /\ DOMAIN c = Fields /\ c.cwd = panel.cwd /\ c.list = l /\ c.is_panelized = TRUE /\ c.selected = 1
        /\ c.marked = 0 /\ c.dir_stat = panel.dir_stat /\ c.dirs_marked = 0 /\ c.total = 0
    BY <1>1 DEF panel_clean_dir, Fields
  <2> HIDE DEF k, c, n
  <2>9. IsList(l) /\ \A i \in DOMAIN l : l[i].marked = FALSE /\ l[i].size \in Int
    <3>1. CASE k = <<>>
      <4>1. ZeroDir \in ListsOf(size, "above", {})
        BY DEF ListsOf
      <4>2. IsList(ZeroDir)
        BY <4>1, Loaded
      <4>3. \A i \in DOMAIN ZeroDir : ZeroDir[i].marked = FALSE /\ ZeroDir[i].size \in Int
        BY DEF ZeroDir
      <4> QED
        BY <3>1, <4>2, <4>3
    <3>2. CASE k # <<>>
      <4>1. n # 0
        <5> SUFFICES ASSUME n = 0 PROVE k = <<>>
          BY <3>2
        <5>1. DOMAIN k = {} /\ k = [i \in {} |-> k[i]]
          BY <2>6
        <5> QED
          BY <5>1
      <4>2. \A i, j \in 1..n : i # j => k[i].name # k[j].name
        BY <2>3, <2>6
      <4>3. IsList(k) /\ DOMAIN k = 1..n
        BY <2>4, <2>6, <4>1, <4>2, ListOf
      <4> QED
        BY <2>6, <3>2, <4>3
    <3> QED
      BY <3>1, <3>2
  <2> HIDE DEF l
  <2>10. Good(c)
    BY <1>1, <2>8, <2>9, CleanGood DEF Shape
  <2>11. Summed(c)
    BY <2>8, <2>9, <2>10, CleanSummed DEF Good
  <2> QED
    BY <2>7, <2>10, <2>11, SortedSummed
<1>4. CASE shell_execute
  BY <1>1, <1>4, SavedSummed DEF shell_execute
<1>5. CASE CommandDone
  BY <1>1, <1>5, UpdatedSummed DEF CommandDone
<1>6. ASSUME NEW d \in Dir, do_cd(d) PROVE Summed(panel')
  <2>1. PICK l \in ListsOf(size, d, {}) :
          panel' = try_to_select([panel_clean_dir(panel) EXCEPT !.cwd = d, !.list = l],
                                 IF d = "above" THEN Sub ELSE DotDot)
    BY <1>6 DEF do_cd, do_load_dir
  <2> DEFINE c == [panel_clean_dir(panel) EXCEPT !.cwd = d, !.list = l]
  <2>2. /\ DOMAIN c = Fields /\ c.cwd = d /\ c.list = l /\ c.is_panelized = FALSE /\ c.selected = 1
        /\ c.marked = 0 /\ c.dir_stat = panel.dir_stat /\ panel.dir_stat \subseteq Dir
        /\ c.dirs_marked = 0 /\ c.total = 0
    BY <1>1 DEF panel_clean_dir, Shape, Fields
  <2>3. IsList(l) /\ \A i \in DOMAIN l : l[i].marked = FALSE
    BY Loaded DEF IsList, EntryOK
  <2>4. \A i \in DOMAIN l : l[i].size \in Int
    BY <1>1, LoadedSized
  <2>5. panel' = try_to_select(c, IF d = "above" THEN Sub ELSE DotDot)
    BY <2>1
  <2> HIDE DEF c
  <2>6. Shape(c)
    BY <2>2, <2>3, CleanGood DEF Good
  <2>7. Summed(c)
    BY <2>2, <2>3, <2>4, <2>6, CleanSummed
  <2> QED
    BY <2>5, <2>6, <2>7, SelectedSummed
<1>7. ASSUME NEW unsorted \in BOOLEAN, panel_set_sort_order(unsorted) PROVE Summed(panel')
  <2>1. PICK p : /\ panel' \in panel_re_sort(p)
                 /\ \/ p = panel
                    \/ \E q \in panel_reload(size, panel) : p = try_to_select(q, panel.list[panel.selected].name)
    BY <1>7 DEF panel_set_sort_order
  <2>2. Good(p) /\ Summed(p)
    <3>1. CASE p = panel
      BY <1>1, <3>1
    <3>2. CASE p # panel
      <4>1. PICK q \in panel_reload(size, panel) : p = try_to_select(q, panel.list[panel.selected].name)
        BY <2>1, <3>2
      <4>2. Good(q) /\ Summed(q)
        BY <1>1, Reloaded, ReloadedSummed
      <4>3. Shape(q) /\ Tally(q)
        BY <4>2 DEF Good
      <4>4. Shape(p) /\ p.selected \in DOMAIN p.list /\ Tally(p)
        BY <4>1, <4>3, Selected
      <4>5. Summed(p)
        BY <4>1, <4>2, <4>3, SelectedSummed
      <4> QED
        BY <4>4, <4>5 DEF Good
    <3> QED
      BY <3>1, <3>2
  <2> QED
    BY <2>1, <2>2, SortedSummed
<1> QED
  BY <1>2, <1>3, <1>4, <1>5, <1>6, <1>7 DEF Loads

\* Operations work through the marks.
LEMMA OperationsSummed == ASSUME PInv, PInv', Summed(panel), Operations PROVE Summed(panel')
<1>1. /\ Good(panel) /\ Shape(panel) /\ size \in [Place -> 0..MaxSize] /\ FALSE \in BOOLEAN
      /\ size' \in [Place -> 0..MaxSize] /\ IsList(panel.list)
  BY DEF PInv, WorkType, Good, Shape
<1>2. CASE FileCommand
  <2>1. panel' \in save_cwds_stat(panel)
    BY <1>2 DEF FileCommand, OperateCancelled, panel_operate
  <2> QED
    BY <1>1, <2>1, SavedSummed
<1>3. CASE OperateSingle
  <2>1. PICK p : /\ panel' \in update_panels(size', p, FALSE)
                 /\ \/ p \in Aged(IF force THEN panel ELSE unmark_files(panel), Changed(Target(at)))
                    \/ \E P : p \in Aged(panel, Changed(P))
    BY <1>3 DEF OperateSingle
  <2>2. Good(p) /\ Summed(p)
    <3>1. Good(unmark_files(panel)) /\ Summed(unmark_files(panel))
      BY <1>1, Unmarked, UnmarkedSummed
    <3> QED
      BY <1>1, <2>1, <3>1, AgedGood, AgedSummed
  <2> QED
    BY <1>1, <2>1, <2>2, UpdatedSummed
<1>4. CASE OperateNext
  <2> DEFINE u == do_file_mark(panel, {at}, FALSE)
  <2>1. \/ panel' \in Aged(u, Changed(Target(at)))
        \/ \E P : panel' \in Aged(panel, Changed(P))
    BY <1>4 DEF OperateNext
  <2>2. {at} \in SUBSET DOMAIN panel.list
    BY <1>1, <1>4 DEF OperateNext, PInv, AtInv, IsList
  <2>3. u = do_file_mark(panel, {at}, FALSE)
    OBVIOUS
  <2> HIDE DEF u
  <2>4. Good(u) /\ Summed(u)
    <3>1. Shape(u) /\ u.selected = panel.selected /\ SameNames(panel, u)
      BY <1>1, <2>2, <2>3, MarkOff
    <3>2. Tally(u)
      BY <1>1, <2>2, <2>3, MarkOff DEF Good
    <3>3. Summed(u)
      BY <1>1, <2>2, <2>3, MarkSummed
    <3> QED
      BY <1>1, <3>1, <3>2, <3>3 DEF Good, SameNames
  <2> QED
    BY <1>1, <2>1, <2>4, AgedSummed
<1>5. CASE OperateDone
  BY <1>1, <1>5, UpdatedSummed DEF OperateDone
<1>6. CASE chmod_cmd \/ ChmodCancel
  <2>1. panel' = panel
    BY <1>6 DEF chmod_cmd, ChmodCancel
  <2> QED
    BY <2>1
<1>7. CASE ChmodEnter
  <2> DEFINE p == IF panel.marked # 0 THEN do_file_mark(panel, {at}, FALSE) ELSE panel
  <2>1. panel' = p \/ panel' \in update_panels(size, p, FALSE)
    BY <1>7 DEF ChmodEnter
  <2>2. {at} \in SUBSET DOMAIN panel.list
    BY <1>1, <1>7 DEF ChmodEnter, PInv, AtInv
  <2>3. p = do_file_mark(panel, {at}, FALSE) \/ p = panel
    OBVIOUS
  <2> HIDE DEF p
  <2>4. Good(p) /\ Summed(p)
    <3>1. CASE p = do_file_mark(panel, {at}, FALSE)
      <4>1. Shape(p) /\ p.selected = panel.selected /\ SameNames(panel, p)
        BY <1>1, <2>2, <3>1, MarkOff
      <4>2. Tally(p)
        BY <1>1, <2>2, <3>1, MarkOff DEF Good
      <4>3. Summed(p)
        BY <1>1, <2>2, <3>1, MarkSummed
      <4> QED
        BY <1>1, <4>1, <4>2, <4>3 DEF Good, SameNames
    <3>2. CASE p = panel
      BY <1>1, <3>2
    <3> QED
      BY <2>3, <3>1, <3>2
  <2> QED
    BY <1>1, <2>1, <2>4, UpdatedSummed
<1>8. CASE ChmodApply
  <2> DEFINE gone == {i \in Marked(panel) : i > at /\ ~ lstat(size, panel.cwd, panel.list[i].name)}
             S == {i \in Marked(panel) : \A j \in gone : i <= j}
             p == do_file_mark(panel, S, FALSE)
  <2>1. panel' \in update_panels(size, p, FALSE)
    BY <1>8 DEF ChmodApply
  <2>2. S \in SUBSET DOMAIN panel.list
    BY DEF Marked
  <2>3. p = do_file_mark(panel, S, FALSE)
    OBVIOUS
  <2> HIDE DEF p, S
  <2>4. Good(p) /\ Summed(p)
    <3>1. Shape(p) /\ p.selected = panel.selected /\ SameNames(panel, p)
      BY <1>1, <2>2, <2>3, MarkOff
    <3>2. Tally(p)
      BY <1>1, <2>2, <2>3, MarkOff DEF Good
    <3>3. Summed(p)
      BY <1>1, <2>2, <2>3, MarkSummed
    <3> QED
      BY <1>1, <3>1, <3>2, <3>3 DEF Good, SameNames
  <2> QED
    BY <1>1, <2>1, <2>4, UpdatedSummed
<1> QED
  BY <1>2, <1>3, <1>4, <1>5, <1>6, <1>7, <1>8 DEF Operations

\* Every step keeps the summary.
LEMMA StepSummed == ASSUME PInv, PInv', Summed(panel), [Next]_vars PROVE Summed(panel')
<1>1. CASE Elsewhere
  <2>1. PICK D : panel' \in Aged(panel, D)
    BY <1>1 DEF Elsewhere, Appear, Vanish, Grow, Others
  <2> QED
    BY <2>1, AgedSummed DEF PInv
<1>2. CASE UNCHANGED vars
  <2>1. panel' = panel
    BY <1>2 DEF vars
  <2> QED
    BY <2>1
<1> QED
  BY <1>1, <1>2, MarksSummed, LoadsSummed, OperationsSummed DEF Next

\* So does the first panel.
LEMMA InitSummed == ASSUME Init PROVE Summed(panel)
<1>0. PICK d \in Dir : panel \in {[cwd |-> d, list |-> l, selected |-> 1, marked |-> 0, dirs_marked |-> 0,
                                   total |-> 0, is_panelized |-> FALSE, dir_stat |-> {}] :
                                    l \in ListsOf(size, d, {})}
  BY DEF Init, do_load_dir
<1>1. PICK l \in ListsOf(size, d, {}) :
        panel = [cwd |-> d, list |-> l, selected |-> 1, marked |-> 0, dirs_marked |-> 0,
                 total |-> 0, is_panelized |-> FALSE, dir_stat |-> {}]
  BY <1>0
<1>2. Shape(panel) /\ size \in [Place -> 0..MaxSize]
  BY InitKeeps DEF PInv, WorkType, Good
<1>3. \A i \in DOMAIN l : l[i].marked = FALSE
  BY Loaded DEF IsList, EntryOK
<1>4. \A i \in DOMAIN l : l[i].size \in Int
  BY <1>2, LoadedSized
<1>5. panel.list = l /\ panel.dirs_marked = 0 /\ panel.total = 0
  BY <1>1
<1> QED
  BY <1>2, <1>3, <1>4, <1>5, CleanSummed

\* The summary is always kept.
LEMMA AlwaysSummed == Spec => []Summed(panel)
<1>1. Init => Summed(panel)
  BY InitSummed
<1>2. PInv /\ PInv' /\ Summed(panel) /\ [Next]_vars => Summed(panel)'
  BY StepSummed
<1> QED
  BY <1>1, <1>2, Always, PTL DEF Spec

\* The summary the panel keeps -- how many entries are marked, how many of them are directories and
\* how many bytes they have -- is that of the marks in the list, whatever is loaded, reloaded, sorted,
\* panelized, marked and operated on, and whatever other programs do (screen.c, dir.c, cmd.c).
THEOREM CountsAlwaysAgree == Spec => []CountsAgree
<1>1. PInv /\ Summed(panel) => CountsAgree
  BY DEF PInv, Good, Tally, Summed, CountsAgree, MarkedAgrees, SumsAgree
<1> QED
  BY <1>1, Always, AlwaysSummed, PTL

-----------------------------------------------------------------------------
(* The cursor *)

\* The name the cursor is on.
Cursor(p) == p.list[p.selected].name

\* The cursor of r is on the name n if that is in the list, and is not looked for in vain.
IsOn(r, n) == n \notin Path /\ IndexesOf(r, n) # {} => Cursor(r) = n

\* The same names and the same place.
LEMMA StaysOn ==
  ASSUME NEW p, Good(p), NEW r, SameNames(p, r), r.selected = p.selected
  PROVE  Cursor(r) = Cursor(p)
  BY DEF Good, SameNames, Cursor

\* try_to_select finds a name that is in the list.
LEMMA SelectedOn ==
  ASSUME NEW p, Shape(p), NEW n, NEW r, r = try_to_select(p, n)
  PROVE  IsOn(r, n)
<1> SUFFICES ASSUME n \notin Path, IndexesOf(r, n) # {} PROVE Cursor(r) = n
  BY DEF IsOn
<1>1. BaseName(n) = n
  BY DEF BaseName
<1>2. r.list = p.list
  BY Selected
<1> DEFINE I == IndexesOf(p, n)
<1>3. I # {} /\ I \subseteq Nat
  BY <1>2 DEF IndexesOf, Shape, IsList
<1>4. r.selected = Min(I)
  BY <1>1, <1>3 DEF try_to_select, Shape, Fields
<1>5. Min(I) \in I
  <2> HIDE DEF I
  <2> QED
    BY <1>3, Least
<1> QED
  BY <1>2, <1>4, <1>5 DEF Cursor, IndexesOf

\* After an update the cursor is on the name it was on, if that is still listed.
LEMMA UpdatedOn ==
  ASSUME NEW f, NEW p, Good(p), NEW reload \in BOOLEAN, NEW r \in update_panels(f, p, reload)
  PROVE  IsOn(r, Cursor(p))
<1> DEFINE q == IF reload THEN Reload(p) ELSE p
<1>1. Good(q)
  <2>1. CASE reload
    <3>1. q = [p EXCEPT !.is_panelized = FALSE, !.dir_stat = {}]
      BY <2>1 DEF Reload
    <3>2. /\ DOMAIN q = Fields /\ q.cwd = p.cwd /\ q.list = p.list /\ q.marked = p.marked
          /\ q.selected = p.selected /\ q.is_panelized = FALSE /\ q.dir_stat = {}
      BY <3>1 DEF Good, Shape, Fields
    <3> HIDE DEF q
    <3> QED
      BY <3>2, Alike DEF Good
  <2>2. CASE ~ reload
    BY <2>2
  <2> QED
    BY <2>1, <2>2
<1> HIDE DEF q
<1>2. PICK t \in IF q.is_panelized THEN reload_panelized(f, q) ELSE panel_reload(f, q) :
        r = try_to_select(t, p.list[p.selected].name)
  BY DEF update_panels, q
<1>3. Shape(t)
  <2>1. CASE q.is_panelized
    BY <1>1, <1>2, <2>1, ReloadedPanelized
  <2>2. CASE ~ q.is_panelized
    BY <1>1, <1>2, <2>2, Reloaded DEF Good
  <2> QED
    BY <2>1, <2>2
<1> QED
  BY <1>2, <1>3, SelectedOn DEF Cursor

\* Sorting takes the cursor along, and no name away.
LEMMA SortedOn ==
  ASSUME NEW p, Good(p), NEW r \in panel_re_sort(p)
  PROVE  Cursor(r) = Cursor(p) /\ \A n : IndexesOf(r, n) # {} => IndexesOf(p, n) # {}
<1> DEFINE n == Len(p.list)
<1>1. n \in Nat \ {0} /\ DOMAIN p.list = 1..n
  BY DEF Good, Shape, IsList
<1>2. PICK l \in do_sort(p.list) :
        r = [p EXCEPT !.list = l, !.selected = Max({i \in DOMAIN l : l[i].name = p.list[p.selected].name})]
  BY DEF panel_re_sort
<1>3. PICK q \in SetToSeqs(1..n) : l = [i \in 1..n |-> p.list[q[i]]]
  BY <1>1, <1>2 DEF do_sort
<1>4. IsFiniteSet(1..n) /\ Cardinality(1..n) = n
  BY <1>1, FS_Interval
<1>5. q \in [1..n -> 1..n] /\ \A i, j \in 1..n : i # j => q[i] # q[j]
  BY <1>3, <1>4 DEF SetToSeqs
<1>6. \A j \in 1..n : \E i \in 1..n : q[i] = j
  <2>1. q \in Injection(1..n, 1..n)
    BY <1>5, Fun_IsInj
  <2> HIDE DEF n
  <2>2. q \in Surjection(1..n, 1..n)
    BY <1>4, <2>1, FS_Injection
  <2> QED
    BY <2>2 DEF Surjection
<1>7. DOMAIN l = 1..n /\ \A i \in 1..n : l[i] = p.list[q[i]]
  BY <1>3
<1> DEFINE C == {i \in DOMAIN l : l[i].name = p.list[p.selected].name}
<1>8. PICK i \in 1..n : C = {i} /\ q[i] = p.selected
  <2>1. p.selected \in 1..n
    BY <1>1 DEF Good
  <2>2. PICK i \in 1..n : q[i] = p.selected
    BY <1>6, <2>1
  <2>3. \A j \in 1..n : j # i => p.list[q[j]].name # p.list[p.selected].name
    BY <1>1, <1>5, <2>1, <2>2 DEF Good, Shape, IsList
  <2>4. C = {i}
    BY <1>7, <2>2, <2>3
  <2> QED
    BY <2>2, <2>4
<1>9. Max(C) = i
  BY <1>8, MostOfOne
<1>10. r.list = l /\ r.selected = Max(C)
  BY <1>2 DEF Good, Shape, Fields
<1> HIDE DEF C
<1>11. Cursor(r) = Cursor(p)
  BY <1>7, <1>8, <1>9, <1>10 DEF Cursor
<1>12. \A name : IndexesOf(r, name) # {} => IndexesOf(p, name) # {}
  BY <1>1, <1>5, <1>7, <1>10 DEF IndexesOf
<1> QED
  BY <1>11, <1>12

\* What CursorStays says of a step.
Stays == IsOn(panel', Cursor(panel))

\* An update of a panel with the same names keeps the cursor.
LEMMA UpdateStays ==
  ASSUME Good(panel), NEW p, Good(p), Cursor(p) = Cursor(panel), NEW f, NEW reload \in BOOLEAN,
         panel' \in update_panels(f, p, reload)
  PROVE  Stays
  BY UpdatedOn DEF Stays

\* So does a step that leaves the names and the place alone.
LEMMA SameStays ==
  ASSUME Cursor(panel') = Cursor(panel)
  PROVE  Stays
  BY DEF Stays, IsOn

\* Marks leave it where it is, unless it is moved.
LEMMA MarksStay == ASSUME PInv, Marks PROVE Stays \/ MarkFile \/ MoveCursor
<1>1. Good(panel) /\ Shape(panel) /\ IsList(panel.list)
  BY DEF PInv, Good, Shape
<1>2. CASE reverse_selection_cmd
  <2> DEFINE files == {i \in DOMAIN panel.list : ~ IsDir(panel.list[i])}
             off == files \cap Marked(panel)
             on == files \ off
             p == do_file_mark(panel, off, FALSE)
  <2>1. panel' = do_file_mark(p, on, TRUE)
    BY <1>2 DEF reverse_selection_cmd
  <2>2. off \in SUBSET DOMAIN panel.list /\ on \in SUBSET DOMAIN panel.list
    OBVIOUS
  <2>3. p = do_file_mark(panel, off, FALSE)
    OBVIOUS
  <2> HIDE DEF p, off, on, files
  <2>4. Shape(p) /\ SameNames(panel, p) /\ p.selected = panel.selected
    BY <1>1, <2>2, <2>3, MarkOff
  <2>5. on \in SUBSET DOMAIN p.list
    BY <2>2, <2>4 DEF SameNames
  <2>6. SameNames(p, panel') /\ panel'.selected = p.selected
    BY <2>1, <2>4, <2>5, MarkOn
  <2>7. SameNames(panel, panel') /\ panel'.selected = panel.selected
    BY <2>4, <2>6 DEF SameNames
  <2> QED
    BY <1>1, <2>7, StaysOn, SameStays
<1>3. CASE dirsizes_cmd
  <2> DEFINE n == Len(panel.list)
             due(e) == e.name = Sub /\ (panel.dirs_marked = 0 \/ e.marked)
             l == [i \in 1..n |-> IF due(panel.list[i])
                                  THEN [panel.list[i] EXCEPT !.size = SizeBelow, !.computed = TRUE]
                                  ELSE panel.list[i]]
             p == [panel EXCEPT !.list = l]
  <2>1. n \in Nat \ {0} /\ DOMAIN panel.list = 1..n /\ \A i \in 1..n : EntryOK(panel.list[i])
    BY <1>1 DEF IsList
  <2>2. panel' = recalculate_panel_summary(p)
    BY <1>3, <2>1 DEF dirsizes_cmd
  <2>3. \A i \in 1..n : EntryOK(l[i]) /\ l[i].name = panel.list[i].name
    BY <2>1 DEF EntryOK
  <2>4. l = [i \in 1..n |-> l[i]]
    OBVIOUS
  <2> HIDE DEF l
  <2>5. IsList(l) /\ DOMAIN l = 1..n /\ Len(l) = n
    <3>1. \A i, j \in 1..n : i # j => l[i].name # l[j].name
      BY <1>1, <2>1, <2>3 DEF IsList
    <3> QED
      BY <2>1, <2>3, <2>4, <3>1, ListOf
  <2>6. /\ DOMAIN p = Fields /\ p.cwd = panel.cwd /\ p.is_panelized = panel.is_panelized
        /\ p.dir_stat = panel.dir_stat /\ p.list = l /\ p.selected = panel.selected
    BY <1>1 DEF Shape, Fields
  <2> HIDE DEF p
  <2>7. Shape(p)
    BY <1>1, <2>5, <2>6 DEF Shape
  <2>8. SameNames(p, panel') /\ panel'.selected = p.selected
    BY <2>2, <2>7, Recalculated
  <2>9. SameNames(panel, p)
    BY <2>1, <2>3, <2>5, <2>6 DEF SameNames
  <2>10. SameNames(panel, panel') /\ panel'.selected = panel.selected
    BY <2>6, <2>8, <2>9 DEF SameNames
  <2> QED
    BY <1>1, <2>10, StaysOn, SameStays
<1>4. ASSUME NEW mark \in BOOLEAN, SelectCmd(mark) PROVE Stays
  <2>1. PICK dirflag \in BOOLEAN :
          \E pattern : LET kind == {i \in DOMAIN panel.list :
                                      panel.list[i].name # DotDot /\ IsDir(panel.list[i]) = dirflag}
                       IN  Mark({i \in kind : panel.list[i].name \in pattern}, mark)
    BY <1>4 DEF SelectCmd
  <2>2. PICK S \in SUBSET DOMAIN panel.list : panel' = do_file_mark(panel, S, mark)
    BY <2>1 DEF Mark
  <2>3. SameNames(panel, panel') /\ panel'.selected = panel.selected
    <3>1. CASE mark = TRUE
      <4>1. panel' = do_file_mark(panel, S, TRUE)
        BY <2>2, <3>1
      <4> QED
        BY <1>1, <4>1, MarkOn
    <3>2. CASE mark = FALSE
      <4>1. panel' = do_file_mark(panel, S, FALSE)
        BY <2>2, <3>2
      <4> QED
        BY <1>1, <4>1, MarkOff
    <3> QED
      BY <1>4, <3>1, <3>2
  <2> QED
    BY <1>1, <2>2, <2>3, StaysOn, SameStays
<1> QED
  BY <1>2, <1>3, <1>4 DEF Marks

\* So do reloads and sorts.
LEMMA LoadsStay ==
  ASSUME PInv, Loads
  PROVE  Stays \/ do_external_panelize \/ \E d \in Dir : do_cd(d)
<1>1. Good(panel) /\ Shape(panel) /\ TRUE \in BOOLEAN /\ FALSE \in BOOLEAN
  BY DEF PInv, Good
<1>2. CASE reread_cmd
  BY <1>1, <1>2, UpdateStays DEF reread_cmd
<1>3. CASE shell_execute
  <2>1. panel'.list = panel.list /\ panel'.selected = panel.selected
    BY <1>1, <1>3 DEF shell_execute, save_cwds_stat, Shape, Fields
  <2> QED
    BY <2>1, SameStays DEF Cursor
<1>4. CASE CommandDone
  BY <1>1, <1>4, UpdateStays DEF CommandDone
<1>5. ASSUME NEW unsorted \in BOOLEAN, panel_set_sort_order(unsorted) PROVE Stays
  <2>1. PICK p : /\ panel' \in panel_re_sort(p)
                 /\ \/ p = panel
                    \/ \E q \in panel_reload(size, panel) : p = try_to_select(q, panel.list[panel.selected].name)
    BY <1>5 DEF panel_set_sort_order
  <2>2. Good(p) /\ IsOn(p, Cursor(panel))
    <3>1. CASE p = panel
      BY <1>1, <3>1 DEF IsOn
    <3>2. CASE p # panel
      <4>1. PICK q \in panel_reload(size, panel) : p = try_to_select(q, panel.list[panel.selected].name)
        BY <2>1, <3>2
      <4>2. Good(q)
        BY <1>1, Reloaded
      <4>3. Shape(q) /\ Tally(q)
        BY <4>2 DEF Good
      <4>4. Shape(p) /\ p.selected \in DOMAIN p.list /\ Tally(p)
        BY <4>1, <4>3, Selected
      <4>5. IsOn(p, Cursor(panel))
        BY <4>1, <4>3, SelectedOn DEF Cursor
      <4> QED
        BY <4>4, <4>5 DEF Good
    <3> QED
      BY <3>1, <3>2
  <2> QED
    BY <2>1, <2>2, SortedOn DEF Stays, IsOn
<1> QED
  BY <1>2, <1>3, <1>4, <1>5 DEF Loads

\* And operations.
LEMMA OperationsStay == ASSUME PInv, Operations PROVE Stays
<1>1. /\ Good(panel) /\ Shape(panel) /\ FALSE \in BOOLEAN /\ IsList(panel.list)
      /\ panel.list \in Seq(Range(panel.list))
  BY DEF PInv, Good, Shape, IsList
<1>2. CASE FileCommand
  <2>1. panel' \in save_cwds_stat(panel)
    BY <1>2 DEF FileCommand, OperateCancelled, panel_operate
  <2>2. panel'.list = panel.list /\ panel'.selected = panel.selected
    BY <1>1, <2>1 DEF save_cwds_stat, Shape, Fields
  <2> QED
    BY <2>2, SameStays DEF Cursor
<1>3. \A p, D : \A r \in Aged(p, D) : Good(p) => Good(r) /\ Cursor(r) = Cursor(p)
  <2> SUFFICES ASSUME NEW p, NEW D, NEW r \in Aged(p, D), Good(p) PROVE Good(r) /\ Cursor(r) = Cursor(p)
    OBVIOUS
  <2>1. Good(r) /\ r.list = p.list
    BY AgedGood
  <2>2. r.selected = p.selected
    BY DEF Aged, Good, Shape, Fields
  <2> QED
    BY <2>1, <2>2 DEF Cursor
<1>4. ASSUME NEW S \in SUBSET DOMAIN panel.list, NEW u, u = do_file_mark(panel, S, FALSE)
      PROVE  Good(u) /\ Cursor(u) = Cursor(panel)
  <2>1. Shape(u) /\ u.selected = panel.selected /\ SameNames(panel, u)
    BY <1>1, <1>4, MarkOff
  <2>2. Tally(u)
    BY <1>1, <1>4, MarkOff DEF Good
  <2>3. Good(u)
    BY <1>1, <2>1, <2>2 DEF Good, SameNames
  <2> QED
    BY <1>1, <2>1, <2>3, StaysOn
<1>5. CASE OperateSingle
  <2>1. PICK p : /\ panel' \in update_panels(size', p, FALSE)
                 /\ \/ p \in Aged(IF force THEN panel ELSE unmark_files(panel), Changed(Target(at)))
                    \/ \E P : p \in Aged(panel, Changed(P))
    BY <1>5 DEF OperateSingle
  <2>2. Good(unmark_files(panel)) /\ Cursor(unmark_files(panel)) = Cursor(panel)
    <3>1. Good(unmark_files(panel))
      BY <1>1, Unmarked
    <3>2. CASE panel.marked = 0
      BY <3>1, <3>2 DEF unmark_files
    <3>3. CASE panel.marked # 0
      <4>1. unmark_files(panel) = [panel EXCEPT !.list = [i \in DOMAIN @ |-> [@[i] EXCEPT !.marked = FALSE]],
                                                !.marked = 0, !.dirs_marked = 0, !.total = 0]
        BY <3>3 DEF unmark_files
      <4>2. SameNames(panel, unmark_files(panel)) /\ unmark_files(panel).selected = panel.selected
        BY <1>1, <4>1, Cleared
      <4> QED
        BY <1>1, <3>1, <4>2, StaysOn
    <3> QED
      BY <3>2, <3>3
  <2>3. Good(p) /\ Cursor(p) = Cursor(panel)
    BY <1>1, <1>3, <2>1, <2>2
  <2> QED
    BY <1>1, <2>1, <2>3, UpdateStays
<1>6. CASE OperateNext
  <2> DEFINE u == do_file_mark(panel, {at}, FALSE)
  <2>1. \/ panel' \in Aged(u, Changed(Target(at)))
        \/ \E P : panel' \in Aged(panel, Changed(P))
    BY <1>6 DEF OperateNext
  <2>2. {at} \in SUBSET DOMAIN panel.list
    BY <1>1, <1>6 DEF OperateNext, PInv, AtInv, IsList
  <2>3. u = do_file_mark(panel, {at}, FALSE)
    OBVIOUS
  <2> HIDE DEF u
  <2>4. Good(u) /\ Cursor(u) = Cursor(panel)
    BY <1>4, <2>2, <2>3
  <2>5. Cursor(panel') = Cursor(panel)
    BY <1>1, <1>3, <2>1, <2>4
  <2> QED
    BY <2>5, SameStays
<1>7. CASE OperateDone
  BY <1>1, <1>7, UpdateStays DEF OperateDone
<1>8. CASE chmod_cmd \/ ChmodCancel
  <2>1. panel' = panel
    BY <1>8 DEF chmod_cmd, ChmodCancel
  <2> QED
    BY <2>1, SameStays
<1>9. CASE ChmodEnter
  <2> DEFINE p == IF panel.marked # 0 THEN do_file_mark(panel, {at}, FALSE) ELSE panel
  <2>1. panel' = p \/ panel' \in update_panels(size, p, FALSE)
    BY <1>9 DEF ChmodEnter
  <2>2. {at} \in SUBSET DOMAIN panel.list
    BY <1>1, <1>9 DEF ChmodEnter, PInv, AtInv
  <2>3. p = do_file_mark(panel, {at}, FALSE) \/ p = panel
    OBVIOUS
  <2> HIDE DEF p
  <2>4. Good(p) /\ Cursor(p) = Cursor(panel)
    BY <1>1, <1>4, <2>2, <2>3
  <2> QED
    BY <1>1, <2>1, <2>4, UpdateStays, SameStays
<1>10. CASE ChmodApply
  <2> DEFINE gone == {i \in Marked(panel) : i > at /\ ~ lstat(size, panel.cwd, panel.list[i].name)}
             S == {i \in Marked(panel) : \A j \in gone : i <= j}
             p == do_file_mark(panel, S, FALSE)
  <2>1. panel' \in update_panels(size, p, FALSE)
    BY <1>10 DEF ChmodApply
  <2>2. S \in SUBSET DOMAIN panel.list
    BY DEF Marked
  <2>3. p = do_file_mark(panel, S, FALSE)
    OBVIOUS
  <2> HIDE DEF p, S
  <2>4. Good(p) /\ Cursor(p) = Cursor(panel)
    BY <1>4, <2>2, <2>3
  <2> QED
    BY <1>1, <2>1, <2>4, UpdateStays
<1> QED
  BY <1>2, <1>5, <1>6, <1>7, <1>8, <1>9, <1>10 DEF Operations

\* Every step but those that move it leaves the cursor on its name.
LEMMA StepStays ==
  ASSUME PInv, [Next]_vars
  PROVE  Stays \/ MarkFile \/ MoveCursor \/ do_external_panelize \/ \E d \in Dir : do_cd(d)
<1>1. CASE Elsewhere
  <2>1. PICK D : panel' \in Aged(panel, D)
    BY <1>1 DEF Elsewhere, Appear, Vanish, Grow, Others
  <2>2. panel'.list = panel.list /\ panel'.selected = panel.selected
    BY <2>1 DEF Aged, PInv, Good, Shape, Fields
  <2> QED
    BY <2>2, SameStays DEF Cursor
<1>2. CASE UNCHANGED vars
  <2>1. panel' = panel
    BY <1>2 DEF vars
  <2> QED
    BY <2>1, SameStays
<1> QED
  BY <1>1, <1>2, MarksStay, LoadsStay, OperationsStay DEF Next

\* The cursor stays on the name it is on as long as that is listed, for any number of files, whatever
\* order a sort gives, whatever is reloaded, operated on and changed by other programs: only Insert, a
\* key that moves it, another directory and a new panelized list take it away (main.c:339, screen.c:900).
THEOREM CursorAlwaysStays == Spec => CursorStays
<1> DEFINE n == panel.list[panel.selected].name
           A == n \notin Path /\ IndexesOf(panel', n) # {} /\ panel'.list[panel'.selected].name # n
                => MarkFile \/ MoveCursor \/ do_external_panelize \/ \E d \in Dir : do_cd(d)
<1>1. PInv /\ [Next]_vars => [A]_vars
  BY StepStays DEF Stays, IsOn, Cursor
<1> QED
  BY <1>1, Always, PTL DEF Spec, CursorStays

-----------------------------------------------------------------------------
(* A manual reload *)

\* The list is that of the directory d on the disk f, or nothing of it.
Shows(f, d, l) ==
  /\ {l[i].name : i \in DOMAIN l} \in {{DotDot}, {n \in AnyName \ Path : lstat(f, d, n)}}
  /\ \A i \in 2..Len(l) : l[i].size = SizeOf(f, d, l[i].name)

\* A directory as it is read is shown as it is.
LEMMA LoadedShows ==
  ASSUME NEW f, NEW d, NEW names, NEW l \in ListsOf(f, d, names)
  PROVE  Shows(f, d, l)
<1> DEFINE zero == [name |-> DotDot, size |-> 0, computed |-> FALSE, marked |-> FALSE]
           S == {n \in File \cup {Sub} : lstat(f, d, n)}
           n == Cardinality(S)
           m(q) == [i \in DOMAIN q |-> [name |-> q[i], size |-> SizeOf(f, d, q[i]), computed |-> FALSE,
                                       marked |-> q[i] \in names]]
<1>1. ZeroDir = <<zero>> /\ zero.name = DotDot
  BY DEF ZeroDir
<1>2. IsFiniteSet(S) /\ n \in Nat
  <2>1. IsFiniteSet(File \cup {Sub})
    BY PanelAssumption, FS_AddElement DEF PanelAssumption
  <2> QED
    BY <2>1, FS_Subset, FS_CardinalityType
<1>3. CASE l = ZeroDir
  <2>1. DOMAIN l = 1..1 /\ Len(l) = 1 /\ l[1].name = DotDot
    BY <1>1, <1>3
  <2>2. {l[i].name : i \in DOMAIN l} = {DotDot}
    BY <2>1
  <2>3. \A i \in 2..Len(l) : FALSE
    BY <2>1
  <2> QED
    BY <2>2, <2>3 DEF Shows
<1>4. CASE l # ZeroDir
  <2>1. PICK q \in SetToSeqs(S) : l = ZeroDir \o m(q)
    BY <1>4 DEF ListsOf
  <2>2. q \in [1..n -> S] /\ \A i, j \in 1..n : i # j => q[i] # q[j]
    BY <2>1 DEF SetToSeqs
  <2>3. \A x \in S : \E i \in 1..n : q[i] = x
    <3>1. q \in Injection(1..n, S)
      BY <2>2, Fun_IsInj
    <3>2. IsFiniteSet(1..n) /\ Cardinality(1..n) = n
      BY <1>2, FS_Interval
    <3> HIDE DEF S
    <3>3. q \in Surjection(1..n, S)
      BY <1>2, <3>1, <3>2, FS_Injection
    <3> QED
      BY <3>3 DEF Surjection
  <2> DEFINE k == m(q)
             E == Range(k) \cup {zero}
  <2>4. k = [i \in 1..n |-> k[i]] /\ \A i \in 1..n : k[i].name = q[i] /\ k[i].size = SizeOf(f, d, q[i])
    BY <2>2
  <2>5. l = ZeroDir \o k
    BY <2>1
  <2> HIDE DEF k, zero
  <2>6. k \in Seq(E) /\ Len(k) = n /\ ZeroDir \in Seq(E) /\ Len(ZeroDir) = 1 /\ ZeroDir[1] = zero
    <3>1. k \in [1..n -> E]
      BY <2>4 DEF Range
    <3>2. k \in Seq(E)
      BY <1>2, <3>1, SeqDef
    <3> QED
      BY <1>1, <1>2, <2>4, <3>2, LenProperties
  <2> HIDE DEF E, n, S
  <2>7. /\ l \in Seq(E) /\ Len(l) = 1 + n
        /\ \A i \in 1..(1 + n) : l[i] = IF i <= 1 THEN ZeroDir[i] ELSE k[i - 1]
    <3>1. /\ ZeroDir \o k \in Seq(E) /\ Len(ZeroDir \o k) = Len(ZeroDir) + Len(k)
          /\ \A i \in 1..Len(ZeroDir) + Len(k) :
               (ZeroDir \o k)[i] = IF i <= Len(ZeroDir) THEN ZeroDir[i] ELSE k[i - Len(ZeroDir)]
      BY <2>6, ConcatProperties
    <3> QED
      BY <2>5, <2>6, <3>1
  <2>8. l[1] = zero /\ \A i \in 2..(n + 1) : l[i] = k[i - 1] /\ i - 1 \in 1..n
    BY <1>2, <2>6, <2>7
  <2>9. DOMAIN l = 1..(n + 1) /\ Len(l) = n + 1
    BY <1>2, <2>7, LenProperties
  <2>10. \A i \in 2..(n + 1) : l[i].name = q[i - 1] /\ l[i].size = SizeOf(f, d, l[i].name)
    BY <2>4, <2>8
  <2>11. {l[i].name : i \in DOMAIN l} = {DotDot} \cup S
    <3>1. ASSUME NEW i \in 1..(n + 1) PROVE l[i].name \in {DotDot} \cup S
      <4>1. CASE i = 1
        BY <1>1, <2>8, <4>1
      <4>2. CASE i # 1
        <5>1. i \in 2..(n + 1) /\ i - 1 \in 1..n
          BY <1>2, <4>2
        <5> QED
          BY <2>2, <2>10, <5>1
      <4> QED
        BY <4>1, <4>2
    <3>2. ASSUME NEW x \in S PROVE \E i \in 1..(n + 1) : l[i].name = x
      <4>1. PICK j \in 1..n : q[j] = x
        BY <2>3
      <4>2. j + 1 \in 2..(n + 1) /\ j + 1 \in 1..(n + 1) /\ (j + 1) - 1 = j
        BY <1>2
      <4>3. l[j + 1].name = x
        BY <2>10, <4>1, <4>2
      <4> QED
        BY <4>2, <4>3
    <3>3. 1 \in 1..(n + 1) /\ l[1].name = DotDot
      BY <1>1, <1>2, <2>8
    <3> QED
      BY <2>9, <3>1, <3>2, <3>3
  <2>12. {DotDot} \cup S = {x \in AnyName \ Path : lstat(f, d, x)}
    <3>1. AnyName \ Path = File \cup {Sub, DotDot}
      BY PanelAssumption DEF AnyName, Path, PanelAssumption
    <3>2. lstat(f, d, DotDot)
      BY DEF lstat
    <3> QED
      BY <3>1, <3>2 DEF S
  <2> QED
    BY <2>9, <2>10, <2>11, <2>12 DEF Shows
<1> QED
  BY <1>3, <1>4

\* The lists have the same names and sizes.
SameSizes(l, k) ==
  DOMAIN k = DOMAIN l /\ \A i \in DOMAIN l : k[i].name = l[i].name /\ k[i].size = l[i].size

\* What is shown is shown by a list of the same names and sizes.
LEMMA ShownSame ==
  ASSUME NEW f, NEW d, NEW l, IsList(l), NEW k, IsList(k), SameSizes(l, k), Shows(f, d, l)
  PROVE  Shows(f, d, k)
<1> DEFINE a == Len(l)
           b == Len(k)
<1>1. a \in Nat \ {0} /\ b \in Nat \ {0} /\ DOMAIN l = 1..a /\ 1..b = 1..a
  BY DEF IsList, SameSizes
<1>2. b = a /\ 2..a \subseteq DOMAIN l
  <2> HIDE DEF a, b
  <2>1. a \in 1..a /\ b \in 1..b
    BY <1>1
  <2>2. a \in 1..b /\ b \in 1..a
    BY <1>1, <2>1
  <2> QED
    BY <1>1, <2>2
<1>3. {k[i].name : i \in DOMAIN k} = {l[i].name : i \in DOMAIN l}
  BY DEF SameSizes
<1> QED
  BY <1>1, <1>2, <1>3 DEF Shows, SameSizes

\* Marks and summaries change no size.
LEMMA RecalculatedSame ==
  ASSUME NEW p, Shape(p), NEW r, r = recalculate_panel_summary(p)
  PROVE  SameSizes(p.list, r.list)
<1> DEFINE cl == [i \in DOMAIN p.list |-> [p.list[i] EXCEPT !.marked = FALSE]]
           c == [p EXCEPT !.list = [i \in DOMAIN @ |-> [@[i] EXCEPT !.marked = FALSE]],
                          !.marked = 0, !.dirs_marked = 0, !.total = 0]
           C == {i \in Marked(p) : c.list[i].marked # TRUE /\ c.list[i].name # DotDot}
           l == [i \in DOMAIN cl |-> IF i \in C THEN [cl[i] EXCEPT !.marked = TRUE] ELSE cl[i]]
<1>1. c.list = cl /\ DOMAIN c = Fields
  BY DEF Shape, Fields
<1>2. r = do_file_mark(c, Marked(p), TRUE)
  BY DEF recalculate_panel_summary
<1>3. DOMAIN cl = DOMAIN p.list /\ DOMAIN l = DOMAIN cl
  OBVIOUS
<1>4. \A i \in DOMAIN p.list : EntryOK(p.list[i])
  BY DEF Shape, IsList
<1>5. \A i \in DOMAIN p.list : EntryOK(cl[i]) /\ cl[i].name = p.list[i].name /\ cl[i].size = p.list[i].size
  BY <1>4 DEF EntryOK
<1> HIDE DEF c, cl
<1>6. r.list = l
  BY <1>1, <1>2 DEF do_file_mark, Fields
<1> HIDE DEF C
<1>7. \A i \in DOMAIN p.list : l[i].name = cl[i].name /\ l[i].size = cl[i].size
  BY <1>3, <1>5 DEF EntryOK
<1> QED
  BY <1>3, <1>5, <1>6, <1>7 DEF SameSizes

\* After reread_cmd the panel shows its directory.
LEMMA RereadShows == ASSUME PInv, PInv', reread_cmd PROVE ShowsAll'
<1>1. Good(panel) /\ Shape(panel) /\ panel.list \in Seq(Range(panel.list)) /\ IsList(panel'.list) /\ size' = size
  BY DEF PInv, Good, Shape, IsList, reread_cmd
<1> DEFINE q == Reload(panel)
<1>2. PICK t \in IF q.is_panelized THEN reload_panelized(size, q) ELSE panel_reload(size, q) :
        panel' = try_to_select(t, panel.list[panel.selected].name)
  BY DEF reread_cmd, update_panels
<1>3. /\ DOMAIN q = Fields /\ q.cwd = panel.cwd /\ q.list = panel.list /\ q.marked = panel.marked
      /\ q.selected = panel.selected /\ q.is_panelized = FALSE /\ q.dir_stat = {}
  BY <1>1 DEF Reload, Shape, Fields
<1> HIDE DEF q
<1>4. Good(q)
  BY <1>1, <1>3, Alike DEF Good
<1> DEFINE v == IF Exists(size, q.cwd) THEN q ELSE [q EXCEPT !.cwd = "above", !.dir_stat = {}]
           names == {v.list[i].name : i \in {j \in DOMAIN v.list : v.list[j].marked}}
<1>5. PICK l \in ListsOf(size, v.cwd, names) :
        t = recalculate_panel_summary([v EXCEPT !.list = l, !.selected = Min({@, Len(l)})])
  BY <1>2, <1>3 DEF panel_reload, do_reload_dir
<1>6. /\ DOMAIN v = Fields /\ v.cwd \in Dir /\ v.is_panelized = FALSE /\ v.dir_stat \subseteq Dir
      /\ v.selected \in Nat \ {0}
  BY <1>3, <1>4 DEF Good, Shape, Fields, Dir
<1> HIDE DEF v, names
<1>7. IsList(l) /\ Shows(size, v.cwd, l)
  BY Loaded, LoadedShows
<1> DEFINE c == Min({v.selected, Len(l)})
           u == [v EXCEPT !.list = l, !.selected = c]
<1>8. c \in Nat \ {0}
  <2>1. Len(l) \in Nat \ {0}
    BY <1>7 DEF IsList
  <2> QED
    BY <1>6, <2>1, LeastOfTwo
<1>9. t = recalculate_panel_summary(u)
  BY <1>5
<1> HIDE DEF c
<1>10. /\ DOMAIN u = Fields /\ u.cwd = v.cwd /\ u.is_panelized = FALSE
       /\ u.dir_stat = v.dir_stat /\ u.list = l /\ u.selected = c
  BY <1>6 DEF Fields
<1> HIDE DEF u
<1>11. Shape(u)
  BY <1>6, <1>7, <1>8, <1>10 DEF Shape
<1>12. Shape(t) /\ t.cwd = v.cwd /\ SameSizes(l, t.list)
  BY <1>9, <1>10, <1>11, Recalculated, RecalculatedSame
<1>13. t.is_panelized = FALSE
  <2>1. \A p, S, mark : DOMAIN p = Fields => do_file_mark(p, S, mark).is_panelized = p.is_panelized
    BY DEF do_file_mark, Fields
  <2> DEFINE w == [u EXCEPT !.list = [i \in DOMAIN @ |-> [@[i] EXCEPT !.marked = FALSE]],
                            !.marked = 0, !.dirs_marked = 0, !.total = 0]
  <2>2. DOMAIN w = Fields /\ w.is_panelized = u.is_panelized
    BY <1>10 DEF Fields
  <2>3. t = do_file_mark(w, Marked(u), TRUE)
    BY <1>9 DEF recalculate_panel_summary
  <2> HIDE DEF w
  <2> QED
    BY <1>10, <2>1, <2>2, <2>3
<1>14. panel'.list = t.list /\ panel'.cwd = t.cwd /\ panel'.is_panelized = t.is_panelized
  BY <1>2, <1>12 DEF try_to_select, Shape, Fields
<1>15. Shows(size, panel'.cwd, panel'.list)
  BY <1>1, <1>7, <1>12, <1>14, ShownSame
<1> QED
  BY <1>1, <1>13, <1>14, <1>15 DEF ShowsAll, Shows

\* A manual reload shows the directory as it is, for any number of files: their names with their sizes,
\* or nothing where it cannot be read, whatever times are kept for fast_reload ("In this case you'll
\* need to do a manual reload of the directory", main.c:994).
THEOREM RereadAlwaysShows == Spec => RereadShowsAll
<1>1. PInv /\ PInv' /\ [Next]_vars => [ShowsAll' \/ ~ reread_cmd]_vars
  BY RereadShows
<1> QED
  BY <1>1, Always, PTL DEF Spec, RereadShowsAll

=============================================================================
