-------------------------- MODULE Background_proofs --------------------------
(***************************************************************************)
(* What Background promises for any number of jobs, questions and nested   *)
(* dialogs: variables stay in their types, jobs that run are listed and    *)
(* watched, deaths are reported, and answers reach the job that asked.     *)
(***************************************************************************)
EXTENDS Background, FiniteSetTheorems, SequenceTheorems, WellFoundedInduction, TLAPS

Modes == {"idle", "walk", "read", "return"}
FrameSet == {f \in [dlg : AnyDialog, task : Task \cup {Nil}, ready : SUBSET Task,
                    at : Task \cup {Nil}, mode : Modes, items : SUBSET Task] :
               f.mode \in {"read", "return"} => f.at \in Task}

\* The dialogs: the panels' own loop is at the bottom, and an error dialog shows
\* the question of the job at which the loop below it stands.
StackInv ==
  /\ stack \in Seq(FrameSet) /\ stack # <<>> /\ stack[1].dlg = "main"
  /\ \A j \in 1..Len(stack) : stack[j].dlg = "error" =>
       j > 1 /\ stack[j].task \in Task /\ stack[j].task = stack[j - 1].at

Births == 0..(1 + Cardinality(Task))

ListType ==
  /\ task_list \subseteq Task /\ select_list \subseteq Task /\ lost \subseteq Task
  /\ born \in [Task -> Births] /\ ghost \in [Task -> Task \cup {Nil}]

PipeType ==
  /\ request \in [Task -> Seq(Kinds)]
  /\ reply \in [Task -> Seq(Answer \cup {"cont"})]
  /\ asked \in [Task -> 0..MaxAsks]
  /\ got \in [Task -> Seq(Answer \cup {"cont", "retry", "abort"})]

ChildType ==
  /\ child \in [Task -> Life] /\ fate \in [Task -> {"ok", "killed"}]
  /\ stopped \subseteq Task

UserType ==
  /\ given \in [Task -> Seq(Answer)]
  /\ reported \subseteq Task /\ harm \subseteq {"group", "stale", "pipe"}

TInv == two_way \in Pipes /\ StackInv /\ ListType /\ PipeType /\ ChildType /\ UserType
-----------------------------------------------------------------------------
(* The lists *)

\* A set of jobs that is not empty has a youngest.
LEMMA YoungestIn ==
  ASSUME ListType, NEW ts, ts \subseteq Task
  PROVE  Youngest(ts) \in Task \cup {Nil}
<1>1. CASE ts = {}
  BY <1>1 DEF Youngest
<1>2. CASE ts # {}
  <2> DEFINE B == 1 + Cardinality(Task)
             T == {n \in Nat : \E t \in ts : n = B - born[t]}
  <2>1. B \in Nat
    BY BackgroundAssumption, FS_CardinalityType DEF BackgroundAssumption
  <2>2. \A t \in ts : born[t] \in Nat /\ born[t] <= B
    BY <2>1 DEF ListType, Births
  <2>3. T # {}
    <3>1. PICK t \in ts : TRUE
      BY <1>2
    <3>2. B - born[t] \in Nat
      <4> HIDE DEF B
      <4> QED
        BY <2>1, <2>2, <3>1
    <3>3. B - born[t] \in T
      BY <3>1, <3>2
    <3> QED
      BY <3>3
  <2> DEFINE R == OpToRel(<, Nat)
  <2>4. \A m, n \in Nat : m < n => <<m, n>> \in R
    BY DEF OpToRel
  <2>5. PICK n \in T : \A m \in T : ~ (<<m, n>> \in R)
    <3>1. T \subseteq Nat
      OBVIOUS
    <3>2. IsWellFoundedOn(R, Nat)
      BY NatLessThanWellFounded
    <3> HIDE DEF T, R
    <3> QED
      BY <2>3, <3>1, <3>2, WFMin
  <2>6. PICK t \in ts : n = B - born[t]
    OBVIOUS
  <2>7. \A u \in ts : born[u] <= born[t]
    <3> SUFFICES ASSUME NEW u \in ts, born[u] > born[t] PROVE FALSE
      BY <2>2, <2>6
    <3> HIDE DEF B
    <3>1. B - born[u] \in Nat /\ B - born[u] < n
      BY <2>1, <2>2, <2>6
    <3>2. B - born[u] \in T /\ n \in Nat
      BY <3>1
    <3> DEFINE b == B - born[u]
    <3>3. b \in T /\ b \in Nat /\ b < n
      BY <3>1, <3>2
    <3> HIDE DEF R, T, b
    <3>4. <<b, n>> \in R
      BY <2>4, <3>2, <3>3
    <3>5. ~ (<<b, n>> \in R)
      BY <2>5, <3>3
    <3> QED
      BY <3>4, <3>5
  <2>8. Youngest(ts) \in ts
    BY <1>2, <2>7 DEF Youngest
  <2> QED
    BY <2>8
<1> QED
  BY <1>1, <1>2

\* The next node of one in the list, or of one that has left it.
LEMMA AfterIn ==
  ASSUME ListType, NEW t
  PROVE  After(t) \in Task \cup {Nil}
<1>1. {u \in select_list : born[u] < born[t]} \subseteq Task
  BY DEF ListType
<1> QED
  BY <1>1, YoungestIn DEF After

LEMMA NextNodesIn ==
  ASSUME ListType, NEW t \in Task \cup {Nil}, t # Nil, NEW u \in NextNodes(t)
  PROVE  u \in Task \cup {Nil}
  BY AfterIn DEF NextNodes, ListType

---------------------------------------------------------------------------
(* The dialogs *)

LEMMA DialogIn ==
  ASSUME NEW d \in AnyDialog, NEW t \in Task \cup {Nil}, NEW ts \in SUBSET Task
  PROVE  /\ Dialog(d, t, ts) \in FrameSet
         /\ Dialog(d, t, ts).dlg = d /\ Dialog(d, t, ts).task = t
  BY DEF Dialog, FrameSet, Modes

\* The stack as its top and what lies below.
LEMMA Stack ==
  ASSUME StackInv
  PROVE  /\ Len(stack) \in Nat \ {0} /\ Top \in FrameSet
         /\ Below \in Seq(FrameSet) /\ Len(Below) = Len(stack) - 1
         /\ \A j \in 1..(Len(stack) - 1) : Below[j] = stack[j]
         /\ \A j \in 1..Len(stack) : stack[j] \in FrameSet
<1>1. Len(stack) \in Nat \ {0} /\ \A j \in 1..Len(stack) : stack[j] \in FrameSet
  BY EmptySeq, ElementOfSeq DEF StackInv
<1>2. Top \in FrameSet
  BY <1>1 DEF Top
<1> DEFINE L == Len(stack) - 1
<1>3. L \in Nat /\ \A j \in 1..L : stack[j] \in FrameSet
  BY <1>1
<1>4. /\ SubSeq(stack, 1, L) \in Seq(FrameSet)
      /\ Len(SubSeq(stack, 1, L)) = IF 1 <= L THEN L - 1 + 1 ELSE 0
      /\ \A j \in 1..(L - 1 + 1) : SubSeq(stack, 1, L)[j] = stack[1 + j - 1]
  <2> HIDE DEF L
  <2> QED
    BY <1>3, SubSeqProperties
<1>5. /\ SubSeq(stack, 1, L) \in Seq(FrameSet) /\ Len(SubSeq(stack, 1, L)) = L
      /\ \A j \in 1..L : SubSeq(stack, 1, L)[j] = stack[j]
  <2> HIDE DEF L
  <2>1. L - 1 + 1 = L /\ \A j \in 1..L : 1 + j - 1 = j
    BY <1>3
  <2> QED
    BY <1>3, <1>4, <2>1
<1> QED
  BY <1>1, <1>2, <1>5 DEF Below

LEMMA OnTopIs ==
  ASSUME StackInv, NEW f \in FrameSet
  PROVE  /\ OnTop(f) \in Seq(FrameSet) /\ Len(OnTop(f)) = Len(stack)
         /\ OnTop(f)[Len(stack)] = f
         /\ \A j \in 1..(Len(stack) - 1) : OnTop(f)[j] = stack[j]
<1> DEFINE b == Below
<1>1. /\ b \in Seq(FrameSet) /\ Len(b) = Len(stack) - 1 /\ Len(stack) \in Nat \ {0}
      /\ \A j \in 1..(Len(stack) - 1) : b[j] = stack[j]
  BY Stack
<1> HIDE DEF b
<1>2. /\ Append(b, f) \in Seq(FrameSet) /\ Len(Append(b, f)) = Len(b) + 1
      /\ Append(b, f)[Len(b) + 1] = f
      /\ \A j \in 1..Len(b) : Append(b, f)[j] = b[j]
  BY <1>1, AppendProperties
<1>3. OnTop(f) = Append(b, f)
  BY DEF OnTop, b
<1> QED
  BY <1>1, <1>2, <1>3

\* The dialog on top goes on.
LEMMA GoesOn ==
  ASSUME StackInv, NEW f \in FrameSet, f.dlg = Top.dlg, f.task = Top.task,
         stack' = OnTop(f)
  PROVE  StackInv'
<1>1. /\ stack' \in Seq(FrameSet) /\ Len(stack') = Len(stack) /\ Len(stack) \in Nat \ {0}
      /\ stack'[Len(stack)] = f
      /\ \A j \in 1..(Len(stack) - 1) : stack'[j] = stack[j]
  BY OnTopIs, Stack
<1>2. f.dlg = stack[Len(stack)].dlg /\ f.task = stack[Len(stack)].task
  BY DEF Top
<1>3. stack' # <<>>
  BY <1>1, EmptySeq
<1>4. \A j \in 1..Len(stack) : stack'[j].dlg = stack[j].dlg /\ stack'[j].task = stack[j].task
  BY <1>1, <1>2
<1>5. stack'[1].dlg = "main"
  BY <1>1, <1>4 DEF StackInv
<1>6. ASSUME NEW j \in 1..Len(stack'), stack'[j].dlg = "error"
      PROVE  j > 1 /\ stack'[j].task \in Task /\ stack'[j].task = stack'[j - 1].at
  <2>1. j \in 1..Len(stack) /\ stack[j].dlg = "error"
    BY <1>1, <1>4, <1>6
  <2>2. j > 1 /\ stack[j].task \in Task /\ stack[j].task = stack[j - 1].at
    BY <2>1 DEF StackInv
  <2>3. stack'[j - 1] = stack[j - 1]
    BY <1>1, <2>1, <2>2
  <2> QED
    BY <1>4, <2>1, <2>2, <2>3
<1> QED
  BY <1>1, <1>3, <1>5, <1>6 DEF StackInv

\* A dialog is opened on the stack s.
LEMMA Opens ==
  ASSUME StackInv, NEW s \in Seq(FrameSet), Len(s) = Len(stack),
         NEW f \in FrameSet, f.dlg = Top.dlg, f.task = Top.task, s[Len(stack)] = f,
         \A j \in 1..(Len(stack) - 1) : s[j] = stack[j],
         NEW g \in FrameSet, g.dlg = "error" => g.task \in Task /\ g.task = f.at,
         stack' = Append(s, g)
  PROVE  StackInv'
<1>1. /\ stack' \in Seq(FrameSet) /\ stack' # <<>>
      /\ Len(stack') = Len(stack) + 1 /\ Len(stack) \in Nat \ {0}
      /\ stack'[Len(stack) + 1] = g
      /\ \A j \in 1..Len(stack) : stack'[j] = s[j]
  BY Stack, AppendProperties
<1>2. f.dlg = stack[Len(stack)].dlg /\ f.task = stack[Len(stack)].task
  BY DEF Top
<1>3. \A j \in 1..Len(stack) : stack'[j].dlg = stack[j].dlg /\ stack'[j].task = stack[j].task
  BY <1>1, <1>2
<1>4. stack'[1].dlg = "main"
  BY <1>1, <1>3 DEF StackInv
<1>5. ASSUME NEW j \in 1..Len(stack'), stack'[j].dlg = "error"
      PROVE  j > 1 /\ stack'[j].task \in Task /\ stack'[j].task = stack'[j - 1].at
  <2>1. CASE j = Len(stack) + 1
    <3>1. stack'[j - 1] = f
      BY <1>1, <2>1
    <3> QED
      BY <1>1, <1>5, <2>1, <3>1
  <2>2. CASE j # Len(stack) + 1
    <3>1. j \in 1..Len(stack) /\ stack[j].dlg = "error"
      BY <1>1, <1>3, <1>5, <2>2
    <3>2. j > 1 /\ stack[j].task \in Task /\ stack[j].task = stack[j - 1].at
      BY <3>1 DEF StackInv
    <3>3. stack'[j - 1] = stack[j - 1]
      BY <1>1, <3>1, <3>2
    <3> QED
      BY <1>3, <3>1, <3>2, <3>3
  <2> QED
    BY <2>1, <2>2
<1> QED
  BY <1>1, <1>4, <1>5 DEF StackInv

\* The dialog on top, which is not the panels' own loop, is closed.
LEMMA Closes ==
  ASSUME StackInv, Top.dlg # "main", stack' = Below
  PROVE  StackInv' /\ Len(stack) > 1
<1>1. /\ stack' \in Seq(FrameSet) /\ Len(stack') = Len(stack) - 1 /\ Len(stack) \in Nat \ {0}
      /\ \A j \in 1..(Len(stack) - 1) : stack'[j] = stack[j]
  BY Stack
<1>2. Len(stack) > 1
  BY <1>1 DEF StackInv, Top
<1>3. stack' # <<>>
  BY <1>1, <1>2, EmptySeq
<1>4. stack'[1].dlg = "main"
  BY <1>1, <1>2 DEF StackInv
<1>5. ASSUME NEW j \in 1..Len(stack'), stack'[j].dlg = "error"
      PROVE  j > 1 /\ stack'[j].task \in Task /\ stack'[j].task = stack'[j - 1].at
  <2>1. j \in 1..(Len(stack) - 1) /\ stack[j].dlg = "error"
    BY <1>1, <1>5
  <2>2. j > 1 /\ stack[j].task \in Task /\ stack[j].task = stack[j - 1].at
    BY <1>1, <2>1 DEF StackInv
  <2> QED
    BY <1>1, <2>1, <2>2
<1> QED
  BY <1>1, <1>2, <1>3, <1>4, <1>5 DEF StackInv

LEMMA StackSame == ASSUME StackInv, UNCHANGED stack PROVE StackInv'
  BY DEF StackInv

\* The loop on top goes to another mode, at some node.
LEMMA StepStack ==
  ASSUME StackInv, NEW mode \in Modes, NEW t \in Task \cup {Nil}, Step(mode, t),
         mode \in {"read", "return"} => t \in Task
  PROVE  StackInv'
<1> DEFINE f == [Top EXCEPT !.mode = mode, !.at = t]
<1>1. Top \in FrameSet
  BY Stack
<1>2. f \in FrameSet /\ f.dlg = Top.dlg /\ f.task = Top.task
  BY <1>1 DEF FrameSet
<1>3. stack' = OnTop(f)
  BY DEF Step
<1> HIDE DEF f
<1> QED
  BY <1>2, <1>3, GoesOn

\* A handler opens a dialog for the job t, at which the loop stands.
LEMMA PushStack ==
  ASSUME StackInv, NEW t \in Task, Top.at = t, NEW d \in {"error", "alert"},
         Push(Dialog(d, t, {}))
  PROVE  StackInv'
<1> DEFINE f == [Top EXCEPT !.mode = "return"]
           g == Dialog(d, t, {})
           s == OnTop(f)
<1>1. Top \in FrameSet
  BY Stack
<1>2. f \in FrameSet /\ f.dlg = Top.dlg /\ f.task = Top.task /\ f.at = t
  BY <1>1 DEF FrameSet, Modes
<1>3. g \in FrameSet /\ g.dlg = d /\ g.task = t
  BY DialogIn DEF AnyDialog
<1>4. /\ s \in Seq(FrameSet) /\ Len(s) = Len(stack) /\ s[Len(stack)] = f
      /\ \A j \in 1..(Len(stack) - 1) : s[j] = stack[j]
  <2> HIDE DEF f
  <2> QED
    BY <1>2, OnTopIs
<1>5. stack' = Append(s, g)
  BY DEF Push
<1> HIDE DEF f, g, s
<1> QED
  BY <1>2, <1>3, <1>4, <1>5, Opens

---------------------------------------------------------------------------
(* The types: one lemma per action *)

LEMMA TypesSame ==
  /\ ListType /\ UNCHANGED listVars => ListType'
  /\ PipeType /\ UNCHANGED pipeVars => PipeType'
  /\ ChildType /\ UNCHANGED childVars => ChildType'
  /\ UserType /\ UNCHANGED <<given, reported, harm>> => UserType'
  BY DEF ListType, PipeType, ChildType, UserType, listVars, pipeVars, childVars

LEMMA AskType == ASSUME TInv, NEW t \in Task, NEW k \in Kinds, Ask(t, k) PROVE TInv'
<1> USE DEF TInv
<1>1. StackInv' /\ ListType' /\ UserType' /\ two_way' \in Pipes
  BY StackSame, TypesSame DEF Ask
<1>2. ChildType'
  BY DEF Ask, ChildType, Life
<1>3. PipeType'
  <2>1. two_way \in BOOLEAN /\ MaxAsks \in Nat \ {0}
    BY BackgroundAssumption DEF BackgroundAssumption
  <2>2. asked[t] \in 0..MaxAsks /\ asked[t] < IF two_way THEN MaxAsks ELSE 1
    BY DEF Ask, PipeType
  <2>3. asked[t] + 1 \in 0..MaxAsks
    BY <2>1, <2>2
  <2>4. asked' \in [Task -> 0..MaxAsks]
    BY <2>3 DEF Ask, PipeType
  <2>5. request' \in [Task -> Seq(Kinds)]
    BY AppendProperties DEF Ask, PipeType
  <2>6. got' \in [Task -> Seq(Answer \cup {"cont", "retry", "abort"})]
    <3> DEFINE A == Answer \cup {"cont", "retry", "abort"}
    <3>1. Unanswered(k) \in A /\ got \in [Task -> Seq(A)]
      BY DEF Unanswered, PipeType
    <3> HIDE DEF A
    <3>2. Append(got[t], Unanswered(k)) \in Seq(A)
      BY <3>1, AppendProperties
    <3>3. got' = [got EXCEPT ![t] = Append(@, Unanswered(k))] \/ got' = got
      BY DEF Ask
    <3>4. got' \in [Task -> Seq(A)]
      BY <3>1, <3>2, <3>3
    <3> QED
      BY <3>4 DEF A
  <2> QED
    BY <2>4, <2>5, <2>6 DEF PipeType, Ask
<1> QED
  BY <1>1, <1>2, <1>3

LEMMA GetAnswerType == ASSUME TInv, NEW t \in Task, GetAnswer(t) PROVE TInv'
<1> USE DEF TInv
<1>1. StackInv' /\ ListType' /\ UserType' /\ two_way' \in Pipes
  BY StackSame, TypesSame DEF GetAnswer
<1>2. ChildType'
  BY DEF GetAnswer, ChildType, Life
<1>3. PipeType'
  <2>1. Head(reply[t]) \in Answer \cup {"cont"} /\ Tail(reply[t]) \in Seq(Answer \cup {"cont"})
    BY HeadTailProperties DEF GetAnswer, PipeType
  <2>2. Append(got[t], Head(reply[t])) \in Seq(Answer \cup {"cont", "retry", "abort"})
    BY <2>1, AppendProperties DEF PipeType
  <2> QED
    BY <2>1, <2>2 DEF PipeType, GetAnswer
<1> QED
  BY <1>1, <1>2, <1>3

LEMMA EndType == ASSUME TInv, NEW t \in Task, Finish(t) \/ Die(t) PROVE TInv'
<1> USE DEF TInv
<1>1. StackInv' /\ ListType' /\ UserType' /\ PipeType' /\ two_way' \in Pipes
  BY StackSame, TypesSame DEF Finish, Die
<1>2. ChildType'
  BY DEF Finish, Die, ChildType, Life
<1> QED
  BY <1>1, <1>2

LEMMA do_backgroundType == ASSUME TInv, NEW t \in Task, do_background(t) PROVE TInv'
<1> USE DEF TInv
<1>1. StackInv' /\ UserType' /\ PipeType' /\ two_way' \in Pipes
  BY StackSame, TypesSame DEF do_background
<1>2. ChildType'
  BY DEF do_background, ChildType, Life
<1>3. ListType'
  <2>1. Cardinality({u \in Task : child[u] # "unborn"}) \in 0..Cardinality(Task)
    <3> DEFINE T == {u \in Task : child[u] # "unborn"}
    <3>1. IsFiniteSet(Task) /\ T \subseteq Task
      BY BackgroundAssumption DEF BackgroundAssumption
    <3> HIDE DEF T
    <3>2. IsFiniteSet(T) /\ Cardinality(T) <= Cardinality(Task)
      BY <3>1, FS_Subset
    <3>3. Cardinality(T) \in Nat /\ Cardinality(Task) \in Nat
      BY <3>1, <3>2, FS_CardinalityType
    <3>4. Cardinality(T) \in 0..Cardinality(Task)
      BY <3>2, <3>3
    <3> QED
      BY <3>4 DEF T
  <2>2. Cardinality(Task) \in Nat
    BY BackgroundAssumption, FS_CardinalityType DEF BackgroundAssumption
  <2>3. 1 + Cardinality({u \in Task : child[u] # "unborn"}) \in Births
    <3> DEFINE c == Cardinality({u \in Task : child[u] # "unborn"})
               n == Cardinality(Task)
    <3>1. c \in 0..n /\ n \in Nat
      BY <2>1, <2>2
    <3> HIDE DEF c, n
    <3>2. 1 + c \in 0..(1 + n)
      BY <3>1
    <3> QED
      BY <3>2 DEF c, n, Births
  <2> QED
    BY <2>3 DEF do_background, ListType
<1> QED
  BY <1>1, <1>2, <1>3

LEMMA SelectType == ASSUME TInv, Select PROVE TInv'
<1> USE DEF TInv
<1>1. ListType' /\ PipeType' /\ ChildType' /\ UserType' /\ two_way' \in Pipes
  BY TypesSame DEF Select
<1>2. StackInv'
  <2> DEFINE f == [Top EXCEPT !.ready = {t \in select_list : Readable(t)},
                              !.at = Youngest(select_list), !.mode = "walk"]
  <2>1. Top \in FrameSet /\ select_list \subseteq Task
    BY Stack DEF ListType
  <2>2. Youngest(select_list) \in Task \cup {Nil}
    BY <2>1, YoungestIn
  <2>3. f \in FrameSet /\ f.dlg = Top.dlg /\ f.task = Top.task
    BY <2>1, <2>2 DEF FrameSet, Modes
  <2>4. stack' = OnTop(f)
    BY DEF Select
  <2> HIDE DEF f
  <2> QED
    BY <2>3, <2>4, GoesOn
<1> QED
  BY <1>1, <1>2

LEMMA VisitType == ASSUME TInv, Visit PROVE TInv'
<1> USE DEF TInv
<1>1. ListType' /\ PipeType' /\ ChildType' /\ UserType' /\ two_way' \in Pipes
  BY TypesSame DEF Visit
<1>2. Top \in FrameSet
  BY Stack
<1>3. CASE Top.at = Nil
  <2> DEFINE f == Dialog(Top.dlg, Top.task, Top.items)
  <2>1. f \in FrameSet /\ f.dlg = Top.dlg /\ f.task = Top.task
    BY <1>2, DialogIn DEF FrameSet
  <2>2. stack' = OnTop(f)
    BY <1>3 DEF Visit
  <2> HIDE DEF f
  <2> QED
    BY <1>1, <2>1, <2>2, GoesOn
<1>4. CASE Top.at # Nil
  <2>1. Top.at \in Task
    BY <1>2, <1>4 DEF FrameSet
  <2>2. Step("read", Top.at) \/ Step("return", Top.at)
    BY <1>4 DEF Visit
  <2> QED
    BY <1>1, <2>1, <2>2, StepStack DEF Modes
<1> QED
  BY <1>3, <1>4

LEMMA GoOnType == ASSUME TInv, GoOn PROVE TInv'
<1> USE DEF TInv
<1>1. ListType' /\ PipeType' /\ ChildType' /\ UserType' /\ two_way' \in Pipes
  BY TypesSame DEF GoOn
<1>2. Top \in FrameSet /\ Top.at \in Task
  BY Stack DEF GoOn, At, FrameSet
<1>3. PICK t \in NextNodes(Top.at) : Step("walk", t)
  BY DEF GoOn
<1>4. Top.at # Nil
  BY <1>2, BackgroundAssumption DEF BackgroundAssumption
<1>5. t \in Task \cup {Nil}
  BY <1>2, <1>3, <1>4, NextNodesIn
<1> QED
  BY <1>1, <1>3, <1>5, StepStack DEF Modes

\* A handler has opened a dialog for t or is on its way back.
Handled(t) ==
  Step("return", t) \/ Push(Dialog("error", t, {})) \/ Push(Dialog("alert", t, {}))

LEMMA HandledStack ==
  ASSUME StackInv, NEW t \in Task, Reads(t), Handled(t)
  PROVE  StackInv'
<1>1. Top.at = t
  BY DEF Reads
<1> QED
  BY <1>1, StepStack, PushStack DEF Handled, Modes

LEMMA TakeErrorType == ASSUME TInv, NEW t \in Task, TakeError(t) PROVE TInv'
<1> USE DEF TInv
<1>1. ListType' /\ ChildType' /\ UserType' /\ two_way' \in Pipes
  BY TypesSame DEF TakeError
<1>2. StackInv'
  BY HandledStack DEF TakeError, Handled
<1>3. PipeType'
  <2>1. Tail(request[t]) \in Seq(Kinds)
    BY HeadTailProperties DEF TakeError, PipeType
  <2> QED
    BY <2>1 DEF TakeError, PipeType
<1> QED
  BY <1>1, <1>2, <1>3

LEMMA TakeReplaceType == ASSUME TInv, NEW t \in Task, TakeReplace(t) PROVE TInv'
<1> USE DEF TInv
<1>1. ChildType' /\ two_way' \in Pipes
  BY TypesSame DEF TakeReplace
<1>2. StackInv'
  BY HandledStack DEF TakeReplace, Handled
<1>3. ListType' /\ UserType'
  BY DEF TakeReplace, ListType, UserType
<1>4. PipeType'
  <2>1. Tail(request[t]) \in Seq(Kinds)
    BY HeadTailProperties DEF TakeReplace, PipeType
  <2>2. Append(reply[t], "cont") \in Seq(Answer \cup {"cont"})
    BY AppendProperties DEF PipeType
  <2> QED
    BY <2>1, <2>2 DEF TakeReplace, PipeType
<1> QED
  BY <1>1, <1>2, <1>3, <1>4

LEMMA unregisterType ==
  ASSUME ListType, NEW t \in Task, unregister_task_running(t), UNCHANGED <<born, lost>>
  PROVE  ListType'
<1>1. After(t) \in Task \cup {Nil}
  BY AfterIn
<1> QED
  BY <1>1 DEF unregister_task_running, ListType

LEMMA EofType ==
  ASSUME TInv, NEW t \in Task, EofRunning(t) \/ EofReaped(t) \/ EofNoChild(t)
  PROVE  TInv'
<1> USE DEF TInv
<1>1. PipeType' /\ two_way' \in Pipes
  BY TypesSame DEF EofRunning, EofReaped, EofNoChild
<1>2. StackInv'
  <2>1. Reads(t) /\ Handled(t)
    BY DEF EofRunning, EofReaped, EofNoChild, Eof, Handled
  <2> QED
    BY <2>1, HandledStack
<1>3. ListType'
  BY unregisterType DEF EofRunning, EofReaped, EofNoChild
<1>4. ChildType'
  BY DEF EofRunning, EofReaped, EofNoChild, Killed, Denoted, ChildType, childVars, Life
<1>5. UserType'
  BY DEF EofRunning, EofReaped, EofNoChild, UserType
<1> QED
  BY <1>1, <1>2, <1>3, <1>4, <1>5

\* The answer to a question goes where it came from.
LEMMA ReplyToIs ==
  ASSUME StackInv, Top.dlg = "error"
  PROVE  ReplyTo \in Task /\ ReplyTo = Top.task
<1>1. Len(stack) \in Nat \ {0}
  BY Stack
<1> QED
  BY <1>1 DEF StackInv, Top, ReplyTo

LEMMA AnswerErrorType == ASSUME TInv, NEW a \in Answer, AnswerError(a) PROVE TInv'
<1> USE DEF TInv
<1>1. ListType' /\ ChildType' /\ two_way' \in Pipes
  BY TypesSame DEF AnswerError
<1>2. Top.dlg = "error"
  BY DEF AnswerError, At
<1>3. StackInv'
  BY <1>2, Closes DEF AnswerError
<1>4. ReplyTo \in Task /\ ReplyTo = Top.task
  BY <1>2, ReplyToIs
<1>5. UserType'
  <2>1. Append(given[Top.task], a) \in Seq(Answer)
    BY <1>4, AppendProperties DEF UserType
  <2> QED
    BY <1>4, <2>1 DEF AnswerError, UserType
<1>6. PipeType'
  <2>1. Append(reply[ReplyTo], a) \in Seq(Answer \cup {"cont"})
    BY <1>4, AppendProperties DEF PipeType
  <2> QED
    BY <1>4, <2>1 DEF AnswerError, PipeType
<1> QED
  BY <1>1, <1>3, <1>5, <1>6

LEMMA DismissType == ASSUME TInv, Dismiss PROVE TInv'
<1> USE DEF TInv
<1>1. ListType' /\ PipeType' /\ ChildType' /\ UserType' /\ two_way' \in Pipes
  BY TypesSame DEF Dismiss
<1>2. Top.dlg # "main"
  BY DEF Dismiss, At
<1> QED
  BY <1>1, <1>2, Closes DEF Dismiss

LEMMA jobs_cmdType == ASSUME TInv, jobs_cmd PROVE TInv'
<1> USE DEF TInv
<1>1. ListType' /\ PipeType' /\ ChildType' /\ UserType' /\ two_way' \in Pipes
  BY TypesSame DEF jobs_cmd
<1>2. StackInv'
  <2> DEFINE g == Dialog("jobs", Nil, task_list)
             f == Top
  <2>1. g \in FrameSet /\ g.dlg = "jobs"
    BY DialogIn DEF AnyDialog, ListType
  <2>2. f \in FrameSet /\ stack \in Seq(FrameSet) /\ stack[Len(stack)] = f
    BY Stack DEF Top, StackInv
  <2>3. stack' = Append(stack, g)
    BY DEF jobs_cmd
  <2> HIDE DEF g
  <2> QED
    BY <2>1, <2>2, <2>3, Opens
<1> QED
  BY <1>1, <1>2

LEMMA task_cbType ==
  ASSUME TInv, NEW t \in Task, NEW sig \in {"STOP", "RESUME", "KILL"}, task_cb(t, sig)
  PROVE  TInv'
<1> USE DEF TInv
<1>1. ListType' /\ PipeType' /\ two_way' \in Pipes
  BY TypesSame DEF task_cb
<1>2. ChildType'
  BY DEF task_cb, Killed, Running, ChildType, childVars, Life
<1>3. UserType'
  BY DEF task_cb, UserType
<1>4. StackInv'
  <2> DEFINE f == [Top EXCEPT !.items = task_list]
  <2>1. Top \in FrameSet
    BY Stack
  <2>2. f \in FrameSet /\ f.dlg = Top.dlg /\ f.task = Top.task
    BY <2>1 DEF FrameSet, ListType
  <2>3. stack' = OnTop(f)
    BY DEF task_cb
  <2> HIDE DEF f
  <2> QED
    BY <2>2, <2>3, GoesOn
<1> QED
  BY <1>1, <1>2, <1>3, <1>4

LEMMA StutterType == ASSUME TInv, UNCHANGED vars PROVE TInv'
  BY StackSame, TypesSame DEF TInv, vars

LEMMA InitType == ASSUME Init PROVE TInv
<1> USE DEF Init
<1>1. Cardinality(Task) \in Nat
  BY BackgroundAssumption, FS_CardinalityType DEF BackgroundAssumption
<1>2. ListType
  <2>1. 0 \in Births
    <3> DEFINE n == Cardinality(Task)
    <3>1. n \in Nat
      BY <1>1
    <3> HIDE DEF n
    <3>2. 0 \in 0..(1 + n)
      BY <3>1
    <3> QED
      BY <3>2 DEF n, Births
  <2> QED
    BY <2>1 DEF ListType
<1>3. PipeType /\ ChildType /\ UserType
  BY EmptySeq, BackgroundAssumption DEF PipeType, ChildType, UserType, Life, BackgroundAssumption
<1>4. StackInv
  <2> DEFINE d == Dialog("main", Nil, {})
  <2>1. d \in FrameSet /\ d.dlg = "main"
    BY DialogIn DEF AnyDialog
  <2>2. stack = <<d>>
    OBVIOUS
  <2> HIDE DEF d
  <2>3. stack \in Seq(FrameSet) /\ Len(stack) = 1 /\ stack[1] = d /\ stack # <<>>
    BY <2>1, <2>2
  <2> QED
    BY <2>1, <2>3 DEF StackInv
<1> QED
  BY <1>2, <1>3, <1>4 DEF TInv

LEMMA NextType == ASSUME TInv, [Next]_vars PROVE TInv'
<1>1. ASSUME NEW t \in Task, Child(t) \/ do_background(t) PROVE TInv'
  BY <1>1, AskType, GetAnswerType, EndType, do_backgroundType DEF Child
<1>2. ASSUME EventLoop PROVE TInv'
  BY <1>2, SelectType, VisitType, GoOnType, TakeErrorType, TakeReplaceType, EofType
     DEF EventLoop, background_attention
<1>3. ASSUME User \/ jobs_cmd PROVE TInv'
  BY <1>3, AnswerErrorType, DismissType, jobs_cmdType DEF User
<1>4. ASSUME NEW t \in Task, NEW sig \in {"STOP", "RESUME", "KILL"}, task_cb(t, sig) PROVE TInv'
  BY <1>4, task_cbType
<1>5. ASSUME UNCHANGED vars PROVE TInv'
  BY <1>5, StutterType
<1> QED
  BY <1>1, <1>2, <1>3, <1>4, <1>5 DEF Next

LEMMA TypesHold == Spec => []TInv
<1>1. Init => TInv
  BY InitType
<1>2. TInv /\ [Next]_vars => TInv'
  BY NextType
<1> QED
  BY <1>1, <1>2, PTL DEF Spec

\* The variables keep their types, for any number of jobs, questions and dialogs.
THEOREM TypeCorrect == Spec => []TypeOK
<1>1. TInv => TypeOK
  <2> SUFFICES ASSUME TInv PROVE TypeOK
    OBVIOUS
  <2>1. two_way \in BOOLEAN
    BY BackgroundAssumption DEF TInv, BackgroundAssumption
  <2>2. born \in [Task -> Nat]
    <3>1. Cardinality(Task) \in Nat
      BY BackgroundAssumption, FS_CardinalityType DEF BackgroundAssumption
    <3>2. Births \subseteq Nat
      BY <3>1 DEF Births
    <3> QED
      BY <3>2 DEF TInv, ListType
  <2>3. Len(stack) > 0 /\ \A j \in 1..Len(stack) : stack[j] \in FrameSet
    BY Stack DEF TInv
  <2>4. \A j \in 1..Len(stack) :
          /\ stack[j].dlg \in AnyDialog /\ stack[j].mode \in {"idle", "walk", "read", "return"}
          /\ stack[j].at \in Task \cup {Nil} /\ stack[j].task \in Task \cup {Nil}
          /\ stack[j].ready \subseteq Task /\ stack[j].items \subseteq Task
    BY <2>3 DEF FrameSet, Modes
  <2>5. \A t \in Task : request[t] \in Seq({"error", "replace"})
    BY SeqMonotonic, BackgroundAssumption DEF BackgroundAssumption, TInv, PipeType
  <2> QED
    BY <2>1, <2>2, <2>3, <2>4, <2>5
       DEF TypeOK, TInv, StackInv, ListType, PipeType, ChildType, UserType
<1> QED
  BY <1>1, TypesHold, PTL

---------------------------------------------------------------------------
(* Jobs that run are listed and watched: only the end of a job takes it    *)
(* from the lists.                                                         *)

\* No list has changed and no job has begun to run.
LEMMA ListedSame ==
  ASSUME RunningIsListed, UNCHANGED <<task_list, select_list>>, Running' \subseteq Running
  PROVE  RunningIsListed'
  BY DEF RunningIsListed

LEMMA KilledRuns ==
  ASSUME NEW ts, Killed(ts)
  PROVE  Running' \subseteq Running
  BY DEF Killed, Running

\* Leaving the list, a job takes only itself along.
LEMMA UnlistedEnded ==
  ASSUME RunningIsListed, NEW t \in Task, Ended(t), unregister_task_running(t),
         Running' \subseteq Running
  PROVE  RunningIsListed'
<1>1. t \notin Running
  BY DEF Ended, Running
<1>2. Running \subseteq task_list' \cap select_list'
  BY <1>1 DEF unregister_task_running, RunningIsListed
<1> QED
  BY <1>2 DEF RunningIsListed

LEMMA ListedChild ==
  ASSUME TInv, RunningIsListed, NEW t \in Task, Child(t) \/ do_background(t)
  PROVE  RunningIsListed'
<1>0. child \in [Task -> Life]
  BY DEF TInv, ChildType
<1>1. ASSUME NEW k \in Kinds, Ask(t, k) PROVE RunningIsListed'
  BY <1>0, <1>1, ListedSame DEF Ask, listVars, Running
<1>2. CASE GetAnswer(t)
  BY <1>0, <1>2, ListedSame DEF GetAnswer, listVars, Running
<1>3. CASE Finish(t) \/ Die(t)
  BY <1>0, <1>3, ListedSame DEF Finish, Die, listVars, Running
<1>4. CASE do_background(t)
  BY <1>0, <1>4 DEF do_background, Running, RunningIsListed
<1> QED
  BY <1>1, <1>2, <1>3, <1>4 DEF Child

LEMMA ListedEof ==
  ASSUME TInv, RunningIsListed, NEW t \in Task, EofRunning(t) \/ EofReaped(t) \/ EofNoChild(t)
  PROVE  RunningIsListed'
<1>0. child \in [Task -> Life]
  BY DEF TInv, ChildType
<1>1. Ended(t) /\ unregister_task_running(t)
  BY DEF EofRunning, EofReaped, EofNoChild, Eof
<1>2. Running' \subseteq Running
  BY <1>0, KilledRuns DEF EofRunning, EofReaped, EofNoChild, Running, childVars
<1> QED
  BY <1>1, <1>2, UnlistedEnded

LEMMA ListedLoop ==
  ASSUME TInv, RunningIsListed, EventLoop \/ User \/ jobs_cmd
  PROVE  RunningIsListed'
<1>1. CASE Select \/ Visit \/ GoOn \/ jobs_cmd \/ User
  BY <1>1, ListedSame
     DEF Select, Visit, GoOn, jobs_cmd, User, AnswerError, Dismiss, listVars, childVars, Running
<1>2. ASSUME NEW t \in Task, TakeError(t) \/ TakeReplace(t) PROVE RunningIsListed'
  BY <1>2, ListedSame DEF TakeError, TakeReplace, listVars, childVars, Running
<1> QED
  BY <1>1, <1>2, ListedEof DEF EventLoop, background_attention

LEMMA ListedSignal ==
  ASSUME TInv, RunningIsListed, NEW t \in Task, NEW sig \in {"STOP", "RESUME", "KILL"},
         task_cb(t, sig)
  PROVE  RunningIsListed'
<1>1. Running' \subseteq Running
  BY KilledRuns DEF task_cb, childVars, Running
<1> QED
  BY <1>1, ListedSame DEF task_cb, listVars

\* A child that runs is in the jobs dialog and its channel is watched, however
\* many jobs there are and however the dialogs nest.
THEOREM JobsAreListed == Spec => []RunningIsListed
<1>1. Init => RunningIsListed
  BY DEF Init, RunningIsListed, Running
<1>2. TInv /\ RunningIsListed /\ [Next]_vars => RunningIsListed'
  <2> SUFFICES ASSUME TInv, RunningIsListed, [Next]_vars PROVE RunningIsListed'
    OBVIOUS
  <2>1. ASSUME UNCHANGED vars PROVE RunningIsListed'
    BY <2>1, ListedSame DEF vars, listVars, childVars, Running
  <2> QED
    BY <2>1, ListedChild, ListedLoop, ListedSignal DEF Next
<1> QED
  BY <1>1, <1>2, TypesHold, PTL DEF Spec

---------------------------------------------------------------------------
(* Deaths are reported, while no child asks about replacing a file: such a *)
(* request overwrites the pid the parent would wait for.                   *)

\* The pids are right; a job whose status was read has left the list; and only
\* one that has ended was killed.
DeathInv ==
  /\ lost = {}
  /\ \A t \in Task : child[t] = "reaped" => t \notin select_list
  /\ \A t \in Task : fate[t] = "killed" => Ended(t)
  /\ RunningIsListed /\ DeathReported

LEMMA DeathSame ==
  ASSUME DeathInv, UNCHANGED <<lost, select_list, task_list, child, fate, reported>>
  PROVE  DeathInv'
  BY DEF DeathInv, RunningIsListed, Running, Ended, DeathReported

LEMMA NoReplace ==
  ASSUME Kinds \subseteq {"error"}, TInv, NEW t \in Task
  PROVE  ~ TakeReplace(t)
<1> SUFFICES ASSUME request[t] # <<>> PROVE Head(request[t]) \in Kinds
  BY DEF TakeReplace
<1> QED
  BY HeadTailProperties DEF TInv, PipeType

LEMMA DeathChild ==
  ASSUME TInv, DeathInv, NEW t \in Task, Child(t) \/ do_background(t)
  PROVE  DeathInv'
<1>0. child \in [Task -> Life]
  BY DEF TInv, ChildType
<1>1. RunningIsListed'
  BY ListedChild DEF DeathInv
<1> USE <1>0, <1>1 DEF DeathInv, DeathReported, Ended
<1>2. ASSUME NEW k \in Kinds, Ask(t, k) PROVE DeathInv'
  BY <1>2 DEF Ask, listVars
<1>3. CASE GetAnswer(t)
  BY <1>3 DEF GetAnswer, listVars
<1>4. CASE Finish(t) \/ Die(t)
  BY <1>4 DEF Finish, Die, listVars
<1>5. CASE do_background(t)
  BY <1>5 DEF do_background
<1> QED
  BY <1>2, <1>3, <1>4, <1>5 DEF Child

\* With the pids right, the status read at the end of a channel is the job's own.
LEMMA DeathEof ==
  ASSUME TInv, DeathInv, NEW t \in Task, EofRunning(t) \/ EofReaped(t) \/ EofNoChild(t)
  PROVE  DeathInv'
<1>0. child \in [Task -> Life] /\ fate \in [Task -> {"ok", "killed"}]
  BY DEF TInv, ChildType
<1>1. RunningIsListed'
  BY ListedEof DEF DeathInv
<1>2. Ended(t) /\ select_list' = select_list \ {t} /\ lost' = {}
  BY DEF EofRunning, EofReaped, EofNoChild, Eof, unregister_task_running, DeathInv
<1>3. Denoted(t) \subseteq {t} /\ (child[t] \notin {"unborn", "reaped"} => t \in Denoted(t))
  BY DEF Denoted, DeathInv
<1>4. CASE EofRunning(t)
  <2>1. child' = child /\ fate' = fate
    BY <1>0, <1>2, <1>3, <1>4 DEF EofRunning, Killed, Running, Ended
  <2>2. reported' = reported \cup {t}
    BY <1>4 DEF EofRunning
  <2> QED
    BY <1>1, <1>2, <2>1, <2>2 DEF DeathInv, DeathReported, Ended
<1>5. CASE EofReaped(t)
  <2>1. child' = [child EXCEPT ![t] = "reaped"] /\ fate' = fate
    BY <1>3, <1>5 DEF EofReaped
  <2>2. reported' = IF fate[t] = "killed" THEN reported \cup {t} ELSE reported
    BY <1>3, <1>5 DEF EofReaped, Died
  <2> QED
    BY <1>0, <1>1, <1>2, <2>1, <2>2 DEF DeathInv, DeathReported, Ended
<1>6. CASE EofNoChild(t)
  <2>1. child[t] = "reaped"
    BY <1>2, <1>3, <1>6 DEF EofNoChild, Ended
  <2>2. child' = child /\ fate' = fate /\ reported \subseteq reported'
    BY <1>6 DEF EofNoChild, childVars
  <2> QED
    BY <1>1, <1>2, <2>1, <2>2 DEF DeathInv, DeathReported, Ended
<1> QED
  BY <1>4, <1>5, <1>6

LEMMA DeathLoop ==
  ASSUME Kinds \subseteq {"error"}, TInv, DeathInv, EventLoop \/ User \/ jobs_cmd
  PROVE  DeathInv'
<1>1. CASE Select \/ Visit \/ GoOn \/ jobs_cmd \/ User
  BY <1>1, DeathSame
     DEF Select, Visit, GoOn, jobs_cmd, User, AnswerError, Dismiss, listVars, childVars
<1>2. ASSUME NEW t \in Task, TakeError(t) PROVE DeathInv'
  BY <1>2, DeathSame DEF TakeError, listVars, childVars
<1> QED
  BY <1>1, <1>2, DeathEof, NoReplace DEF EventLoop, background_attention

LEMMA DeathSignal ==
  ASSUME TInv, DeathInv, NEW t \in Task, NEW sig \in {"STOP", "RESUME", "KILL"},
         task_cb(t, sig)
  PROVE  DeathInv'
<1>0. child \in [Task -> Life] /\ fate \in [Task -> {"ok", "killed"}]
  BY DEF TInv, ChildType
<1>1. RunningIsListed'
  BY ListedSignal DEF DeathInv
<1>2. UNCHANGED <<lost, select_list, reported>>
  BY DEF task_cb, listVars
<1>3. (child' = child /\ fate' = fate) \/ Killed({t})
  BY DEF task_cb, childVars
<1>4. Running \subseteq select_list
  BY DEF DeathInv, RunningIsListed
<1>5. \A u \in Task : fate'[u] = "killed" =>
        \/ fate[u] = "killed" /\ child'[u] = child[u]
        \/ u \in Running /\ child'[u] = "exiting"
  BY <1>0, <1>3 DEF Killed, DeathInv, Running, Ended
<1>6. \A u \in Task : child'[u] = "reaped" => child[u] = "reaped"
  BY <1>3 DEF Killed
<1> QED
  BY <1>1, <1>2, <1>4, <1>5, <1>6 DEF DeathInv, DeathReported, Ended

\* A child that was killed is not forgotten silently, for any number of jobs,
\* as long as none asks whether to replace a file.
THEOREM DeathsAreReported ==
  ASSUME Kinds \subseteq {"error"}
  PROVE  Spec => []DeathReported
<1>1. Init => DeathInv
  BY DEF Init, DeathInv, DeathReported, RunningIsListed, Running, Ended
<1>2. TInv /\ DeathInv /\ [Next]_vars => DeathInv'
  <2> SUFFICES ASSUME TInv, DeathInv, [Next]_vars PROVE DeathInv'
    OBVIOUS
  <2>1. ASSUME UNCHANGED vars PROVE DeathInv'
    BY <2>1, DeathSame DEF vars, listVars, childVars
  <2> QED
    BY <2>1, DeathChild, DeathLoop, DeathSignal DEF Next
<1>3. DeathInv => DeathReported
  BY DEF DeathInv
<1> QED
  BY <1>1, <1>2, <1>3, TypesHold, PTL DEF Spec

---------------------------------------------------------------------------
(* Answers go back to the job that asked, on pipes that carry data both    *)
(* ways and while the questions are the ones a dialog shows.               *)

AnswerInv == two_way /\ AnswersGoBack

LEMMA AnswerSame ==
  ASSUME AnswerInv, UNCHANGED <<two_way, reply, got, given>>, harm \subseteq harm'
  PROVE  AnswerInv'
  BY DEF AnswerInv, AnswersGoBack, Up

LEMMA AnswerChild ==
  ASSUME TInv, AnswerInv, NEW t \in Task, Child(t) \/ do_background(t)
  PROVE  AnswerInv'
<1>1. ASSUME NEW k \in Kinds, Ask(t, k) PROVE AnswerInv'
  BY <1>1, AnswerSame DEF Ask, AnswerInv
<1>2. CASE Finish(t) \/ Die(t) \/ do_background(t)
  BY <1>2, AnswerSame DEF Finish, Die, do_background, pipeVars
<1>3. CASE GetAnswer(t)
  <2> DEFINE A == Answer \cup {"cont", "retry", "abort"}
             r == reply[t]
             g == got[t]
  <2>1. r \in Seq(A) /\ r # <<>> /\ g \in Seq(A)
    BY <1>3, SeqMonotonic DEF TInv, PipeType, GetAnswer
  <2>2. got' = [got EXCEPT ![t] = Append(g, Head(r))] /\ reply' = [reply EXCEPT ![t] = Tail(r)]
    BY <1>3 DEF GetAnswer
  <2>3. Append(g, Head(r)) \o Tail(r) = g \o r
    <3> HIDE DEF A, r, g
    <3> QED
      BY <2>1
  <2>4. got'[t] = Append(g, Head(r)) /\ reply'[t] = Tail(r)
    BY <2>2 DEF TInv, PipeType
  <2>5. \A u \in Task \ {t} : got'[u] = got[u] /\ reply'[u] = reply[u]
    BY <2>2 DEF TInv, PipeType
  <2>6. \A u \in Task : got'[u] \o reply'[u] = got[u] \o reply[u]
    <3> HIDE DEF A
    <3> QED
      BY <2>3, <2>4, <2>5
  <2> QED
    BY <1>3, <2>6 DEF GetAnswer, AnswerInv, AnswersGoBack, Up
<1> QED
  BY <1>1, <1>2, <1>3 DEF Child

\* The dialog that closes is that of the job the loop below has come to.
LEMMA AnswerUser ==
  ASSUME TInv, AnswerInv, NEW a \in Answer, AnswerError(a)
  PROVE  AnswerInv'
<1> SUFFICES ASSUME Up' PROVE AnswersGoBack'
  BY DEF AnswerInv, AnswersGoBack, AnswerError
<1> DEFINE t == Top.task
           A == Answer \cup {"cont", "retry", "abort"}
<1>1. ReplyTo = t /\ t \in Task /\ two_way
  BY ReplyToIs DEF TInv, AnswerError, At, AnswerInv
<1>2. Up /\ given' = [given EXCEPT ![t] = Append(@, a)] /\ got' = got
  BY DEF AnswerError, At
<1>3. ~ Ended(ReplyTo)
  <2> SUFFICES ASSUME Ended(ReplyTo) PROVE ~ Up'
    OBVIOUS
  <2>1. harm' = harm \cup {"pipe"}
    BY <1>1 DEF AnswerError
  <2> QED
    BY <2>1 DEF Up
<1>4. reply' = [reply EXCEPT ![t] = Append(@, a)]
  <2> HIDE DEF t
  <2> QED
    BY <1>1, <1>3 DEF AnswerError
<1> HIDE DEF t
<1>5. /\ given'[t] = Append(given[t], a) /\ reply'[t] = Append(reply[t], a)
      /\ \A u \in Task \ {t} : given'[u] = given[u] /\ reply'[u] = reply[u]
  BY <1>1, <1>2, <1>4 DEF TInv, PipeType, UserType
<1>6. got[t] \o Append(reply[t], a) = Append(got[t] \o reply[t], a)
  <2> DEFINE g == got[t]
             r == reply[t]
  <2>1. g \in Seq(A) /\ r \in Seq(A) /\ a \in A
    BY <1>1, SeqMonotonic DEF TInv, PipeType
  <2> HIDE DEF A, g, r
  <2>2. g \o Append(r, a) = Append(g \o r, a)
    BY <2>1
  <2> QED
    BY <2>2 DEF g, r
<1>7. \A u \in Task : got[u] \o reply[u] = given[u]
  BY <1>2 DEF AnswerInv, AnswersGoBack
<1>8. \A u \in Task : got[u] \o reply'[u] = given'[u]
  BY <1>1, <1>5, <1>6, <1>7
<1> QED
  BY <1>2, <1>8 DEF AnswersGoBack

LEMMA AnswerLoop ==
  ASSUME Kinds \subseteq {"error"}, TInv, AnswerInv, EventLoop \/ User \/ jobs_cmd
  PROVE  AnswerInv'
<1>1. CASE Select \/ Visit \/ GoOn \/ jobs_cmd \/ Dismiss
  BY <1>1, AnswerSame DEF Select, Visit, GoOn, jobs_cmd, Dismiss, pipeVars
<1>2. ASSUME NEW t \in Task, TakeError(t) PROVE AnswerInv'
  BY <1>2, AnswerSame DEF TakeError
<1>3. ASSUME NEW t \in Task, EofRunning(t) \/ EofReaped(t) \/ EofNoChild(t) PROVE AnswerInv'
  BY <1>3, AnswerSame DEF EofRunning, EofReaped, EofNoChild, pipeVars
<1> QED
  BY <1>1, <1>2, <1>3, AnswerUser, NoReplace DEF EventLoop, background_attention, User

LEMMA AnswerSignal ==
  ASSUME AnswerInv, NEW t \in Task, NEW sig \in {"STOP", "RESUME", "KILL"}, task_cb(t, sig)
  PROVE  AnswerInv'
  BY AnswerSame DEF task_cb, pipeVars

\* A child acts upon the user's answers to its own questions, in their order,
\* whatever dialogs are nested: for any number of jobs, on two-way pipes, as
\* long as none asks whether to replace a file.
THEOREM AnswersReturn ==
  ASSUME Kinds \subseteq {"error"}, Pipes = {TRUE}
  PROVE  Spec => []AnswersGoBack
<1>1. Init => AnswerInv
  <2> SUFFICES ASSUME Init PROVE AnswerInv
    OBVIOUS
  <2>1. two_way
    BY DEF Init
  <2>2. \A t \in Task : got[t] \o reply[t] = given[t]
    <3>1. <<>> \o <<>> = <<>>
      OBVIOUS
    <3> QED
      BY <3>1 DEF Init
  <2> QED
    BY <2>1, <2>2 DEF AnswerInv, AnswersGoBack
<1>2. TInv /\ AnswerInv /\ [Next]_vars => AnswerInv'
  <2> SUFFICES ASSUME TInv, AnswerInv, [Next]_vars PROVE AnswerInv'
    OBVIOUS
  <2>1. ASSUME UNCHANGED vars PROVE AnswerInv'
    BY <2>1, AnswerSame DEF vars, pipeVars
  <2> QED
    BY <2>1, AnswerChild, AnswerLoop, AnswerSignal DEF Next
<1>3. AnswerInv => AnswersGoBack
  BY DEF AnswerInv
<1> QED
  BY <1>1, <1>2, <1>3, TypesHold, PTL DEF Spec

---------------------------------------------------------------------------
(* No question is dropped or read twice, on pipes that carry data both     *)
(* ways, whatever the children ask.                                        *)

Shown(t) == {i \in 1..Len(stack) : stack[i].dlg = "error" /\ stack[i].task = t}
InAccount(t) == asked[t] = Len(request[t]) + Cardinality(Shown(t)) + Len(reply[t]) + Len(got[t])

\* The questions of a child are somewhere, and only one that waits has asked
\* more than it was answered.
QuestionInv ==
  /\ two_way
  /\ Up => \A t \in Task :
       /\ InAccount(t)
       /\ child[t] \in {"unborn", "working"} => asked[t] = Len(got[t])
       /\ child[t] = "waiting" => asked[t] = Len(got[t]) + 1

LEMMA ShownCount ==
  ASSUME StackInv, NEW t
  PROVE  IsFiniteSet(Shown(t)) /\ Cardinality(Shown(t)) \in Nat
<1>1. IsFiniteSet(1..Len(stack))
  BY Stack, FS_Interval
<1>2. IsFiniteSet(Shown(t))
  BY <1>1, FS_Subset DEF Shown
<1> QED
  BY <1>2, FS_CardinalityType

\* The dialogs stay, whatever their loops do.
LEMMA ShownSame ==
  ASSUME Len(stack') = Len(stack),
         \A i \in 1..Len(stack) : stack'[i].dlg = stack[i].dlg /\ stack'[i].task = stack[i].task
  PROVE  \A t : Shown(t)' = Shown(t)
  BY DEF Shown

LEMMA OnTopShown ==
  ASSUME StackInv, NEW f \in FrameSet, f.dlg = Top.dlg, f.task = Top.task, stack' = OnTop(f)
  PROVE  \A t : Shown(t)' = Shown(t)
<1>1. /\ Len(stack') = Len(stack) /\ Len(stack) \in Nat \ {0}
      /\ stack'[Len(stack)] = f
      /\ \A j \in 1..(Len(stack) - 1) : stack'[j] = stack[j]
  BY OnTopIs, Stack
<1>2. \A i \in 1..Len(stack) : stack'[i].dlg = stack[i].dlg /\ stack'[i].task = stack[i].task
  BY <1>1 DEF Top
<1> QED
  BY <1>1, <1>2, ShownSame

LEMMA StepShown ==
  ASSUME StackInv, NEW mode \in Modes, NEW u \in Task \cup {Nil}, Step(mode, u),
         mode \in {"read", "return"} => u \in Task
  PROVE  \A t : Shown(t)' = Shown(t)
<1> DEFINE f == [Top EXCEPT !.mode = mode, !.at = u]
<1>1. Top \in FrameSet
  BY Stack
<1>2. f \in FrameSet /\ f.dlg = Top.dlg /\ f.task = Top.task
  BY <1>1 DEF FrameSet
<1>3. stack' = OnTop(f)
  BY DEF Step
<1> HIDE DEF f
<1> QED
  BY <1>2, <1>3, OnTopShown

\* A dialog is opened on the others.
LEMMA OpensShown ==
  ASSUME StackInv, NEW s \in Seq(FrameSet), Len(s) = Len(stack),
         \A i \in 1..Len(stack) : s[i].dlg = stack[i].dlg /\ s[i].task = stack[i].task,
         NEW g \in FrameSet, stack' = Append(s, g), NEW t
  PROVE  Shown(t)' = IF g.dlg = "error" /\ g.task = t THEN Shown(t) \cup {Len(stack) + 1} ELSE Shown(t)
<1>1. /\ Len(stack') = Len(stack) + 1 /\ Len(stack) \in Nat
      /\ stack'[Len(stack) + 1] = g
      /\ \A j \in 1..Len(stack) : stack'[j] = s[j]
  BY Stack, AppendProperties
<1>2. \A j \in 1..Len(stack) : stack'[j].dlg = stack[j].dlg /\ stack'[j].task = stack[j].task
  BY <1>1
<1>3. \A i : i \in 1..Len(stack') <=> i \in 1..Len(stack) \/ i = Len(stack) + 1
  BY <1>1
<1>4. Len(stack) + 1 \notin 1..Len(stack)
  BY <1>1
<1>5. \A i : i \in Shown(t)' <=> i \in 1..Len(stack') /\ stack'[i].dlg = "error" /\ stack'[i].task = t
  BY DEF Shown
<1>6. \A i : i \in Shown(t) <=> i \in 1..Len(stack) /\ stack[i].dlg = "error" /\ stack[i].task = t
  BY DEF Shown
<1>7. \A i : i \in Shown(t)' <=>
        i \in IF g.dlg = "error" /\ g.task = t THEN Shown(t) \cup {Len(stack) + 1} ELSE Shown(t)
  BY <1>1, <1>2, <1>3, <1>4, <1>5, <1>6
<1> QED
  BY <1>7

LEMMA PushShown ==
  ASSUME StackInv, NEW u \in Task, Top.at = u, NEW d \in {"error", "alert"},
         Push(Dialog(d, u, {}))
  PROVE  \A t : Shown(t)' = IF d = "error" /\ u = t THEN Shown(t) \cup {Len(stack) + 1} ELSE Shown(t)
<1> DEFINE f == [Top EXCEPT !.mode = "return"]
           g == Dialog(d, u, {})
           s == OnTop(f)
<1>1. Top \in FrameSet /\ Len(stack) \in Nat \ {0}
  BY Stack
<1>2. f \in FrameSet /\ f.dlg = Top.dlg /\ f.task = Top.task
  BY <1>1 DEF FrameSet, Modes
<1>3. g \in FrameSet /\ g.dlg = d /\ g.task = u
  BY DialogIn DEF AnyDialog
<1>4. /\ s \in Seq(FrameSet) /\ Len(s) = Len(stack) /\ s[Len(stack)] = f
      /\ \A j \in 1..(Len(stack) - 1) : s[j] = stack[j]
  <2> HIDE DEF f
  <2> QED
    BY <1>2, OnTopIs
<1>5. stack' = Append(s, g)
  BY DEF Push
<1> HIDE DEF f, g, s
<1>6. \A i \in 1..Len(stack) : s[i].dlg = stack[i].dlg /\ s[i].task = stack[i].task
  BY <1>1, <1>2, <1>4 DEF Top
<1>7. ASSUME NEW t
      PROVE  Shown(t)' = IF d = "error" /\ u = t THEN Shown(t) \cup {Len(stack) + 1} ELSE Shown(t)
  BY <1>3, <1>4, <1>5, <1>6, OpensShown
<1> QED
  BY <1>7

\* The dialog on top is closed.
LEMMA ClosesShown ==
  ASSUME StackInv, stack' = Below, NEW t
  PROVE  /\ Shown(t)' = Shown(t) \ {Len(stack)}
         /\ Len(stack) \in Shown(t) <=> (Top.dlg = "error" /\ Top.task = t)
<1>1. /\ Len(stack') = Len(stack) - 1 /\ Len(stack) \in Nat \ {0}
      /\ \A j \in 1..(Len(stack) - 1) : stack'[j] = stack[j]
  BY Stack
<1>2. \A i : i \in 1..Len(stack') <=> i \in 1..Len(stack) /\ i # Len(stack)
  BY <1>1
<1>3. \A i : i \in 1..Len(stack') => stack'[i] = stack[i]
  BY <1>1
<1>4. \A i : i \in Shown(t)' <=> i \in Shown(t) /\ i # Len(stack)
  BY <1>2, <1>3 DEF Shown
<1>5. Len(stack) \in Shown(t) <=> (Top.dlg = "error" /\ Top.task = t)
  BY <1>1 DEF Shown, Top
<1> QED
  BY <1>4, <1>5

\* A change in the life of a child that does not touch its questions.
GoesWith(life, next) ==
  next = life \/ next \in {"exiting", "zombie", "reaped"} \/ (life = "unborn" /\ next = "working")

LEMMA QuestionSame ==
  ASSUME QuestionInv, UNCHANGED <<two_way, request, reply, asked, got>>, harm \subseteq harm',
         \A t \in Task : Shown(t)' = Shown(t),
         \A t \in Task : GoesWith(child[t], child'[t])
  PROVE  QuestionInv'
<1>1. two_way' /\ (Up' => Up)
  BY DEF QuestionInv, Up
<1> SUFFICES ASSUME Up', NEW t \in Task
             PROVE  /\ InAccount(t)'
                    /\ child'[t] \in {"unborn", "working"} => asked'[t] = Len(got'[t])
                    /\ child'[t] = "waiting" => asked'[t] = Len(got'[t]) + 1
  BY <1>1 DEF QuestionInv
<1>2. /\ InAccount(t)
      /\ child[t] \in {"unborn", "working"} => asked[t] = Len(got[t])
      /\ child[t] = "waiting" => asked[t] = Len(got[t]) + 1
  BY <1>1 DEF QuestionInv
<1>3. InAccount(t)'
  BY <1>2 DEF InAccount
<1>4. GoesWith(child[t], child'[t])
  OBVIOUS
<1> QED
  BY <1>2, <1>3, <1>4 DEF GoesWith

\* A step that concerns one child only, which keeps the dialogs or adds one or takes one away.
LEMMA QuestionOne ==
  ASSUME QuestionInv, NEW t \in Task, two_way' = two_way, harm' = harm,
         \A u \in Task \ {t} : /\ Shown(u)' = Shown(u) /\ child'[u] = child[u]
                               /\ request'[u] = request[u] /\ reply'[u] = reply[u]
                               /\ asked'[u] = asked[u] /\ got'[u] = got[u],
         Up => /\ InAccount(t)'
               /\ child'[t] \in {"unborn", "working"} => asked'[t] = Len(got'[t])
               /\ child'[t] = "waiting" => asked'[t] = Len(got'[t]) + 1
  PROVE  QuestionInv'
<1>1. two_way' /\ (Up' => Up)
  BY DEF QuestionInv, Up
<1> SUFFICES ASSUME Up', NEW u \in Task
             PROVE  /\ InAccount(u)'
                    /\ child'[u] \in {"unborn", "working"} => asked'[u] = Len(got'[u])
                    /\ child'[u] = "waiting" => asked'[u] = Len(got'[u]) + 1
  BY <1>1 DEF QuestionInv
<1>2. CASE u = t
  BY <1>1, <1>2
<1>3. CASE u # t
  <2>1. /\ InAccount(u)
        /\ child[u] \in {"unborn", "working"} => asked[u] = Len(got[u])
        /\ child[u] = "waiting" => asked[u] = Len(got[u]) + 1
    BY <1>1 DEF QuestionInv
  <2>2. /\ Shown(u)' = Shown(u) /\ child'[u] = child[u]
        /\ request'[u] = request[u] /\ reply'[u] = reply[u]
        /\ asked'[u] = asked[u] /\ got'[u] = got[u]
    BY <1>3
  <2>3. InAccount(u)'
    BY <2>1, <2>2 DEF InAccount
  <2> QED
    BY <2>1, <2>2, <2>3
<1> QED
  BY <1>2, <1>3

\* The numbers that are added up.
LEMMA Numbers ==
  ASSUME TInv, NEW t \in Task
  PROVE  /\ asked[t] \in Nat /\ Len(request[t]) \in Nat /\ Len(reply[t]) \in Nat
         /\ Len(got[t]) \in Nat /\ Cardinality(Shown(t)) \in Nat
<1>1. Cardinality(Shown(t)) \in Nat
  BY ShownCount DEF TInv
<1>2. asked[t] \in 0..MaxAsks /\ MaxAsks \in Nat
  BY BackgroundAssumption DEF TInv, PipeType, BackgroundAssumption
<1>3. request[t] \in Seq(Kinds) /\ reply[t] \in Seq(Answer \cup {"cont"})
      /\ got[t] \in Seq(Answer \cup {"cont", "retry", "abort"})
  BY DEF TInv, PipeType
<1>4. Len(request[t]) \in Nat /\ Len(reply[t]) \in Nat
  BY <1>3, LenProperties
<1>5. Len(got[t]) \in Nat
  BY <1>3, LenProperties
<1> QED
  BY <1>1, <1>2, <1>4, <1>5

\* The terms of an account that is settled.
LEMMA Settled ==
  ASSUME TInv, NEW t \in Task, InAccount(t),
         NEW x \in {0, 1}, NEW i \in {-1, 0, 1}, NEW j \in {-1, 0, 1}, NEW k \in {-1, 0, 1},
         NEW l \in {0, 1}, x = i + j + k + l,
         asked'[t] = asked[t] + x, Len(request'[t]) = Len(request[t]) + i,
         Cardinality(Shown(t)') = Cardinality(Shown(t)) + j,
         Len(reply'[t]) = Len(reply[t]) + k, Len(got'[t]) = Len(got[t]) + l
  PROVE  InAccount(t)'
<1>0. PICK n \in Nat, a \in Nat, b \in Nat, c \in Nat, d \in Nat :
        /\ n = asked[t] /\ a = Len(request[t]) /\ b = Cardinality(Shown(t))
        /\ c = Len(reply[t]) /\ d = Len(got[t])
  BY Numbers
<1>1. n = a + b + c + d
  BY <1>0 DEF InAccount
<1>2. asked'[t] = n + x /\ Len(request'[t]) = a + i
  BY <1>0
<1>3. Cardinality(Shown(t)') = b + j
  BY <1>0
<1>4. Len(reply'[t]) = c + k /\ Len(got'[t]) = d + l
  BY <1>0
<1>5. n + x = (a + i) + (b + j) + (c + k) + (d + l)
  BY <1>1
<1>6. asked'[t] = Len(request'[t]) + Cardinality(Shown(t)') + Len(reply'[t]) + Len(got'[t])
  BY <1>2, <1>3, <1>4, <1>5
<1> QED
  BY <1>6 DEF InAccount

LEMMA QuestionChild ==
  ASSUME TInv, QuestionInv, NEW t \in Task, Child(t) \/ do_background(t)
  PROVE  QuestionInv'
<1>0. /\ child \in [Task -> Life] /\ request \in [Task -> Seq(Kinds)]
      /\ reply \in [Task -> Seq(Answer \cup {"cont"})] /\ asked \in [Task -> 0..MaxAsks]
      /\ got \in [Task -> Seq(Answer \cup {"cont", "retry", "abort"})]
  BY DEF TInv, ChildType, PipeType
<1>s. UNCHANGED stack => \A u : Shown(u)' = Shown(u)
  BY DEF Shown
<1>n. /\ asked[t] \in Nat /\ Len(request[t]) \in Nat /\ Len(reply[t]) \in Nat
      /\ Len(got[t]) \in Nat /\ Cardinality(Shown(t)) \in Nat
  BY Numbers
<1>1. ASSUME NEW k \in Kinds, Ask(t, k) PROVE QuestionInv'
  <2>1. two_way
    BY DEF QuestionInv
  <2>2. /\ child[t] = "working" /\ child' = [child EXCEPT ![t] = "waiting"]
        /\ asked' = [asked EXCEPT ![t] = @ + 1]
        /\ request' = [request EXCEPT ![t] = Append(@, k)]
        /\ UNCHANGED <<two_way, harm, stack, reply, got>>
    BY <1>1, <2>1 DEF Ask
  <2>3. \A u : Shown(u)' = Shown(u)
    BY <1>s, <2>2
  <2>4. Len(Append(request[t], k)) = Len(request[t]) + 1
    BY <1>0, AppendProperties
  <2>5. child'[t] = "waiting" /\ asked'[t] = asked[t] + 1 /\ request'[t] = Append(request[t], k)
    BY <1>0, <2>2
  <2>6. /\ Cardinality(Shown(t))' = Cardinality(Shown(t))
        /\ reply'[t] = reply[t] /\ got'[t] = got[t]
    BY <2>2, <2>3
  <2>7. Up => InAccount(t) /\ asked[t] = Len(got[t])
    BY <2>2 DEF QuestionInv
  <2>8. InAccount(t) => InAccount(t)'
    <3>1. Len(request'[t]) = Len(request[t]) + 1 /\ asked'[t] = asked[t] + 1
      BY <2>4, <2>5
    <3>2. /\ Cardinality(Shown(t)') = Cardinality(Shown(t)) + 0
          /\ Len(reply'[t]) = Len(reply[t]) + 0 /\ Len(got'[t]) = Len(got[t]) + 0
      BY <1>n, <2>3, <2>6
    <3> QED
      BY <3>1, <3>2, Settled
  <2>9. Up => InAccount(t)' /\ asked'[t] = Len(got'[t]) + 1
    BY <2>5, <2>6, <2>7, <2>8
  <2>10. \A u \in Task \ {t} : /\ Shown(u)' = Shown(u) /\ child'[u] = child[u]
                               /\ request'[u] = request[u] /\ reply'[u] = reply[u]
                               /\ asked'[u] = asked[u] /\ got'[u] = got[u]
    BY <1>0, <2>2, <2>3
  <2> QED
    BY <2>2, <2>5, <2>9, <2>10, QuestionOne
<1>2. CASE Finish(t) \/ Die(t) \/ do_background(t)
  <2>1. \A u \in Task : GoesWith(child[u], child'[u])
    BY <1>0, <1>2 DEF Finish, Die, do_background, GoesWith
  <2>2. UNCHANGED <<two_way, request, reply, asked, got, harm, stack>>
    BY <1>2 DEF Finish, Die, do_background, pipeVars
  <2> QED
    BY <1>s, <2>1, <2>2, QuestionSame
<1>3. CASE GetAnswer(t)
  <2>1. /\ child[t] = "waiting" /\ child' = [child EXCEPT ![t] = "working"] /\ reply[t] # <<>>
        /\ got' = [got EXCEPT ![t] = Append(@, Head(reply[t]))]
        /\ reply' = [reply EXCEPT ![t] = Tail(@)]
        /\ UNCHANGED <<two_way, harm, stack, request, asked>>
    BY <1>3 DEF GetAnswer
  <2>2. \A u : Shown(u)' = Shown(u)
    BY <1>s, <2>1
  <2>3. Len(Tail(reply[t])) = Len(reply[t]) - 1 /\ Head(reply[t]) \in Answer \cup {"cont"}
    BY <1>0, <2>1, HeadTailProperties
  <2>4. Len(Append(got[t], Head(reply[t]))) = Len(got[t]) + 1
    <3> DEFINE A == Answer \cup {"cont", "retry", "abort"}
    <3>1. got[t] \in Seq(A) /\ Head(reply[t]) \in A
      BY <1>0, <2>3
    <3> HIDE DEF A
    <3> QED
      BY <3>1, AppendProperties
  <2>5. /\ child'[t] = "working" /\ got'[t] = Append(got[t], Head(reply[t]))
        /\ reply'[t] = Tail(reply[t])
    BY <1>0, <2>1
  <2>6. /\ Cardinality(Shown(t))' = Cardinality(Shown(t))
        /\ request'[t] = request[t] /\ asked'[t] = asked[t]
    BY <2>1, <2>2
  <2>7. Up => InAccount(t) /\ asked[t] = Len(got[t]) + 1
    BY <2>1 DEF QuestionInv
  <2>8. InAccount(t) => InAccount(t)'
    <3>1. Len(reply'[t]) = Len(reply[t]) + (-1) /\ Len(got'[t]) = Len(got[t]) + 1
      BY <1>n, <2>3, <2>4, <2>5
    <3>2. /\ Cardinality(Shown(t)') = Cardinality(Shown(t)) + 0
          /\ Len(request'[t]) = Len(request[t]) + 0 /\ asked'[t] = asked[t] + 0
      BY <1>n, <2>2, <2>6
    <3> QED
      BY <3>1, <3>2, Settled
  <2>9. Up => InAccount(t)' /\ asked'[t] = Len(got'[t])
    BY <1>n, <2>4, <2>5, <2>6, <2>7, <2>8
  <2>10. \A u \in Task \ {t} : /\ Shown(u)' = Shown(u) /\ child'[u] = child[u]
                               /\ request'[u] = request[u] /\ reply'[u] = reply[u]
                               /\ asked'[u] = asked[u] /\ got'[u] = got[u]
    BY <1>0, <2>1, <2>2
  <2> QED
    BY <2>1, <2>5, <2>9, <2>10, QuestionOne
<1> QED
  BY <1>1, <1>2, <1>3 DEF Child

\* A request is read, and its dialog opened.
LEMMA QuestionShown ==
  ASSUME TInv, QuestionInv, NEW t \in Task, TakeError(t)
  PROVE  QuestionInv'
<1>0. StackInv /\ request \in [Task -> Seq(Kinds)]
  BY DEF TInv, PipeType
<1>1. /\ request[t] # <<>> /\ request' = [request EXCEPT ![t] = Tail(@)] /\ Top.at = t
      /\ Push(Dialog("error", t, {}))
      /\ UNCHANGED <<two_way, harm, child, reply, asked, got>>
  BY DEF TakeError, Reads, childVars
<1>2. \A u : Shown(u)' = IF t = u THEN Shown(u) \cup {Len(stack) + 1} ELSE Shown(u)
  BY <1>0, <1>1, PushShown
<1>3. Len(stack) + 1 \notin Shown(t)
  BY <1>0, Stack DEF Shown
<1>4. Cardinality(Shown(t)') = Cardinality(Shown(t)) + 1
  BY <1>0, <1>2, <1>3, ShownCount, FS_AddElement
<1>5. Len(Tail(request[t])) = Len(request[t]) - 1 /\ request'[t] = Tail(request[t])
  BY <1>0, <1>1, HeadTailProperties
<1>6. \A u \in Task \ {t} : /\ Shown(u)' = Shown(u) /\ child'[u] = child[u]
                            /\ request'[u] = request[u] /\ reply'[u] = reply[u]
                            /\ asked'[u] = asked[u] /\ got'[u] = got[u]
  BY <1>0, <1>1, <1>2
<1>7. InAccount(t) => InAccount(t)'
  <2>1. Len(request'[t]) = Len(request[t]) + (-1)
    BY <1>5, Numbers
  <2>2. Len(reply'[t]) = Len(reply[t]) + 0 /\ Len(got'[t]) = Len(got[t]) + 0 /\ asked'[t] = asked[t] + 0
    BY <1>1, Numbers
  <2> QED
    BY <1>4, <2>1, <2>2, Settled
<1>8. Up => InAccount(t)
  BY DEF QuestionInv
<1>9. Up => /\ child[t] \in {"unborn", "working"} => asked[t] = Len(got[t])
            /\ child[t] = "waiting" => asked[t] = Len(got[t]) + 1
  BY DEF QuestionInv
<1> QED
  BY <1>1, <1>6, <1>7, <1>8, <1>9, QuestionOne

\* A request about replacing a file is read, and answered at once.
LEMMA QuestionReplaced ==
  ASSUME TInv, QuestionInv, NEW t \in Task, TakeReplace(t)
  PROVE  QuestionInv'
<1>0. /\ StackInv /\ request \in [Task -> Seq(Kinds)] /\ two_way
      /\ reply \in [Task -> Seq(Answer \cup {"cont"})]
  BY DEF TInv, PipeType, QuestionInv
<1>1. /\ request[t] # <<>> /\ request' = [request EXCEPT ![t] = Tail(@)]
      /\ Step("return", t)
      /\ UNCHANGED <<two_way, child, asked, got>>
  BY DEF TakeReplace, childVars
<1>2. CASE Ended(t)
  <2>1. harm' = harm \cup {"pipe"}
    BY <1>0, <1>2 DEF TakeReplace
  <2>2. ~ Up'
    BY <2>1 DEF Up
  <2> QED
    BY <1>0, <1>1, <2>2 DEF QuestionInv
<1>3. CASE ~ Ended(t)
  <2>1. harm' = harm /\ reply' = [reply EXCEPT ![t] = Append(@, "cont")]
    BY <1>0, <1>3 DEF TakeReplace
  <2>2. \A u : Shown(u)' = Shown(u)
    BY <1>0, <1>1, StepShown DEF Modes
  <2>3. Len(Tail(request[t])) = Len(request[t]) - 1 /\ request'[t] = Tail(request[t])
    BY <1>0, <1>1, HeadTailProperties
  <2>4. reply'[t] = Append(reply[t], "cont")
    BY <1>0, <2>1
  <2>5. Len(Append(reply[t], "cont")) = Len(reply[t]) + 1
    BY <1>0, AppendProperties
  <2>6. \A u \in Task \ {t} : /\ Shown(u)' = Shown(u) /\ child'[u] = child[u]
                              /\ request'[u] = request[u] /\ reply'[u] = reply[u]
                              /\ asked'[u] = asked[u] /\ got'[u] = got[u]
    BY <1>0, <1>1, <2>1, <2>2
  <2>7. InAccount(t) => InAccount(t)'
    <3>1. /\ Cardinality(Shown(t)') = Cardinality(Shown(t)) + 0
          /\ Len(got'[t]) = Len(got[t]) + 0 /\ asked'[t] = asked[t] + 0
      BY <1>1, <2>2, Numbers
    <3>2. Len(request'[t]) = Len(request[t]) + (-1) /\ Len(reply'[t]) = Len(reply[t]) + 1
      BY <2>3, <2>4, <2>5, Numbers
    <3> QED
      BY <3>1, <3>2, Settled
  <2>8. Up => InAccount(t)
    BY DEF QuestionInv
  <2>9. Up => /\ child[t] \in {"unborn", "working"} => asked[t] = Len(got[t])
              /\ child[t] = "waiting" => asked[t] = Len(got[t]) + 1
    BY DEF QuestionInv
  <2> QED
    BY <1>1, <2>1, <2>6, <2>7, <2>8, <2>9, QuestionOne
<1> QED
  BY <1>2, <1>3

\* The dialog that closes is one of the child that is answered.
LEMMA QuestionAnswered ==
  ASSUME TInv, QuestionInv, NEW a \in Answer, AnswerError(a)
  PROVE  QuestionInv'
<1> DEFINE t == Top.task
<1>0. /\ StackInv /\ two_way /\ reply \in [Task -> Seq(Answer \cup {"cont"})]
  BY DEF TInv, PipeType, QuestionInv
<1>1. /\ Top.dlg = "error" /\ stack' = Below
      /\ UNCHANGED <<two_way, child, request, asked, got>>
  BY DEF AnswerError, At, childVars
<1>2. ReplyTo = t /\ t \in Task
  BY <1>0, <1>1, ReplyToIs
<1>3. CASE Ended(ReplyTo)
  <2>1. harm' = harm \cup {"pipe"}
    BY <1>0, <1>3 DEF AnswerError
  <2>2. ~ Up'
    BY <2>1 DEF Up
  <2> QED
    BY <1>0, <1>1, <2>2 DEF QuestionInv
<1>4. CASE ~ Ended(ReplyTo)
  <2>1. harm' = harm /\ reply' = [reply EXCEPT ![ReplyTo] = Append(@, a)]
    BY <1>0, <1>4 DEF AnswerError
  <2> PICK u \in Task : u = t /\ ReplyTo = u
    BY <1>2
  <2> HIDE DEF t
  <2>2. \A v : /\ Shown(v)' = Shown(v) \ {Len(stack)}
               /\ Len(stack) \in Shown(v) <=> u = v
    BY <1>0, <1>1, ClosesShown DEF t
  <2>3. Cardinality(Shown(u)') = Cardinality(Shown(u)) - 1
    <3>1. Len(stack) \in Shown(u) /\ Shown(u)' = Shown(u) \ {Len(stack)}
      BY <2>2
    <3>2. IsFiniteSet(Shown(u))
      BY <1>0, ShownCount
    <3> DEFINE S == Shown(u)
               x == Len(stack)
    <3>3. x \in S /\ IsFiniteSet(S) /\ Shown(u)' = S \ {x}
      BY <3>1, <3>2
    <3> HIDE DEF S, x
    <3>4. Cardinality(S \ {x}) = Cardinality(S) - 1
      BY <3>3, FS_RemoveElement
    <3> QED
      BY <3>3, <3>4 DEF S
  <2>4. reply'[u] = Append(reply[u], a) /\ Len(Append(reply[u], a)) = Len(reply[u]) + 1
    <3> DEFINE A == Answer \cup {"cont"}
    <3>1. reply \in [Task -> Seq(A)] /\ a \in A
      BY <1>0
    <3> HIDE DEF A
    <3> QED
      BY <2>1, <3>1, AppendProperties
  <2>5. \A v \in Task \ {u} : /\ Shown(v)' = Shown(v) /\ child'[v] = child[v]
                              /\ request'[v] = request[v] /\ reply'[v] = reply[v]
                              /\ asked'[v] = asked[v] /\ got'[v] = got[v]
    <3> SUFFICES ASSUME NEW v \in Task \ {u}
                 PROVE  Shown(v)' = Shown(v) /\ reply'[v] = reply[v]
      BY <1>1
    <3>1. Shown(v)' = Shown(v)
      BY <2>2
    <3> QED
      BY <1>0, <2>1, <3>1
  <2>6. InAccount(u) => InAccount(u)'
    <3>1. Len(reply'[u]) = Len(reply[u]) + 1 /\ Cardinality(Shown(u)') = Cardinality(Shown(u)) + (-1)
      BY <2>3, <2>4, Numbers
    <3>2. Len(request'[u]) = Len(request[u]) + 0 /\ Len(got'[u]) = Len(got[u]) + 0 /\ asked'[u] = asked[u] + 0
      BY <1>1, Numbers
    <3> QED
      BY <3>1, <3>2, Settled
  <2>7. Up => InAccount(u)
    BY DEF QuestionInv
  <2>8. Up => /\ child[u] \in {"unborn", "working"} => asked[u] = Len(got[u])
              /\ child[u] = "waiting" => asked[u] = Len(got[u]) + 1
    BY DEF QuestionInv
  <2> QED
    BY <1>1, <2>1, <2>5, <2>6, <2>7, <2>8, QuestionOne
<1> QED
  BY <1>3, <1>4

\* The end of a channel, for which an alert may be shown.
LEMMA QuestionEof ==
  ASSUME TInv, QuestionInv, NEW t \in Task, EofRunning(t) \/ EofReaped(t) \/ EofNoChild(t)
  PROVE  QuestionInv'
<1>0. StackInv /\ child \in [Task -> Life] /\ Top.at = t
  BY DEF TInv, ChildType, EofRunning, EofReaped, EofNoChild, Eof, Reads
<1>1. Step("return", t) \/ Push(Dialog("alert", t, {}))
  BY DEF EofRunning, EofReaped, EofNoChild
<1>2. \A u : Shown(u)' = Shown(u)
  <2>1. CASE Step("return", t)
    BY <1>0, <2>1, StepShown DEF Modes
  <2>2. CASE Push(Dialog("alert", t, {}))
    <3>1. "alert" \in {"error", "alert"} /\ "alert" # "error"
      OBVIOUS
    <3> QED
      BY <1>0, <2>2, <3>1, PushShown
  <2> QED
    BY <1>1, <2>1, <2>2
<1>3. \A u \in Task : GoesWith(child[u], child'[u])
  BY <1>0 DEF EofRunning, EofReaped, EofNoChild, Killed, childVars, GoesWith
<1>4. UNCHANGED <<two_way, request, reply, asked, got>> /\ harm \subseteq harm'
  BY DEF EofRunning, EofReaped, EofNoChild, pipeVars
<1> QED
  BY <1>2, <1>3, <1>4, QuestionSame

LEMMA QuestionLoop ==
  ASSUME TInv, QuestionInv, Select \/ Visit \/ GoOn \/ Dismiss \/ jobs_cmd
  PROVE  QuestionInv'
<1>0. StackInv /\ ListType /\ Top \in FrameSet /\ Len(stack) \in Nat \ {0}
  BY Stack DEF TInv
<1>1. /\ UNCHANGED <<two_way, request, reply, asked, got>> /\ harm \subseteq harm'
      /\ \A t \in Task : GoesWith(child[t], child'[t])
  BY DEF Select, Visit, GoOn, Dismiss, jobs_cmd, pipeVars, childVars, GoesWith
<1>2. CASE Select
  <2> DEFINE f == [Top EXCEPT !.ready = {t \in select_list : Readable(t)},
                              !.at = Youngest(select_list), !.mode = "walk"]
  <2>1. Youngest(select_list) \in Task \cup {Nil} /\ select_list \subseteq Task
    BY <1>0, YoungestIn DEF ListType
  <2>2. f \in FrameSet /\ f.dlg = Top.dlg /\ f.task = Top.task
    BY <1>0, <2>1 DEF FrameSet, Modes
  <2>3. stack' = OnTop(f)
    BY <1>2 DEF Select
  <2> HIDE DEF f
  <2>4. \A t : Shown(t)' = Shown(t)
    BY <1>0, <2>2, <2>3, OnTopShown
  <2> QED
    BY <1>1, <2>4, QuestionSame
<1>3. CASE Visit
  <2>1. CASE Top.at = Nil
    <3> DEFINE f == Dialog(Top.dlg, Top.task, Top.items)
    <3>0. Top.dlg \in AnyDialog /\ Top.task \in Task \cup {Nil} /\ Top.items \in SUBSET Task
      BY <1>0 DEF FrameSet
    <3>1. f \in FrameSet /\ f.dlg = Top.dlg /\ f.task = Top.task
      BY <3>0, DialogIn
    <3>2. stack' = OnTop(f)
      BY <1>3, <2>1 DEF Visit
    <3> HIDE DEF f
    <3>3. \A t : Shown(t)' = Shown(t)
      BY <1>0, <3>1, <3>2, OnTopShown
    <3> QED
      BY <1>1, <3>3, QuestionSame
  <2>2. CASE Top.at # Nil
    <3>1. Top.at \in Task /\ (Step("read", Top.at) \/ Step("return", Top.at))
      BY <1>0, <1>3, <2>2 DEF Visit, FrameSet
    <3>2. \A t : Shown(t)' = Shown(t)
      BY <1>0, <3>1, StepShown DEF Modes
    <3> QED
      BY <1>1, <3>2, QuestionSame
  <2> QED
    BY <2>1, <2>2
<1>4. CASE GoOn
  <2>1. Top.at \in Task /\ Top.at # Nil
    BY <1>0, <1>4, BackgroundAssumption DEF GoOn, At, FrameSet, BackgroundAssumption
  <2>2. PICK u \in NextNodes(Top.at) : Step("walk", u)
    BY <1>4 DEF GoOn
  <2>3. u \in Task \cup {Nil}
    BY <1>0, <2>1, NextNodesIn
  <2>4. \A t : Shown(t)' = Shown(t)
    BY <1>0, <2>2, <2>3, StepShown DEF Modes
  <2> QED
    BY <1>1, <2>4, QuestionSame
<1>5. CASE Dismiss
  <2>1. Top.dlg # "error" /\ stack' = Below
    BY <1>5 DEF Dismiss, At
  <2>2. ASSUME NEW t PROVE Shown(t)' = Shown(t)
    BY <1>0, <2>1, ClosesShown
  <2> QED
    BY <1>1, <2>2, QuestionSame
<1>6. CASE jobs_cmd
  <2> DEFINE g == Dialog("jobs", Nil, task_list)
  <2>0. task_list \in SUBSET Task /\ Nil \in Task \cup {Nil} /\ "jobs" \in AnyDialog
    BY <1>0 DEF AnyDialog, ListType
  <2>1. g \in FrameSet /\ g.dlg = "jobs"
    BY <2>0, DialogIn
  <2>2. stack \in Seq(FrameSet) /\ stack' = Append(stack, g)
    BY <1>0, <1>6 DEF jobs_cmd, StackInv
  <2> HIDE DEF g
  <2>3. ASSUME NEW t PROVE Shown(t)' = Shown(t)
    BY <1>0, <2>1, <2>2, OpensShown
  <2> QED
    BY <1>1, <2>3, QuestionSame
<1> QED
  BY <1>2, <1>3, <1>4, <1>5, <1>6

LEMMA QuestionSignal ==
  ASSUME TInv, QuestionInv, NEW t \in Task, NEW sig \in {"STOP", "RESUME", "KILL"}, task_cb(t, sig)
  PROVE  QuestionInv'
<1> DEFINE f == [Top EXCEPT !.items = task_list]
<1>0. StackInv /\ ListType /\ Top \in FrameSet
  BY Stack DEF TInv
<1>1. f \in FrameSet /\ f.dlg = Top.dlg /\ f.task = Top.task
  BY <1>0 DEF FrameSet, ListType
<1>2. stack' = OnTop(f)
  BY DEF task_cb
<1> HIDE DEF f
<1>3. \A u : Shown(u)' = Shown(u)
  BY <1>0, <1>1, <1>2, OnTopShown
<1>4. \A u \in Task : GoesWith(child[u], child'[u])
  BY DEF task_cb, Killed, childVars, GoesWith
<1>5. UNCHANGED <<two_way, request, reply, asked, got>> /\ harm \subseteq harm'
  BY DEF task_cb, pipeVars
<1> QED
  BY <1>3, <1>4, <1>5, QuestionSame

\* Every question of a child is in its pipe, in one open dialog, answered or acted
\* upon, and a child waits exactly as long as one question of its own is open, for
\* any number of jobs, questions and nested dialogs, on two-way pipes.
THEOREM QuestionsAreAccounted ==
  ASSUME Pipes = {TRUE}
  PROVE  Spec => []QuestionsAccounted
<1>1. Init => QuestionInv
  <2> SUFFICES ASSUME Init PROVE QuestionInv
    OBVIOUS
  <2>1. two_way
    BY DEF Init
  <2> SUFFICES ASSUME NEW t \in Task PROVE InAccount(t) /\ asked[t] = Len(got[t]) /\ child[t] = "unborn"
    BY <2>1 DEF QuestionInv
  <2>2. asked[t] = 0 /\ request[t] = <<>> /\ reply[t] = <<>> /\ got[t] = <<>> /\ child[t] = "unborn"
    BY DEF Init
  <2>3. Shown(t) = {}
    <3>1. stack = <<Dialog("main", Nil, {})>>
      BY DEF Init
    <3>2. Len(stack) = 1 /\ stack[1].dlg = "main"
      BY <3>1 DEF Dialog
    <3> QED
      BY <3>2 DEF Shown
  <2>4. Len(<<>>) = 0 /\ Cardinality({}) = 0
    BY FS_EmptySet
  <2> QED
    BY <2>2, <2>3, <2>4 DEF InAccount
<1>2. TInv /\ QuestionInv /\ [Next]_vars => QuestionInv'
  <2> SUFFICES ASSUME TInv, QuestionInv, [Next]_vars PROVE QuestionInv'
    OBVIOUS
  <2>1. ASSUME UNCHANGED vars PROVE QuestionInv'
    <3>1. \A t : Shown(t)' = Shown(t)
      BY <2>1 DEF vars, Shown
    <3> QED
      BY <2>1, <3>1, QuestionSame DEF vars, pipeVars, childVars, GoesWith
  <2>2. CASE EventLoop \/ User \/ jobs_cmd
    BY <2>2, QuestionLoop, QuestionShown, QuestionReplaced, QuestionEof, QuestionAnswered
       DEF EventLoop, background_attention, User
  <2> QED
    BY <2>1, <2>2, QuestionChild, QuestionSignal DEF Next
<1>3. TInv /\ QuestionInv => QuestionsAccounted
  <2> SUFFICES ASSUME TInv, QuestionInv, Up, NEW t \in Task
               PROVE  /\ InAccount(t)
                      /\ t \in Running => (child[t] = "waiting" <=> asked[t] = Len(got[t]) + 1)
    BY DEF QuestionsAccounted, InAccount, Shown
  <2> QED
    BY Numbers DEF QuestionInv, Running
<1> QED
  BY <1>1, <1>2, <1>3, TypesHold, PTL DEF Spec
=============================================================================
