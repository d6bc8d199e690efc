--------------------------- MODULE ArchivePromise ---------------------------
(***************************************************************************)
(* What the cache of archives promises to the rest of the Commander: what  *)
(* is in use is in memory and stays there, and what is no longer used      *)
(* leaves it in the end.  An archive whose file was changed or removed     *)
(* behind the cache is spoilt, and nothing is promised of it.              *)
(***************************************************************************)
CONSTANT Archives

VARIABLES cached,    \* the archives in memory
          used,      \* the archives that must stay
          busy,      \* the archives that may stay
          spoilt     \* the archives nothing is promised of

vars == <<cached, used, busy, spoilt>>

Dropped == cached \ cached'

Init == /\ cached = {}
        /\ used = {}
        /\ busy = {}
        /\ spoilt \subseteq Archives

\* Something is looked at, entered, left, opened or closed: only what is
\* spoilt may have to leave the memory, and what comes into use is there.
Use == /\ Dropped \subseteq spoilt \cup spoilt'
       /\ used' \ used \subseteq cached' \cup spoilt'

\* Time passes, or memory is asked for: what is in use stays, unless it was
\* in use only by what goes.  Others may even be read again.
Discard == /\ used' \subseteq used
           /\ Dropped \cap used' \subseteq spoilt

\* Another program writes to the files.
Spoil == /\ UNCHANGED <<cached, used, busy>>
         /\ spoilt' \subseteq Archives

Next == Use \/ Discard \/ Spoil

\* An archive nobody is busy with does not stay for ever.
Discarded == \A a \in Archives :
               (a \in cached \ (busy \cup spoilt))
                 ~> (a \notin cached \/ a \in busy \cup spoilt)

Spec == Init /\ [][Next]_vars /\ Discarded
=============================================================================
