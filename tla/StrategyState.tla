------------------------------ MODULE StrategyState ------------------------------
(***************************************************************************)
(* The state a strategy keeps across restarts (kqsdk/state_store.py): a    *)
(* dictionary shared by the symbol threads of one strategy. Every change   *)
(* marks it dirty and is written at once, unless the last write is less    *)
(* than the debounce ago; LiveRunner loads it at start and saves it at the *)
(* end.                                                                    *)
(*                                                                         *)
(* Abstracted: the content is the number of the last change. The lock      *)
(* makes each of its sections one step; the step between two of them, the  *)
(* unlocked mark, is a step of its own. A tick of the clock is one         *)
(* debounce interval, much longer than a change takes.                     *)
(***************************************************************************)
EXTENDS Integers

CONSTANTS
  StateThreads,   \* the symbol threads of the strategy
  StateFaults,    \* which of "crash", "saveFails" may happen
  MaxChanges,     \* bound: changes made
  MaxRestarts     \* bound: ends of the process

ASSUME StateAssumption ==
  /\ MaxChanges \in Nat /\ MaxRestarts \in Nat
  /\ StateFaults \subseteq {"crash", "saveFails"}

VARIABLES
  running,     \* the process
  content,     \* the last change made
  saved,       \* the last change the database has
  setting,     \* per thread: how far it is with a change or a save
  dirty,       \* _dirty
  paused,      \* the last write is less than the debounce ago
  unsavedFor,  \* ticks that the oldest change not saved has waited, up to 2
  changes, restarts

stateVars == <<running, content, saved, setting, dirty, paused, unsavedFor,
               changes, restarts>>

StateTypeOK ==
  /\ running \in BOOLEAN
  /\ content \in 0 .. changes /\ saved \in 0 .. changes
  /\ setting \in [StateThreads -> {"no", "changed", "marked", "save"}]
  /\ dirty \in BOOLEAN /\ paused \in BOOLEAN
  /\ unsavedFor \in 0 .. 2
  /\ changes \in 0 .. MaxChanges /\ restarts \in 0 .. MaxRestarts

StateInit ==
  /\ running = TRUE
  /\ content = 0 /\ saved = 0
  /\ setting = [t \in StateThreads |-> "no"]
  /\ dirty = FALSE /\ paused = FALSE
  /\ unsavedFor = 0
  /\ changes = 0 /\ restarts = 0

-----------------------------------------------------------------------------
(* The threads.                                                            *)

\* The locked part of __setitem__, update, pop and the others.
Change(t) ==
  /\ running /\ setting[t] = "no" /\ changes < MaxChanges
  /\ changes' = changes + 1 /\ content' = changes'
  /\ setting' = [setting EXCEPT ![t] = "changed"]
  /\ UNCHANGED <<running, saved, dirty, paused, unsavedFor, restarts>>

\* _mark_dirty, without the lock.
MarkDirty(t) ==
  /\ setting[t] = "changed"
  /\ dirty' = TRUE
  /\ setting' = [setting EXCEPT ![t] = "marked"]
  /\ UNCHANGED <<running, content, saved, paused, unsavedFor, changes, restarts>>

\* Mutant: the mark is taken away although the write is put off.
FlushClearsMark(t) ==
  /\ setting[t] = "marked"
  /\ setting' = [setting EXCEPT ![t] = IF dirty /\ ~paused THEN "save" ELSE "no"]
  /\ dirty' = (dirty /\ ~paused)
  /\ UNCHANGED <<running, content, saved, paused, unsavedFor, changes, restarts>>

\* Clean or written a moment ago: the change waits for the next one.
FlushIfDirty(t) ==
  /\ setting[t] = "marked"
  /\ setting' = [setting EXCEPT ![t] = IF dirty /\ ~paused THEN "save" ELSE "no"]
  /\ UNCHANGED <<running, content, saved, dirty, paused, unsavedFor, changes,
                 restarts>>

\* save, also when the strategy calls it. The write is inside of the lock.
WriteState ==
  /\ saved' = content
  /\ dirty' = FALSE /\ paused' = TRUE /\ unsavedFor' = 0

Save(t) ==
  /\ setting[t] = "save" \/ (running /\ setting[t] = "no" /\ dirty)
  /\ setting' = [setting EXCEPT ![t] = "no"]
  /\ \/ dirty /\ WriteState
     \/ ~dirty /\ UNCHANGED <<saved, dirty, paused, unsavedFor>>
     \/ /\ dirty /\ "saveFails" \in StateFaults
        /\ UNCHANGED <<saved, dirty, paused, unsavedFor>>
  /\ UNCHANGED <<running, content, changes, restarts>>

-----------------------------------------------------------------------------
(* The process and the clock.                                              *)

\* A kill between any two steps.
Crash ==
  /\ "crash" \in StateFaults /\ running /\ restarts < MaxRestarts
  /\ running' = FALSE /\ restarts' = restarts + 1
  /\ setting' = [t \in StateThreads |-> "no"]
  /\ UNCHANGED <<content, saved, dirty, paused, unsavedFor, changes>>

\* _shutdown saves after the threads have ended.
ShutDown ==
  /\ running /\ restarts < MaxRestarts
  /\ \A t \in StateThreads : setting[t] = "no"
  /\ running' = FALSE /\ restarts' = restarts + 1
  /\ \/ dirty /\ WriteState
     \/ /\ dirty => "saveFails" \in StateFaults
        /\ UNCHANGED <<saved, dirty, paused, unsavedFor>>
  /\ UNCHANGED <<content, setting, changes>>

\* load: what was not saved is gone.
LoadState ==
  /\ ~running /\ running' = TRUE
  /\ content' = saved
  /\ dirty' = FALSE /\ paused' = FALSE /\ unsavedFor' = 0
  /\ UNCHANGED <<saved, setting, changes, restarts>>

\* The debounce interval passes while no thread is at a change.
DebouncePasses ==
  /\ running /\ \A t \in StateThreads : setting[t] = "no"
  /\ paused \/ (content # saved /\ unsavedFor < 2)
  /\ paused' = FALSE
  /\ unsavedFor' = IF content = saved THEN 0
                   ELSE IF unsavedFor < 2 THEN unsavedFor + 1 ELSE 2
  /\ UNCHANGED <<running, content, saved, setting, dirty, changes, restarts>>

StateNext ==
  \/ \E t \in StateThreads : Change(t) \/ MarkDirty(t) \/ FlushIfDirty(t) \/ Save(t)
  \/ Crash \/ ShutDown \/ LoadState \/ DebouncePasses

StateSpec == StateInit /\ [][StateNext]_stateVars

-----------------------------------------------------------------------------
(* Properties.                                                             *)

\* The mark is set outside of the lock, while another thread may be saving:
\* once no thread is between its change and its mark, a store that is not
\* dirty has nothing that the database lacks, so the save at the end of the
\* run, which skips a clean store, loses nothing.
CleanIsSaved ==
  (running /\ ~dirty /\ \A t \in StateThreads : setting[t] # "changed")
    => saved = content

\* What the store promises: a crash costs the changes of one debounce interval
\* at most. No run checks it, since the code does not keep it (README, section 5).
LossIsBounded == running => unsavedFor < 2
==============================================================================
