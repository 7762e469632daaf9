-------------------------- MODULE ThreadLifecycle --------------------------
(***************************************************************************)
(* The life of the threads of one process and of the references to them  *)
(* (src/kernel/ps/thread.c): creation by PsCreateThread/PspCreateThread,   *)
(* with its early and late failure paths; exit (PspThreadTermination);   *)
(* the scheduler's PsQueueThreadCleanup onto the dead-thread list; the    *)
(* reaper thread (PspReaperThread), which unlinks each dead thread from   *)
(* its process and drops the thread's own reference; lookups by ID        *)
(* (PspGetThreadById, as PsGetThreadInformation uses it); and             *)
(* PspDestroyThread, run by whoever drops the last reference, which       *)
(* tears the process down when its thread list is empty.                  *)
(*                                                                         *)
(* The object manager is not in the repository: ObReleaseReference is     *)
(* modelled as a decrement that makes the releasing actor run             *)
(* PspDestroyThread when it reaches zero, ObAddReference as an increment. *)
(* A thread's data (stacks, timers, signals, credentials) is left out;    *)
(* what is kept is its state, its reference count, its place on the      *)
(* process thread list and on the dead lists, and the process's count.    *)
(***************************************************************************)
EXTENDS Integers, Sequences, FiniteSets

CONSTANTS
    Initial,    \* the process's first thread, which creates the others
    Threads,    \* the threads it may create
    Lookers,    \* threads of other processes calling PsGetThreadInformation
    Reaper,     \* the reaper thread
    NoThread

AllThreads == {Initial} \cup Threads

\* Whoever can drop a reference and so run PspDestroyThread.
Actors == {Initial, Reaper} \cup Lookers

VARIABLES
    state,        \* Thread->State; "None" before creation, "Terminated"
                  \* from PspThreadTermination until the scheduler
                  \* switches the thread out and marks it Exited
    refs,         \* Thread->Header.ReferenceCount
    inList,       \* the threads on Process->ThreadListHead
    threadCount,  \* Process->ThreadCount
    creating,     \* the thread PsCreateThread has made and not yet readied
    creatorRefs,  \* the THREAD_FLAG_ADD_REFERENCE references the creator holds
    deadList,     \* PsDeadThreadsListHead, head first
    deadEvent,    \* PsDeadThreadsEvent
    reaperList,   \* the reaper's local ListHead
    reaperUnlinked, \* the reaper has unlinked the head of its list
    held,         \* the thread a looker has looked up and not released
    destroying,   \* the thread an actor dropped to zero and is destroying
    freed,        \* the threads PspDestroyThread has freed
    cleanups      \* how often PspDestroyThread has destroyed the process

vars == <<state, refs, inList, threadCount, creating, creatorRefs,
          deadList, deadEvent, reaperList, reaperUnlinked, held, destroying,
          freed, cleanups>>

Init ==
    /\ state = [t \in AllThreads |-> IF t = Initial THEN "Running" ELSE "None"]
    /\ refs = [t \in AllThreads |-> IF t = Initial THEN 1 ELSE 0]
    /\ inList = {Initial}
    /\ threadCount = 1
    /\ creating = NoThread
    /\ creatorRefs = {}
    /\ deadList = <<>>
    /\ deadEvent = FALSE
    /\ reaperList = <<>>
    /\ reaperUnlinked = FALSE
    /\ held = [l \in Lookers |-> NoThread]
    /\ destroying = [a \in Actors |-> NoThread]
    /\ freed = {}
    /\ cleanups = 0

\* Actor a drops n references to t (ObReleaseReference, n times); if that
\* takes the count to zero, a goes on to run PspDestroyThread on t.
Release(a, t, n) ==
    /\ refs' = [refs EXCEPT ![t] = @ - n]
    /\ destroying' = IF refs[t] = n THEN [destroying EXCEPT ![a] = t]
                                    ELSE destroying

\* The creator is running thread code, not in the middle of a creation or
\* of a destroy.
CreatorFree ==
    /\ state[Initial] = "Running"
    /\ creating = NoThread
    /\ destroying[Initial] = NoThread

-----------------------------------------------------------------------------
(***************************************************************************)
(* Creation.                                                               *)
(***************************************************************************)
\* PspCreateThread(Process, ..., Flags) called by PsCreateThread (or by
\* PspCloneThread, which never asks for the extra reference).  The object
\* starts with one reference, two with THREAD_FLAG_ADD_REFERENCE, in state
\* FirstTime.  If an allocation fails, both references are dropped before
\* the thread is on the process list.  Otherwise it gets its ID and goes
\* on the list, and the count goes up, under the process lock.
CreateThread(t, addRef) ==
    /\ CreatorFree
    /\ state[t] = "None"
    /\ state' = [state EXCEPT ![t] = "FirstTime"]
    /\ \/ /\ refs' = [refs EXCEPT ![t] = 0]
          /\ destroying' = [destroying EXCEPT ![Initial] = t]
          /\ UNCHANGED <<inList, threadCount, creating, creatorRefs>>
       \/ /\ refs' = [refs EXCEPT ![t] = IF addRef THEN 2 ELSE 1]
          /\ inList' = inList \cup {t}
          /\ threadCount' = threadCount + 1
          /\ creating' = t
          /\ creatorRefs' = IF addRef THEN creatorRefs \cup {t} ELSE creatorRefs
          /\ UNCHANGED destroying
    /\ UNCHANGED <<deadList, deadEvent, reaperList, reaperUnlinked,
                   held, freed, cleanups>>

\* Variant of FinishCreate whose failure path drops the extra reference
\* whether or not THREAD_FLAG_ADD_REFERENCE was passed.
FinishCreateReleasesTwo ==
    LET t == creating
    IN /\ t # NoThread
       /\ creating' = NoThread
       /\ \/ /\ state' = [state EXCEPT ![t] = "Running"]
             /\ UNCHANGED <<refs, creatorRefs, destroying>>
          \/ /\ refs' = [refs EXCEPT ![t] = @ - 2]
             /\ destroying' = IF refs[t] <= 2 THEN [destroying EXCEPT ![Initial] = t]
                                             ELSE destroying
             /\ creatorRefs' = creatorRefs \ {t}
             /\ UNCHANGED state
       /\ UNCHANGED <<inList, threadCount, deadList, deadEvent,
                      reaperList, reaperUnlinked, held, freed, cleanups>>

\* The rest of PsCreateThread (or PspCloneThread) for the thread t on the
\* list: KeSetThreadReady, or, when copying the credentials or setting up
\* the user stack fails, drop the creation reference and the extra one
\* while t is still on the process list.
FinishCreate ==
    LET t == creating
        n == IF t \in creatorRefs THEN 2 ELSE 1
    IN /\ t # NoThread
       /\ creating' = NoThread
       /\ \/ /\ state' = [state EXCEPT ![t] = "Running"]
             /\ UNCHANGED <<refs, creatorRefs, destroying>>
          \/ /\ Release(Initial, t, n)
             /\ creatorRefs' = creatorRefs \ {t}
             /\ UNCHANGED state
       /\ UNCHANGED <<inList, threadCount, deadList, deadEvent,
                      reaperList, reaperUnlinked, held, freed, cleanups>>

\* The creator drops the extra reference THREAD_FLAG_ADD_REFERENCE gave it.
CreatorRelease(t) ==
    /\ CreatorFree
    /\ t \in creatorRefs
    /\ Release(Initial, t, 1)
    /\ creatorRefs' = creatorRefs \ {t}
    /\ UNCHANGED <<state, inList, threadCount, creating, deadList,
                   deadEvent, reaperList, reaperUnlinked, held, freed, cleanups>>

-----------------------------------------------------------------------------
(***************************************************************************)
(* Exit and reaping.                                                       *)
(***************************************************************************)
\* PspThreadTermination, run by the thread itself: under the process lock
\* the count goes down; the thread then enters the scheduler for good.
ThreadTermination(t) ==
    /\ state[t] = "Running"
    /\ t = Initial => CreatorFree
    /\ state' = [state EXCEPT ![t] = "Terminated"]
    /\ threadCount' = threadCount - 1
    /\ UNCHANGED <<refs, inList, creating, creatorRefs, deadList,
                   deadEvent, reaperList, reaperUnlinked, held, destroying,
                   freed, cleanups>>

\* The scheduler switches the exiting thread out, marks it Exited and calls
\* PsQueueThreadCleanup: under PsDeadThreadsLock the thread goes to the
\* head of the dead list and the reaper's event is signalled.
QueueThreadCleanup(t) ==
    /\ state[t] = "Terminated"
    /\ state' = [state EXCEPT ![t] = "Exited"]
    /\ deadList' = <<t>> \o deadList
    /\ deadEvent' = TRUE
    /\ UNCHANGED <<refs, inList, threadCount, creating, creatorRefs,
                   reaperList, reaperUnlinked, held, destroying, freed, cleanups>>

\* Variant of ReaperDrain that takes one thread and unsignals the event.
ReaperDrainHead ==
    /\ deadEvent
    /\ reaperList = <<>>
    /\ destroying[Reaper] = NoThread
    /\ reaperList' = <<Head(deadList)>>
    /\ deadList' = Tail(deadList)
    /\ deadEvent' = FALSE
    /\ UNCHANGED <<state, refs, inList, threadCount, creating, creatorRefs,
                   reaperUnlinked, held, destroying, freed, cleanups>>

\* PspReaperThread, once its event is signalled and its local list is
\* done: under PsDeadThreadsLock move the whole dead list, in order, to the
\* local list, and unsignal the event.
ReaperDrain ==
    /\ deadEvent
    /\ reaperList = <<>>
    /\ destroying[Reaper] = NoThread
    /\ reaperList' = deadList
    /\ deadList' = <<>>
    /\ deadEvent' = FALSE
    /\ UNCHANGED <<state, refs, inList, threadCount, creating, creatorRefs,
                   reaperUnlinked, held, destroying, freed, cleanups>>

\* Variant of ReaperUnlink that forgets the LIST_REMOVE.
ReaperUnlinkNoRemove ==
    /\ reaperList # <<>>
    /\ ~reaperUnlinked
    /\ destroying[Reaper] = NoThread
    /\ reaperUnlinked' = TRUE
    /\ UNCHANGED <<state, refs, inList, threadCount, creating, creatorRefs,
                   deadList, deadEvent, reaperList, held, destroying, freed,
                   cleanups>>

\* The reaper takes the head of its local list and, under the process lock,
\* removes it from the process's thread list.
ReaperUnlink ==
    /\ reaperList # <<>>
    /\ ~reaperUnlinked
    /\ destroying[Reaper] = NoThread
    /\ inList' = inList \ {Head(reaperList)}
    /\ reaperUnlinked' = TRUE
    /\ UNCHANGED <<state, refs, threadCount, creating, creatorRefs,
                   deadList, deadEvent, reaperList, held, destroying, freed,
                   cleanups>>

\* It then signals the thread object and drops the thread's own reference.
ReaperRelease ==
    /\ reaperUnlinked
    /\ Release(Reaper, Head(reaperList), 1)
    /\ reaperList' = Tail(reaperList)
    /\ reaperUnlinked' = FALSE
    /\ UNCHANGED <<state, inList, threadCount, creating, creatorRefs,
                   deadList, deadEvent, held, freed, cleanups>>

-----------------------------------------------------------------------------
(***************************************************************************)
(* Lookups and destruction.                                                *)
(***************************************************************************)
\* PsGetThreadInformation in looker l: PspGetThreadById walks the process
\* thread list under the process lock and adds a reference to the thread
\* with the ID asked for, if it is on the list.
GetThreadById(l, t) ==
    /\ held[l] = NoThread
    /\ destroying[l] = NoThread
    /\ t \in inList
    /\ refs' = [refs EXCEPT ![t] = @ + 1]
    /\ held' = [held EXCEPT ![l] = t]
    /\ UNCHANGED <<state, inList, threadCount, creating, creatorRefs,
                   deadList, deadEvent, reaperList, reaperUnlinked, destroying,
                   freed, cleanups>>

\* PsGetThreadInformation reads the thread and drops its reference.
GetThreadInformationEnd(l) ==
    /\ held[l] # NoThread
    /\ Release(l, held[l], 1)
    /\ held' = [held EXCEPT ![l] = NoThread]
    /\ UNCHANGED <<state, inList, threadCount, creating, creatorRefs,
                   deadList, deadEvent, reaperList, reaperUnlinked, freed,
                   cleanups>>

\* Variant of DestroyThread that unlinks a never-run thread without
\* decrementing ThreadCount.
DestroyThreadKeepsCount(a) ==
    LET t == destroying[a]
        unlist == state[t] = "FirstTime" /\ t \in inList
    IN /\ t # NoThread
       /\ inList' = IF unlist THEN inList \ {t} ELSE inList
       /\ cleanups' = IF inList' = {} THEN cleanups + 1 ELSE cleanups
       /\ freed' = freed \cup {t}
       /\ destroying' = [destroying EXCEPT ![a] = NoThread]
       /\ UNCHANGED <<state, refs, threadCount, creating, creatorRefs, deadList,
                      deadEvent, reaperList, reaperUnlinked, held>>

\* PspDestroyThread, run by actor a that dropped the last reference to t.
\* A thread that never ran and is still on the process list is taken off
\* it, and the count decremented, under the lock.  Then, with no lock, if
\* the process thread list is empty, the process is torn down (child
\* signal to the parent, the process object signalled, removal from the
\* global lists, its signal lists drained).  The thread is freed.  Fields
\* the routine reads (State, ProcessEntry) are those the object was left
\* with, also when it is run on an object already freed.
DestroyThread(a) ==
    LET t == destroying[a]
        unlist == state[t] = "FirstTime" /\ t \in inList
    IN /\ t # NoThread
       /\ inList' = IF unlist THEN inList \ {t} ELSE inList
       /\ threadCount' = IF unlist THEN threadCount - 1 ELSE threadCount
       /\ cleanups' = IF inList' = {} THEN cleanups + 1 ELSE cleanups
       /\ freed' = freed \cup {t}
       /\ destroying' = [destroying EXCEPT ![a] = NoThread]
       /\ UNCHANGED <<state, refs, creating, creatorRefs, deadList, deadEvent,
                      reaperList, reaperUnlinked, held>>

-----------------------------------------------------------------------------
Next ==
    \/ \E t \in Threads, addRef \in BOOLEAN : CreateThread(t, addRef)
    \/ FinishCreate
    \/ \E t \in Threads : CreatorRelease(t)
    \/ \E t \in AllThreads : ThreadTermination(t) \/ QueueThreadCleanup(t)
    \/ ReaperDrain \/ ReaperUnlink \/ ReaperRelease
    \/ \E l \in Lookers : \/ \E t \in AllThreads : GetThreadById(l, t)
                         \/ GetThreadInformationEnd(l)
    \/ \E a \in Actors : DestroyThread(a)

\* The scheduler switches every exiting thread out and queues it; the
\* reaper loops forever; a destroy, once begun, runs to its end; a lookup
\* returns.  The creator and the threads themselves need not progress.
Fairness ==
    /\ \A t \in AllThreads : WF_vars(QueueThreadCleanup(t))
    /\ WF_vars(ReaperDrain) /\ WF_vars(ReaperUnlink) /\ WF_vars(ReaperRelease)
    /\ \A l \in Lookers : WF_vars(GetThreadInformationEnd(l))
    /\ \A a \in Actors : WF_vars(DestroyThread(a))

Spec == Init /\ [][Next]_vars /\ Fairness

-----------------------------------------------------------------------------
TypeOK ==
    /\ state \in [AllThreads -> {"None", "FirstTime", "Running", "Terminated", "Exited"}]
    /\ refs \in [AllThreads -> Nat]
    /\ inList \subseteq AllThreads
    /\ threadCount \in Nat
    /\ creating \in AllThreads \cup {NoThread}
    /\ creatorRefs \subseteq Threads
    /\ deadList \in Seq(AllThreads)
    /\ deadEvent \in BOOLEAN
    /\ reaperList \in Seq(AllThreads)
    /\ reaperUnlinked \in BOOLEAN
    /\ held \in [Lookers -> AllThreads \cup {NoThread}]
    /\ destroying \in [Actors -> AllThreads \cup {NoThread}]
    /\ freed \subseteq AllThreads
    /\ cleanups \in Nat

\* Process->ThreadCount is the number of threads on the process list that
\* have not run PspThreadTermination: creation adds to both under one lock
\* hold, termination takes from the count only, the reaper and the
\* destroy of a never-run thread take from the list.
ThreadCountMatches ==
    threadCount = Cardinality({t \in inList : state[t] \in {"FirstTime", "Running"}})

\* No freed thread is on its process's list, where PspGetThreadById would
\* find it: the reaper unlinks a dead thread before it drops the thread's
\* reference, and PspDestroyThread unlinks a thread that never ran.
FreedThreadsUnlisted == freed \cap inList = {}

\* Every thread that runs PspThreadTermination is eventually unlinked from
\* its process by the reaper, however the scheduler's queueing and the
\* reaper's draining of PsDeadThreadsListHead interleave.
ExitedThreadsUnlinked ==
    \A t \in AllThreads : state[t] = "Terminated" ~> t \notin inList

\* A freed thread has no references left: no lookup has added one to a
\* thread whose count had reached zero (PspReaperThread's comment: the
\* thread leaves the list before its count drops to zero so that a lookup
\* under the process lock cannot reach it).
FreedThreadsUnreferenced == \A t \in freed : refs[t] = 0

\* PspDestroyThread tears the process down (child signal, removal from the
\* process lists) at most once.
ProcessDestroyedOnce == cleanups <= 1
====
