---------------------------- MODULE PhysicalPages ----------------------------
(***************************************************************************)
(* What the physical page allocator promises its callers, without the      *)
(* frame database, the counters, the cursors or the pager's loop: each     *)
(* frame is in the free pool, held by one thread, reserved at boot, or     *)
(* released by its holder while the pager was evicting it.  A frame leaves *)
(* the pool only by an allocation; a held frame returns to it only by its  *)
(* holder's free or by its eviction; one frame at a time is picked for     *)
(* eviction, only among the pageable frames of a holder, and it is never   *)
(* handed to anyone before the eviction ends.                              *)
(***************************************************************************)
EXTENDS FiniteSets

CONSTANTS
    Frames,     \* the physical frames
    Threads,    \* the threads that allocate and free
    Reserved    \* frames the boot memory map keeps

Pool == "pool"
Boot == "boot"
Released == "released"

VARIABLES
    holder,     \* holder[f]: a thread, Pool, Boot or Released
    pageable,   \* the frames paging is enabled on
    evicting    \* the frame picked for eviction, or no frame: {}

vars == <<holder, pageable, evicting>>

Init ==
    /\ holder = [f \in Frames |-> IF f \in Reserved THEN Boot ELSE Pool]
    /\ pageable = {}
    /\ evicting = {}

HeldBy(t) == {f \in Frames : holder[f] = t}

\* Thread t is given some frames of the pool.
Alloc(t) ==
    \E s \in SUBSET Frames :
        /\ s # {}
        /\ \A f \in s : holder[f] = Pool
        /\ holder' = [f \in Frames |-> IF f \in s THEN t ELSE holder[f]]
        /\ UNCHANGED <<pageable, evicting>>

\* Thread t makes some of its frames pageable.
EnablePaging(t) ==
    \E s \in SUBSET HeldBy(t) :
        /\ s # {}
        /\ s \cap pageable = {}
        /\ pageable' = pageable \cup s
        /\ UNCHANGED <<holder, evicting>>

\* Thread t frees some of its frames: each goes back to the pool, except
\* the one being evicted, which is left released to the eviction.
Release(t) ==
    \E s \in SUBSET HeldBy(t) :
        /\ s # {}
        /\ holder' = [f \in Frames |-> IF f \notin s THEN holder[f]
                                       ELSE IF f \in evicting THEN Released
                                       ELSE Pool]
        /\ pageable' = pageable \ (s \ evicting)
        /\ UNCHANGED evicting

\* A pageable frame of a holder is picked for eviction.
Pick(f) ==
    /\ evicting = {}
    /\ f \in pageable
    /\ holder[f] \in Threads
    /\ evicting' = {f}
    /\ UNCHANGED <<holder, pageable>>

\* The eviction ends with the frame in the pool.
Evict(f) ==
    /\ evicting = {f}
    /\ holder' = [holder EXCEPT ![f] = Pool]
    /\ pageable' = pageable \ {f}
    /\ evicting' = {}

\* The eviction gives up (the frame was locked, or the write-back failed);
\* a released frame is never left behind.
Abandon(f) ==
    /\ evicting = {f}
    /\ holder[f] # Released
    /\ evicting' = {}
    /\ UNCHANGED <<holder, pageable>>

Next ==
    \/ \E t \in Threads : Alloc(t) \/ EnablePaging(t) \/ Release(t)
    \/ \E f \in Frames : Pick(f) \/ Evict(f) \/ Abandon(f)

Spec == Init /\ [][Next]_vars
=============================================================================
