-------------------------- MODULE MCPageDirectory --------------------------
(***************************************************************************)
(* PageDirectory instantiated for TLC.  Each configuration picks the       *)
(* processes, their threads and the page tables the loader built.          *)
(***************************************************************************)
EXTENDS PageDirectory, TLC

CONSTANTS p1, p2, p3, t1, t2, t3, t4, f1, f2, f3, f4, f5

MCTableFrames == {f1, f2, f3, f4, f5}

NoBootTables == << >>

\* A process with one thread that forks into p3, whose two threads then
\* run and race to create (or take the preallocated) page tables; the
\* kernel table was built by the loader, so the processes share it.
ForkThreads == {t1, t2, t3}
ForkProcOf == (t1 :> p1) @@ (t2 :> p3) @@ (t3 :> p3)
BootTable3 == 3 :> f5

\* As above with a second thread in the forking process.
ForkRaceThreads == {t1, t3, t4}
ForkRaceProcOf == (t1 :> p1) @@ (t3 :> p3) @@ (t4 :> p1)

\* Two processes with one thread each and no kernel table at boot.
TwoProcThreads == {t1, t2}
TwoProcOf == (t1 :> p1) @@ (t2 :> p2)

====
