----------------------------- MODULE MCMapping -----------------------------
(***************************************************************************)
(* Mapping instantiated for TLC: process p1 starts with thread t1 and can  *)
(* create t2; process p2 has thread t3, which maps and unmaps in p1.       *)
(* p0 names no process: a ForkParent that never forks.                     *)
(***************************************************************************)
EXTENDS Mapping, TLC

CONSTANTS p0, p1, p2, t1, t2, t3, v1, v2, f1, f2

MCProcOf == (t1 :> p1) @@ (t2 :> p1) @@ (t3 :> p2)

\* Frames are interchangeable: no definition names one.
FrameSymmetry == Permutations({f1, f2})
====
