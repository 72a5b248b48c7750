------------------------------- MODULE MCFutex -------------------------------
(***************************************************************************)
(* Futex for TLC: three threads, two futex words of one bit.               *)
(***************************************************************************)
EXTENDS Futex, TLC

CONSTANTS t1, t2, t3, a1, a2

Threads == {t1, t2, t3}
Addrs == {a1, a2}

\* What a condition variable and a semaphore of glibc encode.
WakeOps == {[fn |-> "SET", arg |-> 0, cmp |-> "GT", cmparg |-> 0],
            [fn |-> "ADD", arg |-> 1, cmp |-> "EQ", cmparg |-> 0]}

Symmetry == Permutations(Threads) \cup Permutations(Addrs)
=============================================================================
