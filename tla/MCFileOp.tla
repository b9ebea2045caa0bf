------------------------------ MODULE MCFileOp ------------------------------
(* FileOp on small processes: two threads of one process, or one thread in *)
(* each of two.                                                            *)
EXTENDS FileOp, TLC

CONSTANTS t1, t2, p1, p2

Root == <<"/", "w">>

OneProcess == (t1 :> p1) @@ (t2 :> p1)

Program(proc, fds, names, mmaps, shared, bytes) ==
    [proc |-> proc, fds |-> fds, names |-> names, mmaps |-> mmaps, shared |-> shared,
     bytes |-> bytes]

Names(mine, others) == (p1 :> mine) @@ (p2 :> others)

\* Threads that do not race, first on a directory, a file to open in it and a
\* noise directory whose files are dropped only after the join with its path,
\* then on one file they write to; threads that race on it; and two processes
\* with names of their own.  The set is closed under permutations of threads
\* and descriptors.
MCPrograms ==
    {Program(OneProcess, Fds, Names({<<"/", "d">>, <<"f">>, <<"/", "proc">>}, {}), {}, FALSE, 0),
     Program(OneProcess, Fds, Names({<<"/", "d">>}, {}), {"mmap_read"}, FALSE, 2),
     Program(OneProcess, Fds, Names({<<"/", "d">>}, {}), {}, TRUE, 2)}
    \cup
    {Program(procs, {fd}, Names({<<"/", "d">>, <<"f">>}, {<<"/", "e">>, <<"g">>}),
             {"mmap_write"}, TRUE, 0) :
        procs \in {(t1 :> p1) @@ (t2 :> p2), (t1 :> p2) @@ (t2 :> p1)}, fd \in Fds}

Symmetry == Permutations(Threads) \cup Permutations(Fds)
=============================================================================
