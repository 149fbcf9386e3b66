----------------------------- MODULE MCPagePool -----------------------------
(* Instances of PagePool for TLC. *)
EXTENDS PagePool, TLC

\* Two cache pages and one I/O page.
SmallLimit == ("cachePage" :> 2) @@ ("ioPage" :> 1)

ClientSymmetry == Permutations(Clients)
=============================================================================
