----------------------------- MODULE MCService -----------------------------
(***************************************************************************)
(* Instances of Service for TLC.                                           *)
(***************************************************************************)
EXTENDS Service, TLC

CONSTANTS r1, r2, r3

ThreeRequests == {r1, r2, r3}

Mix(a, b, c) == r1 :> a @@ r2 :> b @@ r3 :> c

\* Two users of the profiler beside a third request, two of the lock, the others.
SomeMixes ==
    {Mix("cpuprof", "cpuprof", "version"), Mix("cpuprof", "profile", "empty"),
     Mix("empty", "empty", "memprof"), Mix("unknown", "method", "unreadable"),
     Mix("ping", "lookup", "pages")}

=============================================================================
