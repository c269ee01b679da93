---------------------------- MODULE MCScheduler ----------------------------
(* Scheduler for TLC: threads as model values and small records.           *)
EXTENDS Scheduler

MCThread == {killedThread, Main} \cup User
              \cup {<<"idle", c>> : c \in CPUs} \cup {<<"destroyer", c>> : c \in CPUs}
MCidle == [c \in CPUs |-> <<"idle", c>>]
MCdestroyer == [c \in CPUs |-> <<"destroyer", c>>]

InPop == {t \in Destroyers : tpc[t] \in {"front", "slot", "next", "advance", "size",
                                         "store", "take"}}

\* The bounds of the run on two CPUs.  While two destroyers are inside pop(),
\* the CPUs execute, push and fail asserts but do not switch threads; and a
\* state in which their race has taken a size below zero or an index past the
\* entries is checked but not continued.
PopBound ==
  /\ Cardinality(InPop) > 1 =>
       \A c \in CPUs : pc[c] \in {"thread", "exitPush", "exitStore", "panic"}
  /\ \A c \in CPUs : /\ toDestroySize[c] >= 0
                     /\ lastRead[c] <= Len(toDestroy[c]) + 1
=============================================================================
