-------------------------- MODULE MCTokenLifecycle --------------------------
(* Bounds for model-checking TokenLifecycle.                               *)
EXTENDS TokenLifecycle, TLC

\* Requests are interchangeable, and so are workers.
MCSymmetry == Permutations(Requests) \cup Permutations(Workers)

\* What later steps still read of a request and of a handler: the key until it
\* has been deleted, the row seen first only while its key is looked for.
RequestView(r) ==
    IF request[r].at \in {"idle", "finalize", "rejected", "cleanup", "delete"}
    THEN request[r] ELSE <<request[r].at, request[r].token>>
HandlerView(w) ==
    CASE handler[w].at = "find" -> <<"find", handler[w].row>>
      [] handler[w].at = "mark" -> <<"mark">>
      [] OTHER -> <<handler[w].at, handler[w].key>>

\* What is still read of a job: a settled one is neither claimed nor inserted
\* again, and its handler is not run again.
JobView(j) ==
    IF status[j] \in Settled THEN status[j]
    ELSE <<status[j], attempts[j], available[j], expired[j], created[j], payload[j]>>

\* swept, tries, promised and which job was muted only record the past: no
\* guard reads them.
MCView == <<orgStatus, billing, row, proxy,
            [r \in Requests |-> RequestView(r)],
            [w \in Workers |-> HandlerView(w)],
            sweeps, {t \in Tokens : RevocationMuted(t)},
            [j \in Jobs |-> JobView(j)], clock, held, phase, seen>>

=============================================================================
