--------------------------- MODULE MC_KeventWait ---------------------------
(* Model-checking instance of KeventClient: two identities (the read and  *)
(* write filter of one descriptor), an event-list of one entry (so a call *)
(* can report fewer events than are ready), timeouts of a whole negative *)
(* second (tv_sec = -1, which kevent rejects), zero and positive, and one *)
(* signal per call; the violation runs add a negative fraction (a         *)
(* negative tv_nsec) and a longer wait.                                   *)
EXTENDS KeventClient

CONSTANTS e1, e2

MCIdents == {e1, e2}

\* e1 and e2 are the read and the write filter of one descriptor, each
\* registered with its own user data.
MCIdentKey ==
    [e \in MCIdents |->
        IF e = e1 THEN [fd |-> 3, filter |-> getEvfiltRead, udata |-> 1]
                  ELSE [fd |-> 3, filter |-> getEvfiltWrite, udata |-> 2]]

MCTimeouts == {-1000, 0, 2}
\* A longer wait, long enough for the process to burn more CPU time than
\* the wait has left before a signal arrives.
MCLongTimeouts == {-1000, -1, 0, 3}
=============================================================================
