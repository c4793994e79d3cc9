---------------------------- MODULE MCSessionServer ----------------------------
(* Small instances of SessionServer for TLC, and what the documentation says *)
(* of the server where the code does otherwise.                              *)
EXTENDS SessionServer, TLC

\* addresses, and server threads, are interchangeable
ThreadPtrSymmetry == Permutations(Ptr) \cup Permutations(Threads)

\* One thread collects closed sessions while each of the others goes on entering and
\* deleting a session of its own: the clients that can keep a scan going.
Collector == CHOOSE t \in Threads : TRUE
Owner == CHOOSE f \in [Threads \ {Collector} -> Ids] : IsInjective(f)

CollectorNext == CallClosed(Collector) \/ Run(Collector) \/ DataRace(Collector)

OwnerNext(t) ==
    \/ CallAdd(t)
    \/ Call(t, "del", Owner[t], 0)
    \/ Run(t) /\ (pc'[t] = "add_count" => key'[t] = Owner[t])
    \/ DataRace(t)

OwnersSpec ==
    /\ Init
    /\ [][\/ CollectorNext
          \/ \E t \in Threads \ {Collector} : OwnerNext(t)
          \/ Halted]_vars
    /\ \A t \in Threads : WF_vars(Run(t))

-----------------------------------------------------------------------------
\* opof_server_test.c:160 "Check if sessionId already exists": a check and a
\* HASH_ADD that two threads can both pass with one id.
OneRecordPerId == UniqueIds

\* opof_server_test.c:231 calls the argument of opof_del_session_server "The
\* session to delete": the record about to be deleted is still that session's, and
\* not one that another thread has put at the same address since.
DeletesTheSession ==
    \A t \in Threads :
        pc[t] = "del_unlink" /\ Alive(r[t]) => heap[r[t]].id = key[t]

\* openoffload.proto:146 "Stream back all current sessions": also when sessions
\* are deleted while the client lists page by page.
ListingSurvivesDeletion == ub # "dangling"
=============================================================================
