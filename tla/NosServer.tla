-------------------------------- MODULE NosServer --------------------------------
(***************************************************************************)
(* The Python simulator of the offload device,                             *)
(* nos_sessions_server_simulator.py: a dictionary of sessions that one     *)
(* request handler and the simulated traffic's thread share without a      *)
(* lock.  The simulated firewall makes one call at a time (FwClient), so   *)
(* there is one handler; the traffic thread changes no key and no tuple,   *)
(* so what a handler does for one request is one step.  Counters, times    *)
(* and the fields no decision reads are left out.                          *)
(***************************************************************************)
EXTENDS Naturals, Sequences, FiniteSets, Functions, SequencesExt

CONSTANTS
    maxSessionId,  \* SessionTableServicer.maxSessionId: the key never given out
    MaxAdds        \* bound: requests made of addSession

ASSUME NosAssumption == maxSessionId \in Nat \ {0, 1} /\ MaxAdds \in Nat

VARIABLES
    offloadSessionTable,  \* the dictionary: by key, a session
    lastSessionId,        \* where the search for a free key goes on
    inserted,             \* insertions so far: a session's stamp, its place in the order
    call,                 \* the handler: the operation and what is left of it
    reply,                \* messages sent and not yet received
    traffic               \* simulateSessionsTraffic

server == <<offloadSessionTable, lastSessionId, inserted, call, reply, traffic>>

idle == [op |-> "idle"]

ServerInit ==
    /\ offloadSessionTable = << >>
    /\ lastSessionId = 1
    /\ inserted = 0
    /\ call = idle
    /\ reply = << >>
    /\ traffic = [pc |-> "sleep", size |-> 0, at |-> 0]

-----------------------------------------------------------------------------
(* The dictionary. *)

Keys == DOMAIN offloadSessionTable

\* the keys in the order of insertion, as list() and items() give them
InOrder ==
    CHOOSE keys \in [1 .. Cardinality(Keys) -> Keys] :
        \A i, j \in DOMAIN keys :
            i < j => offloadSessionTable[keys[i]].stamp < offloadSessionTable[keys[j]].stamp

\* of some keys, the one that items() gives first
Earliest(keys) ==
    CHOOSE k \in keys : \A l \in keys :
        offloadSessionTable[k].stamp <= offloadSessionTable[l].stamp

WithClientId(id) == {k \in Keys : offloadSessionTable[k].client = id}

\* findSessionByTuple: the IPv6 addresses are no part of the tuple
findSessionByTuple(tuple) == {k \in Keys : offloadSessionTable[k].tuple = tuple}

\* the key that the search of nextSessionId looks at after c others: it starts over
\* before it would look at maxSessionId
Tried(c) ==
    LET first == IF lastSessionId = maxSessionId THEN 1 ELSE lastSessionId
    IN IF first + c < maxSessionId THEN first + c ELSE first + c - (maxSessionId - 1)

\* mutant: the search does not start over
nextSessionIdNoWrap ==
    LET free == {c \in 0 .. maxSessionId - 2 : lastSessionId + c \notin Keys}
    IN IF free = {}
       THEN [id |-> 0, last |-> 1]
       ELSE [id |-> lastSessionId + Min(free), last |-> lastSessionId + Min(free)]

\* mutant: one round too few, and the last key is not tried
nextSessionIdGivesUp ==
    LET free == {c \in 0 .. maxSessionId - 3 : Tried(c) \notin Keys}
    IN IF free = {}
       THEN [id |-> 0, last |-> Tried(maxSessionId - 3) + 1]
       ELSE [id |-> Tried(Min(free)), last |-> Tried(Min(free))]

\* the key the loop stops at, within its maxSessionId - 1 rounds, and what it leaves
\* in lastSessionId; id 0 stands for the answer -1
nextSessionId ==
    LET free == {c \in 0 .. maxSessionId - 2 : Tried(c) \notin Keys}
    IN IF free = {}
       THEN [id |-> 0, last |-> Tried(maxSessionId - 2) + 1]
       ELSE [id |-> Tried(Min(free)), last |-> Tried(Min(free))]

-----------------------------------------------------------------------------
(* The handlers. *)

Return == call' = [op |-> "returned"]

\* the errors of one request: it may have both
Errors(request) ==
    (IF findSessionByTuple(request.tuple) # {}
     THEN <<[id |-> request.id, error |-> "_SESSION_ALREADY_EXISTS"]>> ELSE << >>)
    \o (IF nextSessionId.id = 0
        THEN <<[id |-> request.id, error |-> "_SESSION_TABLE_FULL"]>> ELSE << >>)

NewSession(request) ==
    [client |-> request.id, tuple |-> request.tuple, state |-> "_ESTABLISHED",
     code |-> "_NOT_CLOSED", stamp |-> inserted + 1]

\* one round of addSession's loop over the stream of requests; all the errors go
\* into the one response
addSession ==
    /\ call.op = "addSession" /\ call.requests # << >>
    /\ LET request == Head(call.requests)
           errors == Errors(request)
       IN /\ lastSessionId' = nextSessionId.last
          /\ call' = [call EXCEPT !.requests = Tail(@), !.errors = @ \o errors]
          /\ IF errors = << >>
             THEN /\ offloadSessionTable' =
                        [k \in Keys \cup {nextSessionId.id} |->
                            IF k = nextSessionId.id THEN NewSession(request)
                                                    ELSE offloadSessionTable[k]]
                  /\ inserted' = inserted + 1
             ELSE UNCHANGED <<offloadSessionTable, inserted>>
    /\ UNCHANGED <<reply, traffic>>

addSessionReturns ==
    /\ call.op = "addSession" /\ call.requests = << >>
    /\ reply' = call.errors
    /\ Return
    /\ UNCHANGED <<offloadSessionTable, lastSessionId, inserted, traffic>>

\* a session that is not found sets the status UNKNOWN: the caller's stub raises
getSession ==
    /\ call.op = "getSession"
    /\ reply' = LET found == WithClientId(call.id) IN
                IF found # {}
                THEN <<[id |-> call.id, state |-> offloadSessionTable[Earliest(found)].state]>>
                ELSE <<[id |-> call.id, state |-> "UNKNOWN"]>>
    /\ Return
    /\ UNCHANGED <<offloadSessionTable, lastSessionId, inserted, traffic>>

\* without paging, as the simulated firewall asks for it: pageSize and page are 0
getAllSessions ==
    /\ call.op = "getAllSessions"
    /\ reply' = [i \in 1 .. Len(InOrder) |->
                    [id |-> offloadSessionTable[InOrder[i]].client,
                     state |-> offloadSessionTable[InOrder[i]].state]]
    /\ Return
    /\ UNCHANGED <<offloadSessionTable, lastSessionId, inserted, traffic>>

\* the loop of getClosedSessions over list(offloadSessionTable), taken at its start:
\* a closed session leaves the dictionary and then is yielded
getClosedSessionsBegins ==
    /\ call.op = "getClosedSessions" /\ ~ call.begun
    /\ call' = [call EXCEPT !.begun = TRUE, !.keys = InOrder]
    /\ UNCHANGED <<offloadSessionTable, lastSessionId, inserted, reply, traffic>>

\* mutant: the message is sent and the session stays
getClosedSessionsKeeps ==
    /\ call.op = "getClosedSessions" /\ call.begun /\ call.keys # << >>
    /\ call' = [call EXCEPT !.keys = Tail(@)]
    /\ LET session == offloadSessionTable[Head(call.keys)]
       IN IF session.state = "_CLOSED"
          THEN reply' = Append(reply, [id |-> session.client, stamp |-> session.stamp])
          ELSE UNCHANGED reply
    /\ UNCHANGED <<offloadSessionTable, lastSessionId, inserted, traffic>>

\* mutant: the loop stops at the first session that is still open
getClosedSessionsStops ==
    /\ call.op = "getClosedSessions" /\ call.begun /\ call.keys # << >>
    /\ LET k == Head(call.keys)
           session == offloadSessionTable[k]
       IN IF session.state = "_CLOSED"
          THEN /\ call' = [call EXCEPT !.keys = Tail(@)]
               /\ offloadSessionTable' = Restrict(offloadSessionTable, Keys \ {k})
               /\ reply' = Append(reply, [id |-> session.client, stamp |-> session.stamp])
          ELSE /\ call' = [call EXCEPT !.keys = << >>]
               /\ UNCHANGED <<offloadSessionTable, reply>>
    /\ UNCHANGED <<lastSessionId, inserted, traffic>>

getClosedSessions ==
    /\ call.op = "getClosedSessions" /\ call.begun /\ call.keys # << >>
    /\ call' = [call EXCEPT !.keys = Tail(@)]
    /\ LET k == Head(call.keys)
           session == offloadSessionTable[k]
       IN IF session.state = "_CLOSED"
          THEN /\ offloadSessionTable' = Restrict(offloadSessionTable, Keys \ {k})
               /\ reply' = Append(reply, [id |-> session.client, stamp |-> session.stamp])
          ELSE UNCHANGED <<offloadSessionTable, reply>>
    /\ UNCHANGED <<lastSessionId, inserted, traffic>>

getClosedSessionsReturns ==
    /\ call.op = "getClosedSessions" /\ call.begun /\ call.keys = << >>
    /\ Return
    /\ UNCHANGED <<offloadSessionTable, lastSessionId, inserted, reply, traffic>>

Handler ==
    \/ addSession \/ addSessionReturns
    \/ getSession \/ getAllSessions
    \/ getClosedSessionsBegins \/ getClosedSessions \/ getClosedSessionsReturns

-----------------------------------------------------------------------------
(* simulateSessionsTraffic: a walk over the live dictionary, every 2 seconds. *)

TrafficOnly == UNCHANGED <<offloadSessionTable, lastSessionId, inserted, call, reply>>

TrafficBegins ==
    /\ traffic.pc = "sleep"
    /\ traffic' = [pc |-> "walk", size |-> Cardinality(Keys), at |-> 0]
    /\ TrafficOnly

Ahead == {k \in Keys : offloadSessionTable[k].stamp > traffic.at}

\* items() raises RuntimeError when the dictionary has another size than at the
\* start of the walk; nothing catches it and the thread ends
TrafficDies ==
    /\ traffic.pc = "walk" /\ traffic.size # Cardinality(Keys)
    /\ traffic' = [traffic EXCEPT !.pc = "dead"]
    /\ TrafficOnly

TrafficEnds ==
    /\ traffic.pc = "walk" /\ traffic.size = Cardinality(Keys) /\ Ahead = {}
    /\ traffic' = [traffic EXCEPT !.pc = "sleep"]
    /\ TrafficOnly

\* the next session: a closed one is passed over, and so is one whose counters are
\* all that changes; a session that ends is closed first and given its close code in
\* another step
TrafficNext ==
    /\ traffic.pc = "walk" /\ traffic.size = Cardinality(Keys) /\ Ahead # {}
    /\ LET k == Earliest(Ahead)
           stamp == offloadSessionTable[k].stamp
       IN \/ /\ traffic' = [traffic EXCEPT !.at = stamp]
             /\ UNCHANGED offloadSessionTable
          \/ /\ offloadSessionTable[k].state # "_CLOSED"
             /\ offloadSessionTable' = [offloadSessionTable EXCEPT ![k].state = "_CLOSED"]
             /\ traffic' = [traffic EXCEPT !.pc = "closing", !.at = stamp]
    /\ UNCHANGED <<lastSessionId, inserted, call, reply>>

\* the walk holds the session itself, which may have left the dictionary meanwhile
TrafficSetsCode ==
    /\ traffic.pc = "closing"
    /\ \E code \in {"_TIMEOUT", "_FINACK"} :
            offloadSessionTable' =
                [k \in Keys |-> IF offloadSessionTable[k].stamp = traffic.at
                                THEN [offloadSessionTable[k] EXCEPT !.code = code]
                                ELSE offloadSessionTable[k]]
    /\ traffic' = [traffic EXCEPT !.pc = "walk"]
    /\ UNCHANGED <<lastSessionId, inserted, call, reply>>

Traffic ==
    TrafficBegins \/ TrafficDies \/ TrafficEnds \/ TrafficNext \/ TrafficSetsCode
=============================================================================
