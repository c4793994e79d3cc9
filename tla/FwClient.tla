-------------------------------- MODULE FwClient --------------------------------
(***************************************************************************)
(* The simulated firewall, fw_sessions_client_simulator.py, composed with  *)
(* the simulated device of NosServer: run() without --loopmax.  It keeps a *)
(* table of its own sessions, and decides by it what is still offloaded.   *)
(***************************************************************************)
EXTENDS NosServer

CONSTANTS
    startSessionId, maxFwSessionId,  \* the client's first id, and its maxSessionId
    FirstBatch, LoopBatch,           \* sessions added at the start (10), and in a round (3)
    Tuples, TuplesV6                 \* 7-tuples of IPv4 requests; of IPv6 ones, whose
                                     \* IPv4 addresses are 0: their ports

ASSUME FwAssumption ==
    /\ startSessionId \in Nat /\ maxFwSessionId \in Nat
    /\ startSessionId < maxFwSessionId
    /\ FirstBatch \in Nat \ {0} /\ LoopBatch \in Nat \ {0}
    /\ Tuples \cap TuplesV6 = {}

VARIABLES
    sessionTable,   \* the client's dictionary: by id, whether it is offloaded
    lastId,         \* the client's lastSessionId
    step,           \* where run() is
    received        \* stamps of the closed sessions received: history

client == <<sessionTable, lastId, step, received>>
vars == <<server, client>>

Init ==
    /\ ServerInit
    /\ sessionTable = << >>
    /\ lastId = startSessionId
    /\ step = "initialize"
    /\ received = {}

\* run(): the loop goes from the listing back to the closed sessions
After == [initialize |-> "first4", first4 |-> "first6", first6 |-> "closed",
          closed |-> "add4", add4 |-> "get4", get4 |-> "add6", add6 |-> "get6",
          get6 |-> "list", list |-> "closed"]

Calls(request) == call = idle /\ reply = << >> /\ call' = request
CallEnds == call.op = "returned" /\ call' = idle /\ step' = After[step]

Offloaded == {id \in DOMAIN sessionTable : sessionTable[id]}

ServerKeeps == UNCHANGED <<offloadSessionTable, lastSessionId, inserted, traffic>>

-----------------------------------------------------------------------------
(* session_addSessions *)

\* nextSessionId: it starts over only when it begins at the last id, and takes the
\* first id from there on that the table does not have
NextId(taken, last) ==
    LET from == IF last = maxFwSessionId THEN startSessionId ELSE last
        free == (from .. from + Cardinality(taken)) \ taken
    IN CHOOSE id \in free : \A other \in free : id <= other

Batch == IF step \in {"first4", "first6"} THEN FirstBatch ELSE LoopBatch
\* the ids of a batch, one after the other; each passes over taken ones only, which
\* bounds it
BatchIds ==
    LET most == lastId + Cardinality(DOMAIN sessionTable) + Batch
        taken(ids, i) == DOMAIN sessionTable \cup {ids[j] : j \in 1 .. i - 1}
    IN {ids \in [1 .. Batch -> startSessionId .. most] : \A i \in 1 .. Batch :
            ids[i] = NextId(taken(ids, i), IF i = 1 THEN lastId ELSE ids[i - 1])}

TuplesNow == IF step \in {"first4", "add4"} THEN Tuples ELSE TuplesV6
Adding == step \in {"first4", "first6", "add4", "add6"}

\* requests made so far: those the server took, and those it refused, which the
\* client's table keeps
Asked == inserted + Cardinality(DOMAIN sessionTable \ Offloaded)

\* every session of the batch is in the client's table, as offloaded, before the call
CallAdd ==
    /\ Adding /\ Asked < MaxAdds
    /\ \E ids \in BatchIds, tuples \in [1 .. Batch -> TuplesNow] :
          /\ Calls([op |-> "addSession", errors |-> << >>,
                    requests |-> [i \in 1 .. Batch |->
                                     [id |-> ids[i], tuple |-> tuples[i]]]])
          /\ sessionTable' = [id \in DOMAIN sessionTable \cup Range(ids) |->
                                 IF id \in Range(ids) THEN TRUE ELSE sessionTable[id]]
          /\ lastId' = ids[Batch]
    /\ ServerKeeps /\ UNCHANGED <<step, reply, received>>

\* the bound on the model: run() goes on without adding
SkipAdd ==
    /\ Adding /\ call = idle /\ Asked >= MaxAdds
    /\ step' = After[step]
    /\ ServerKeeps /\ UNCHANGED <<call, reply, sessionTable, lastId, received>>

\* mutant: the errors of the response are only printed
AddReturnsAllOffloaded ==
    /\ Adding /\ CallEnds
    /\ reply' = << >>
    /\ ServerKeeps /\ UNCHANGED <<sessionTable, lastId, received>>

\* a session with an error is kept, as one that is not offloaded
AddReturns ==
    /\ Adding /\ CallEnds
    /\ sessionTable' = [id \in DOMAIN sessionTable |->
                            sessionTable[id] /\ \A e \in Range(reply) : e.id # id]
    /\ reply' = << >>
    /\ ServerKeeps /\ UNCHANGED <<lastId, received>>

-----------------------------------------------------------------------------
(* sessionClosedSessions *)

CallClosed ==
    /\ step = "closed"
    /\ Calls([op |-> "getClosedSessions", begun |-> FALSE, keys |-> << >>])
    /\ ServerKeeps /\ UNCHANGED <<step, reply, sessionTable, lastId, received>>

\* mutant: the session stays in the firewall's table
ReceiveClosedKeeps ==
    /\ step = "closed" /\ reply # << >>
    /\ received' = received \cup {Head(reply).stamp}
    /\ reply' = Tail(reply)
    /\ ServerKeeps /\ UNCHANGED <<call, step, lastId, sessionTable>>

\* a session that is not in the table is an error message and nothing else
ReceiveClosed ==
    /\ step = "closed" /\ reply # << >>
    /\ sessionTable' = Restrict(sessionTable, DOMAIN sessionTable \ {Head(reply).id})
    /\ received' = received \cup {Head(reply).stamp}
    /\ reply' = Tail(reply)
    /\ ServerKeeps /\ UNCHANGED <<call, step, lastId>>

ClosedReturns ==
    /\ step = "closed" /\ reply = << >> /\ CallEnds
    /\ ServerKeeps /\ UNCHANGED <<reply, sessionTable, lastId, received>>

-----------------------------------------------------------------------------
(* The fetch of one session, and the listing. *)

Fetching == step \in {"get4", "get6"}
\* the first offloaded session of the table, whichever that is
CallGet ==
    /\ Fetching
    /\ \E id \in Offloaded : Calls([op |-> "getSession", id |-> id])
    /\ ServerKeeps /\ UNCHANGED <<step, reply, sessionTable, lastId, received>>

SkipGet ==
    /\ Fetching /\ call = idle /\ Offloaded = {}
    /\ step' = After[step]
    /\ ServerKeeps /\ UNCHANGED <<call, reply, sessionTable, lastId, received>>

\* nothing catches the error the stub raises for a session that was not found
GetReturns ==
    /\ Fetching /\ call.op = "returned" /\ call' = idle
    /\ step' = IF Head(reply).state = "UNKNOWN" THEN "failed" ELSE After[step]
    /\ reply' = << >>
    /\ ServerKeeps /\ UNCHANGED <<sessionTable, lastId, received>>

Listing == step \in {"initialize", "list"}

CallList ==
    /\ Listing
    /\ Calls([op |-> "getAllSessions"])
    /\ ServerKeeps /\ UNCHANGED <<step, reply, sessionTable, lastId, received>>

ListReturns ==
    /\ Listing /\ CallEnds
    /\ reply' = << >>
    /\ ServerKeeps /\ UNCHANGED <<sessionTable, lastId, received>>

-----------------------------------------------------------------------------
Client ==
    \/ CallAdd \/ SkipAdd \/ AddReturns
    \/ CallClosed \/ ReceiveClosed \/ ClosedReturns
    \/ CallGet \/ SkipGet \/ GetReturns
    \/ CallList \/ ListReturns

Next == Client \/ (Handler /\ UNCHANGED client) \/ (Traffic /\ UNCHANGED client)

Spec == Init /\ [][Next]_vars

\* the client runs, and so does the handler of its call; nothing is assumed of the
\* traffic, whose thread may have ended
FairSpec == Spec /\ WF_vars(Client) /\ WF_vars(Handler /\ UNCHANGED client)

-----------------------------------------------------------------------------
(* What must hold. *)

Clients == {offloadSessionTable[k].client : k \in Keys}
Stamps == {offloadSessionTable[k].stamp : k \in Keys}

FieldOf(messages, field) == {m[field] : m \in Range(messages)}
IdsOf(messages) == FieldOf(messages, "id")

\* the stamps of the closed sessions on their way to the firewall
OnTheWay == IF step = "closed" THEN FieldOf(reply, "stamp") ELSE {}

\* The variables have their types.  The device gives out the keys 1 to
\* maxSessionId - 1: nextSessionId goes back to 1 before it tries the last.
NosTypeOK ==
    /\ Keys \subseteq 1 .. maxSessionId - 1
    /\ \A k \in Keys : offloadSessionTable[k] \in
            [client : Nat, tuple : Tuples \cup TuplesV6, stamp : 1 .. inserted,
             state : {"_ESTABLISHED", "_CLOSED"},
             code : {"_NOT_CLOSED", "_TIMEOUT", "_FINACK"}]
    /\ lastSessionId \in 1 .. maxSessionId /\ inserted \in Nat
    /\ call.op \in {"idle", "addSession", "getSession", "getAllSessions",
                    "getClosedSessions", "returned"}
    /\ traffic \in [pc : {"sleep", "walk", "closing", "dead"},
                    size : 0 .. maxSessionId - 1, at : 0 .. inserted]
    /\ sessionTable \in [DOMAIN sessionTable -> BOOLEAN] /\ lastId \in Nat
    /\ step \in DOMAIN After \cup {"failed"} /\ received \subseteq 1 .. inserted

\* The two tables agree, at every moment: the ids the firewall has as offloaded are
\* those of the device's sessions, of the closed ones on their way to it, and, in an
\* add call, of the requests the device has still to answer and the refusals the
\* firewall has still to hear of.  run() fetches an offloaded session in the belief
\* that this is so.
TablesAgree ==
    Offloaded = Clients
        \cup (IF step = "closed" \/ Adding THEN IdsOf(reply) ELSE {})
        \cup (IF call.op = "addSession"
              THEN IdsOf(call.requests) \cup IdsOf(call.errors) ELSE {})

\* A client id is on one session of the device, and every session the device ever
\* took is in exactly one place: in its dictionary, on its way to the firewall, or
\* received, however the traffic closes sessions while getClosedSessions walks.
OneSessionOnePlace ==
    /\ \A k, l \in Keys : offloadSessionTable[k].client = offloadSessionTable[l].client
                               => k = l
    /\ Stamps \cup OnTheWay \cup received = 1 .. inserted
    /\ Cardinality(Stamps) = Cardinality(Keys)
    /\ step = "closed" => IsInjective([i \in DOMAIN reply |-> reply[i].stamp])
    /\ received \cap (Stamps \cup OnTheWay) = {}
    /\ Stamps \cap OnTheWay = {}

\* The firewall's process never ends: it ends at the first getSession of a session
\* the device does not have, since nothing in run() catches the error.
FetchFinds == step # "failed"

\* A request is refused for a reason: the dictionary then has the tuple, or has all
\* the sessions it can have.  The search for a key gives up only after it has tried
\* every one, wherever it began.
RefusedForAReason ==
    [][call.op = "addSession" /\ call'.op = "addSession" /\ call'.errors # call.errors =>
          \A e \in Range(call'.errors) \ Range(call.errors) :
             \/ e.error = "_SESSION_ALREADY_EXISTS"
                /\ findSessionByTuple(Head(call.requests).tuple) # {}
             \/ e.error = "_SESSION_TABLE_FULL" /\ Cardinality(Keys) = maxSessionId - 1]_vars

\* A session that was closed is reported to the firewall, whatever else is in the
\* table, and also when the traffic's thread has ended.
ClosedIsReported ==
    \A s \in 1 .. MaxAdds :
        (\E k \in Keys : offloadSessionTable[k].stamp = s
                         /\ offloadSessionTable[k].state = "_CLOSED")
            ~> (s \in received)
=============================================================================
