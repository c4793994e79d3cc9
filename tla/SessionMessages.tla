----------------------------- MODULE SessionMessages -----------------------------
(***************************************************************************)
(* The messages of one client and the server: the C structs of opof.h, the *)
(* protobuf messages of openoffload.proto, and the conversions of          *)
(* opof_util.cc between them in the client calls of opof_session_client.cc *)
(* and the handlers of opof_session_server.cc.                             *)
(*                                                                         *)
(* An add stream converts every request into ONE protobuf object on the    *)
(* client and into ONE struct on the server, and a conversion sets only    *)
(* the address fields of the request's own IP version.  The statistics,    *)
(* ports and interfaces, which every conversion copies, are left out.      *)
(***************************************************************************)
EXTENDS Integers, Sequences, FiniteSets, Functions, SequencesExt

CONSTANTS
    Ids,             \* session ids the client uses, unsigned long
    Addresses,       \* what an address field can hold
    INT_MOD,         \* number of values of an int
    ULONG_MOD,       \* number of values of an unsigned long
    HASHTABLE_SIZE,  \* opof_hash.h
    BUFFER_MAX,      \* opof.h: errors a response struct has room for
    MaxBatch         \* bound: requests in one add stream

ASSUME IdsAssumption == Ids \subseteq 0 .. ULONG_MOD - 1
ASSUME SizeAssumption == /\ HASHTABLE_SIZE \in Nat
                         /\ BUFFER_MAX \in Nat
                         /\ MaxBatch \in Nat
                         /\ INT_MOD \in Nat \ {0}
                         /\ ULONG_MOD \in Nat \ {0}

VARIABLES
    table,      \* the server's records, by session id
    op,         \* the call in progress
    arg,        \* its session id
    sent,       \* the array of requests of an add call, as far as written
    request,    \* the client's protobuf request object
    wire,       \* written and not yet read
    wdone,      \* WritesDone was called
    serving,    \* the handler of the add call has not returned
    request_c,  \* the handler's request struct
    handed,     \* what opof_add_session_server was called with
    refused,    \* the errors in the handler's response, codes of opof.h
    resp,       \* what the client has when the call returns, or NoResp
    ub          \* "none", or the undefined behaviour that was met

handler == <<serving, request_c, handed, refused>>
vars == <<table, op, arg, sent, request, wire, wdone, handler, resp, ub>>

-----------------------------------------------------------------------------
(* The structs and messages. *)

\* SESSION_STATUS_T, by code from 0 up; gRPC's StatusCode has the same numbers
SESSION_STATUS_T ==
    << "_OK", "_CANCELLED", "_UNKNOWN", "_INVALID_ARGUMENT", "_DEADLINE_EXCEEDED",
       "_NOT_FOUND", "_ALREADY_EXISTS", "_PERMISSION_DENIED", "_RESOURCE_EXHAUSTED",
       "_FAILED_PRECONDITION", "_ABORTED", "_OUT_OF_RANGE", "_UNIMPLEMENTED",
       "_INTERNAL", "_UNAVAILABLE", "_DATA_LOSS", "_UNAUTHENTICATED" >>

Code(name) == CHOOSE n \in 0 .. 16 : SESSION_STATUS_T[n + 1] = name

\* getStatusCode
StatusName(code) ==
    IF code \in 0 .. 16 THEN SESSION_STATUS_T[code + 1] ELSE "INVALID ERROR CODE"

\* mutation: one of the codes the server refuses with has no name
AddErrorNameShort(code) ==
    IF code \in {0, 2, 6} THEN SESSION_STATUS_T[code + 1] ELSE "INVALID ERROR CODE"

\* getAddResponseError
AddErrorName(code) ==
    IF code \in {0, 2, 6, 8} THEN SESSION_STATUS_T[code + 1] ELSE "INVALID ERROR CODE"

\* SESSION_STATE_T, SESSION_CLOSE_T and REQUEST_STATUS_T, by code
SESSION_STATE_T == <<"_ESTABLISHED", "_CLOSING_1", "_CLOSING_2", "_CLOSED",
                     "_UNKNOWN_STATE">>
SESSION_CLOSE_T == <<"_NOT_CLOSED", "_FINACK", "_RST", "_TIMEOUT",
                     "_UNKNOWN_CLOSE_CODE">>
REQUEST_STATUS_T == <<"_ACCEPTED", "_REJECTED", "_REJECTED_SESSION_NONEXISTENT",
                      "_REJECTED_SESSION_TABLE_FULL",
                      "_REJECTED_SESSION_ALREADY_EXISTS", "_NO_CLOSED_SESSIONS",
                      "_REJECTED_INTERNAL_ERROR">>

\* an address no assignment has reached: malloc, stack or protobuf default
Unset == <<"unset", 0>>

Fields == {"src", "dst"}
NoAddresses == [f \in Fields |-> Unset]

\* the addresses of a request name their field, so that a swap would be seen
Filled(a) == [f \in Fields |-> <<f, a>>]

\* sessionRequest_t: an IPv4 request leaves the IPv6 fields as malloc gave them ...
CreateSessionRequest(id, a) ==
    [sessId |-> id, ipver |-> "_IPV4", ip |-> Filled(a), ipv6 |-> NoAddresses,
     nextHop |-> <<"hop", a>>, nextHopV6 |-> Unset]

\* ... and an IPv6 request the IPv4 fields
CreateSessionRequest6(id, a) ==
    [sessId |-> id, ipver |-> "_IPV6", ip |-> NoAddresses, ipv6 |-> Filled(a),
     nextHop |-> Unset, nextHopV6 |-> <<"hop", a>>]

NoRequestC == [sessId |-> 0, ipver |-> "_IPV4", ip |-> NoAddresses,
               ipv6 |-> NoAddresses, nextHop |-> Unset, nextHopV6 |-> Unset]

\* the protobuf request as constructed
NoRequest == [sessionId |-> 0, ipVersion |-> "_IPV4", ip |-> NoAddresses,
              ipv6 |-> NoAddresses,
              action |-> [nextHop |-> Unset, nextHopV6 |-> Unset]]

\* mutation: the session id is not set
ToCppNoId(c, m) ==
    [m EXCEPT !.ipVersion = c.ipver,
              !.ip = IF c.ipver = "_IPV6" THEN @ ELSE c.ip,
              !.ipv6 = IF c.ipver = "_IPV6" THEN c.ipv6 ELSE @]

\* convertSessionRequest2cpp into an object that may hold an earlier request: the
\* action is a new object, the other version's addresses stay as they were
ConvertSessionRequest2cpp(c, m) ==
    [m EXCEPT !.sessionId = c.sessId,
              !.ipVersion = c.ipver,
              !.ip = IF c.ipver = "_IPV6" THEN @ ELSE c.ip,
              !.ipv6 = IF c.ipver = "_IPV6" THEN c.ipv6 ELSE @,
              !.action = IF c.ipver = "_IPV6"
                         THEN [nextHop |-> Unset, nextHopV6 |-> c.nextHopV6]
                         ELSE [nextHop |-> c.nextHop, nextHopV6 |-> Unset]]

\* mutation: the struct's version is looked at before it is set
ToCOldVersion(m, c) ==
    [c EXCEPT !.sessId = m.sessionId,
              !.ipver = m.ipVersion,
              !.ip = IF c.ipver = "_IPV6" THEN @ ELSE m.ip,
              !.ipv6 = IF c.ipver = "_IPV6" THEN m.ipv6 ELSE @,
              !.nextHop = IF c.ipver = "_IPV6" THEN @ ELSE m.action.nextHop,
              !.nextHopV6 = IF c.ipver = "_IPV6" THEN m.action.nextHopV6 ELSE @]

\* convertSessionRequest2c into the struct of the handler
ConvertSessionRequest2c(m, c) ==
    [c EXCEPT !.sessId = m.sessionId,
              !.ipver = m.ipVersion,
              !.ip = IF m.ipVersion = "_IPV6" THEN @ ELSE m.ip,
              !.ipv6 = IF m.ipVersion = "_IPV6" THEN m.ipv6 ELSE @,
              !.nextHop = IF m.ipVersion = "_IPV6" THEN @ ELSE m.action.nextHop,
              !.nextHopV6 = IF m.ipVersion = "_IPV6" THEN m.action.nextHopV6 ELSE @]

\* convertSessionResponse2cpp and convertSessionResponse2c: codes, in both directions
Encode(r) ==
    [sessionId |-> r.sessionId,
     sessionState |-> CHOOSE n \in 0 .. 4 : SESSION_STATE_T[n + 1] = r.sessionState,
     sessionCloseCode |->
         CHOOSE n \in 0 .. 4 : SESSION_CLOSE_T[n + 1] = r.sessionCloseCode,
     requestStatus |->
         CHOOSE n \in 0 .. 6 : REQUEST_STATUS_T[n + 1] = r.requestStatus]

Decode(m) ==
    [sessionId |-> m.sessionId,
     sessionState |-> SESSION_STATE_T[m.sessionState + 1],
     sessionCloseCode |-> SESSION_CLOSE_T[m.sessionCloseCode + 1],
     requestStatus |-> REQUEST_STATUS_T[m.requestStatus + 1]]

\* the response of a call that brought none: every field is 0
EmptyResponse == [sessionId |-> 0, sessionState |-> 0,
                  sessionCloseCode |-> 0, requestStatus |-> 0]

\* an unsigned long passed as an int, and that int stored in a uint64
AsInt(n) == LET low == n % INT_MOD
            IN IF low < INT_MOD \div 2 THEN low ELSE low - INT_MOD
AsUint64(i) == i % ULONG_MOD

-----------------------------------------------------------------------------
NoResp == [status |-> -1, errors |-> <<>>, list |-> <<>>]

Init ==
    /\ table = <<>>
    /\ op = "none" /\ arg = 0
    /\ sent = <<>> /\ request = NoRequest
    /\ wire = <<>> /\ wdone = FALSE
    /\ serving = FALSE /\ request_c = NoRequestC
    /\ handed = <<>> /\ refused = <<>>
    /\ resp = NoResp
    /\ ub = "none"

InCall(o) == ub = "none" /\ op = o /\ resp = NoResp

\* the call returns to the user of the library
Return(status, errors, list) ==
    resp' = [status |-> status, errors |-> errors, list |-> list]

(* addSessionClient and addSession. *)

CallAdd ==
    /\ ub = "none" /\ op = "none"
    /\ op' = "add"
    /\ serving' = TRUE
    /\ UNCHANGED <<table, arg, sent, request, wire, wdone, request_c, handed,
                   refused, resp, ub>>

\* the next request of the array is converted and written
ClientWrite(c) ==
    /\ InCall("add")
    /\ ~wdone
    /\ Len(sent) < MaxBatch
    /\ sent' = Append(sent, c)
    /\ request' = ConvertSessionRequest2cpp(c, request)
    /\ wire' = Append(wire, request')
    /\ UNCHANGED <<table, op, arg, wdone, handler, resp, ub>>

WritesDone ==
    /\ InCall("add")
    /\ ~wdone
    /\ wdone' = TRUE
    /\ UNCHANGED <<table, op, arg, sent, request, wire, handler, resp, ub>>

Refusal(c) ==
    IF Cardinality(DOMAIN table) > HASHTABLE_SIZE THEN "_RESOURCE_EXHAUSTED"
    ELSE IF c.sessId \in DOMAIN table THEN "_ALREADY_EXISTS"
    ELSE "_OK"

\* mutation: the destination goes into the source field
NewRecordSwapped(c) ==
    [ipVersion |-> c.ipver, sourceIp |-> c.ip["dst"], dstIp |-> c.ip["src"]]

\* opof_add_session_server copies the IPv4 addresses of whatever it is given
NewRecord(c) == [ipVersion |-> c.ipver, sourceIp |-> c.ip["src"], dstIp |-> c.ip["dst"]]

\* Read parses the message into an object it clears first; then the struct is
\* filled, and the request entered or its refusal noted
ServerRead ==
    /\ ub = "none"
    /\ serving
    /\ wire # <<>>
    /\ wire' = Tail(wire)
    /\ request_c' = ConvertSessionRequest2c(Head(wire), request_c)
    /\ handed' = Append(handed, request_c')
    /\ LET id == Head(wire).sessionId
           why == Refusal(request_c')
       IN IF why = "_OK"
          THEN /\ table' = [i \in DOMAIN table \cup {id} |->
                              IF i = id THEN NewRecord(request_c') ELSE table[i]]
               /\ UNCHANGED refused
          ELSE /\ refused' = Append(refused, [sessionId |-> id,
                                              errorStatus |-> Code(why)])
               /\ UNCHANGED table
    /\ UNCHANGED <<op, arg, sent, request, wdone, serving, resp, ub>>

\* mutation: one error too few fits
ConvertErrorsStrict(errors) ==
    IF Len(errors) >= BUFFER_MAX
    THEN ub' = "overflow" /\ UNCHANGED resp
    ELSE Return(Code("_OK"), <<>>, <<>>) /\ UNCHANGED ub

\* convertAddSessionResponse2c, into an array of BUFFER_MAX errors; then the caller
\* prints the names of the errors
ConvertAddSessionResponse2c(errors) ==
    IF Len(errors) > BUFFER_MAX
    THEN ub' = "overflow" /\ UNCHANGED resp
    ELSE /\ Return(Code("_OK"),
                   [i \in DOMAIN errors |->
                      [sessionId |-> errors[i].sessionId,
                       error |-> AddErrorName(errors[i].errorStatus)]],
                   <<>>)
         /\ UNCHANGED ub

\* the handler returns at the end of the stream, and Finish has its response
ServerFinish ==
    /\ InCall("add")
    /\ serving /\ wdone /\ wire = <<>>
    /\ serving' = FALSE
    /\ ConvertAddSessionResponse2c(refused)
    /\ UNCHANGED <<table, op, arg, sent, request, wire, wdone, request_c, handed,
                   refused>>

\* the deadline of the client passes: Finish has a status and no response
Deadline ==
    /\ InCall("add")
    /\ Return(Code("_DEADLINE_EXCEEDED"), <<>>, <<>>)
    /\ UNCHANGED <<table, op, arg, sent, request, wire, wdone, handler, ub>>

\* its handler, which may go on reading what was written, notices
ServerStop ==
    /\ ub = "none"
    /\ serving
    /\ resp # NoResp
    /\ serving' = FALSE
    /\ UNCHANGED <<table, op, arg, sent, request, wire, wdone, request_c, handed,
                   refused, resp, ub>>

-----------------------------------------------------------------------------
(* getSessionClient and deleteSessionClient with their handlers. *)

CallOne(o) ==
    /\ ub = "none" /\ op = "none"
    /\ op' = o
    /\ \E id \in Ids : arg' = id
    /\ UNCHANGED <<table, sent, request, wire, wdone, handler, resp, ub>>

\* mutation: the message is sent as it was constructed
SidUnset(id) == 0

\* the sessionId message: the id is passed to the client call as an int
Sid(id) == AsUint64(AsInt(id))

\* the session's record, converted on both sides, or a status and an empty response
Answer(id) ==
    IF id \in DOMAIN table
    THEN Return(Code("_OK"), <<>>,
                <<Decode(Encode([sessionId |-> id, sessionState |-> "_CLOSED",
                                 sessionCloseCode |-> "_NOT_CLOSED",
                                 requestStatus |-> "_ACCEPTED"]))>>)
    ELSE Return(Code("_NOT_FOUND"), <<>>, <<Decode(EmptyResponse)>>)

Get ==
    /\ InCall("get")
    /\ Answer(Sid(arg))
    /\ UNCHANGED <<table, op, arg, sent, request, wire, wdone, handler, ub>>

Delete ==
    /\ InCall("del")
    /\ Answer(Sid(arg))
    /\ table' = Restrict(table, DOMAIN table \ {Sid(arg)})
    /\ UNCHANGED <<op, arg, sent, request, wire, wdone, handler, ub>>

\* the user has read the response, and the handler is over; a next call has
\* protobuf objects and structs of its own
Done ==
    /\ ub = "none"
    /\ resp # NoResp /\ ~serving
    /\ op' = "none" /\ arg' = 0
    /\ sent' = <<>> /\ request' = NoRequest
    /\ wire' = <<>> /\ wdone' = FALSE
    /\ request_c' = NoRequestC /\ handed' = <<>> /\ refused' = <<>>
    /\ resp' = NoResp
    /\ UNCHANGED <<table, serving, ub>>

Requests == {CreateSessionRequest(id, a) : id \in Ids, a \in Addresses}
              \cup {CreateSessionRequest6(id, a) : id \in Ids, a \in Addresses}

Next ==
    \/ CallAdd \/ CallOne("get") \/ CallOne("del")
    \/ \E c \in Requests : ClientWrite(c)
    \/ WritesDone \/ ServerRead \/ ServerFinish \/ Deadline \/ ServerStop
    \/ Get \/ Delete \/ Done

Spec == Init /\ [][Next]_vars

-----------------------------------------------------------------------------
\* The types of the messages and of the table, whose records are those of session
\* ids some client wrote: what the conversions of opof_util.cc carry.
MessagesTypeOK ==
    /\ op \in {"none", "add", "get", "del"}
    /\ arg \in Ids \cup {0}
    /\ DOMAIN table \subseteq Ids
    /\ sent \in Seq(Requests)
    /\ \A i \in DOMAIN wire : wire[i].sessionId \in Ids
    /\ \A i \in DOMAIN refused : refused[i].errorStatus \in 0 .. 16
    /\ resp.status \in -1 .. 16
    /\ ub \in {"none", "overflow"}

\* opof_util.cc:44 and opof_util.cc:133: although one object on the client and one
\* struct on the server serve a whole stream of IPv4 and IPv6 requests, the n-th
\* request handed to opof_add_session_server has the id, the version and, for that
\* version, the addresses and the next hop of the n-th request of the caller.
RequestsArrive ==
    \A i \in DOMAIN handed :
      LET c == sent[i]
      IN /\ handed[i].sessId = c.sessId
         /\ handed[i].ipver = c.ipver
         /\ IF c.ipver = "_IPV6"
            THEN handed[i].ipv6 = c.ipv6 /\ handed[i].nextHopV6 = c.nextHopV6
            ELSE handed[i].ip = c.ip /\ handed[i].nextHop = c.nextHop

\* opof_server_test.c:172: a record is entered for the request at hand, and an IPv4
\* record has that request's addresses whatever the struct held before.
EnteredAsAsked ==
    [][\A id \in DOMAIN table' \ DOMAIN table :
         LET c == sent[Len(handed')]
         IN /\ id = c.sessId
            /\ table'[id].ipVersion = c.ipver
            /\ c.ipver = "_IPV4" =>
                 /\ table'[id].sourceIp = c.ip["src"]
                 /\ table'[id].dstIp = c.ip["dst"]]_vars

\* opof_util.cc:87 and getAddResponseError: after an add call that ended with _OK
\* the errors the caller prints account for every request of its array: a session
\* that is not in the table is named as refused for capacity, and one named as
\* existing is in it.
RefusalsAreReported ==
    op = "add" /\ StatusName(resp.status) = "_OK" =>
      /\ \A c \in Range(sent) :
           c.sessId \notin DOMAIN table =>
             [sessionId |-> c.sessId, error |-> "_RESOURCE_EXHAUSTED"]
               \in Range(resp.errors)
      /\ \A e \in Range(resp.errors) :
           /\ \E c \in Range(sent) : c.sessId = e.sessionId
           /\ \/ e.error = "_RESOURCE_EXHAUSTED"
              \/ e.error = "_ALREADY_EXISTS" /\ e.sessionId \in DOMAIN table

\* opof_util.cc:92 fills sessionErrors[BUFFER_MAX] without a bound: it is overrun
\* only by a caller that leaves the limit of opof_clientlib.cc:92 (64 a call).
OverflowNeedsALongBatch == ub = "overflow" => Len(sent) > BUFFER_MAX

\* opof_session_client.cc:100 and opof_session_client.cc:124: a get or delete call
\* for an id that an int can hold is answered for that session, says _NOT_FOUND
\* only when the server does not have it, and a delete removes it and no other.
\* For an id of more bits the call is about another session.
AnswersAreAboutTheSession ==
    [][(/\ resp = NoResp /\ resp' # NoResp
        /\ op \in {"get", "del"}
        /\ arg < INT_MOD \div 2) =>
       IF StatusName(resp'.status) = "_OK"
       THEN /\ arg \in DOMAIN table
            /\ resp'.list[1].sessionId = arg
            /\ DOMAIN table' = DOMAIN table \ (IF op = "del" THEN {arg} ELSE {})
       ELSE /\ StatusName(resp'.status) = "_NOT_FOUND"
            /\ arg \notin DOMAIN table
            /\ table' = table]_vars
=============================================================================
