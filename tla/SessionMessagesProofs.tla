-------------------------- MODULE SessionMessagesProofs --------------------------
(***************************************************************************)
(* The conversions of opof_util.cc carry every request and every answer,   *)
(* for any ids, addresses, widths and bounds: what one client asks in one  *)
(* stream, or of one session, is what the server does and answers.         *)
(***************************************************************************)
EXTENDS SessionMessages, SequenceTheorems, TLAPS

-----------------------------------------------------------------------------
(* The types of the messages. *)

Versions == {"_IPV4", "_IPV6"}
Values == {Unset} \cup ((Fields \cup {"hop"}) \X Addresses)
Address == [Fields -> Values]

CRequest ==
    [sessId : Ids \cup {0}, ipver : Versions, ip : Address, ipv6 : Address,
     nextHop : Values, nextHopV6 : Values]

Action == [nextHop : Values, nextHopV6 : Values]

CppRequest ==
    [sessionId : Ids \cup {0}, ipVersion : Versions, ip : Address, ipv6 : Address,
     action : Action]

\* a message on the wire carries the caller's request: the id, the version, and
\* what belongs to that version
Carries(m, c) ==
    /\ m.sessionId = c.sessId
    /\ m.ipVersion = c.ipver
    /\ IF c.ipver = "_IPV6"
       THEN m.ipv6 = c.ipv6 /\ m.action.nextHopV6 = c.nextHopV6
       ELSE m.ip = c.ip /\ m.action.nextHop = c.nextHop

\* the struct handed to the server function is about the caller's request
Same(h, c) ==
    /\ h.sessId = c.sessId
    /\ h.ipver = c.ipver
    /\ IF c.ipver = "_IPV6"
       THEN h.ipv6 = c.ipv6 /\ h.nextHopV6 = c.nextHopV6
       ELSE h.ip = c.ip /\ h.nextHop = c.nextHop

\* createSessionRequest and createSessionRequest6 fill structs.
LEMMA RequestsAreStructs ==
    \A c \in Requests : c \in CRequest /\ c.sessId \in Ids
<1>1. NoAddresses \in Address /\ Unset \in Values
  BY DEF NoAddresses, Address, Values
<1>2. \A a \in Addresses : Filled(a) \in Address /\ <<"hop", a>> \in Values
  BY DEF Filled, Address, Values
<1>3. \A id \in Ids, a \in Addresses :
        /\ CreateSessionRequest(id, a) \in CRequest
        /\ CreateSessionRequest(id, a).sessId = id
  BY <1>1, <1>2 DEF CreateSessionRequest, CRequest, Versions
<1>4. \A id \in Ids, a \in Addresses :
        /\ CreateSessionRequest6(id, a) \in CRequest
        /\ CreateSessionRequest6(id, a).sessId = id
  BY <1>1, <1>2 DEF CreateSessionRequest6, CRequest, Versions
<1> QED
  BY <1>3, <1>4 DEF Requests

\* The objects of a new call have their types.
LEMMA NewObjects == NoRequest \in CppRequest /\ NoRequestC \in CRequest
<1>1. NoAddresses \in Address /\ Unset \in Values
  BY DEF NoAddresses, Address, Values
<1> QED
  BY <1>1 DEF NoRequest, NoRequestC, CppRequest, CRequest, Versions, Action

\* convertSessionRequest2cpp makes a message that carries the request, whatever
\* the object held before.
LEMMA ToCppCarries ==
    ASSUME NEW c \in CRequest, NEW m \in CppRequest
    PROVE  /\ ConvertSessionRequest2cpp(c, m) \in CppRequest
           /\ Carries(ConvertSessionRequest2cpp(c, m), c)
<1>1. Unset \in Values
  BY DEF Values
<1> QED
  BY <1>1 DEF ConvertSessionRequest2cpp, CppRequest, CRequest, Carries, Action, Versions

\* convertSessionRequest2c makes a struct about the request its message carries,
\* whatever the struct held before.
LEMMA ToCSame ==
    ASSUME NEW m \in CppRequest, NEW h \in CRequest
    PROVE  /\ ConvertSessionRequest2c(m, h) \in CRequest
           /\ ConvertSessionRequest2c(m, h).sessId = m.sessionId
           /\ \A c \in CRequest : Carries(m, c) => Same(ConvertSessionRequest2c(m, h), c)
BY DEF ConvertSessionRequest2c, CppRequest, CRequest, Carries, Same, Action, Versions

-----------------------------------------------------------------------------
(* Codes and names. *)

\* The codes of the statuses that the handlers use.
LEMMA Codes ==
    /\ Code("_OK") = 0 /\ Code("_DEADLINE_EXCEEDED") = 4 /\ Code("_NOT_FOUND") = 5
    /\ Code("_ALREADY_EXISTS") = 6 /\ Code("_RESOURCE_EXHAUSTED") = 8
<1> DEFINE S == SESSION_STATUS_T
<1>1. /\ S[1] = "_OK" /\ S[2] = "_CANCELLED" /\ S[3] = "_UNKNOWN"
      /\ S[4] = "_INVALID_ARGUMENT" /\ S[5] = "_DEADLINE_EXCEEDED"
      /\ S[6] = "_NOT_FOUND" /\ S[7] = "_ALREADY_EXISTS"
      /\ S[8] = "_PERMISSION_DENIED" /\ S[9] = "_RESOURCE_EXHAUSTED"
      /\ S[10] = "_FAILED_PRECONDITION" /\ S[11] = "_ABORTED"
      /\ S[12] = "_OUT_OF_RANGE" /\ S[13] = "_UNIMPLEMENTED"
      /\ S[14] = "_INTERNAL" /\ S[15] = "_UNAVAILABLE"
      /\ S[16] = "_DATA_LOSS" /\ S[17] = "_UNAUTHENTICATED"
  BY DEF SESSION_STATUS_T
<1>2. \A n \in 0 .. 16 : n \in {0, 1, 2, 3, 4, 5, 6, 7, 8, 9, 10, 11, 12, 13, 14, 15, 16}
  OBVIOUS
<1> HIDE DEF S
<1>3. /\ \A n \in 0 .. 16 : S[n + 1] = "_OK" => n = 0
      /\ \A n \in 0 .. 16 : S[n + 1] = "_DEADLINE_EXCEEDED" => n = 4
      /\ \A n \in 0 .. 16 : S[n + 1] = "_NOT_FOUND" => n = 5
      /\ \A n \in 0 .. 16 : S[n + 1] = "_ALREADY_EXISTS" => n = 6
      /\ \A n \in 0 .. 16 : S[n + 1] = "_RESOURCE_EXHAUSTED" => n = 8
  BY <1>1, <1>2
<1> QED
  BY <1>1, <1>3 DEF Code, S

\* Each of these codes has its name back.
LEMMA Names ==
    /\ StatusName(0) = "_OK" /\ StatusName(5) = "_NOT_FOUND"
    /\ \A n \in -1 .. 16 : StatusName(n) = "_OK" => n = 0
    /\ AddErrorName(6) = "_ALREADY_EXISTS" /\ AddErrorName(8) = "_RESOURCE_EXHAUSTED"
<1> DEFINE S == SESSION_STATUS_T
<1>1. /\ S[1] = "_OK" /\ S[2] = "_CANCELLED" /\ S[3] = "_UNKNOWN"
      /\ S[4] = "_INVALID_ARGUMENT" /\ S[5] = "_DEADLINE_EXCEEDED"
      /\ S[6] = "_NOT_FOUND" /\ S[7] = "_ALREADY_EXISTS"
      /\ S[8] = "_PERMISSION_DENIED" /\ S[9] = "_RESOURCE_EXHAUSTED"
      /\ S[10] = "_FAILED_PRECONDITION" /\ S[11] = "_ABORTED"
      /\ S[12] = "_OUT_OF_RANGE" /\ S[13] = "_UNIMPLEMENTED"
      /\ S[14] = "_INTERNAL" /\ S[15] = "_UNAVAILABLE"
      /\ S[16] = "_DATA_LOSS" /\ S[17] = "_UNAUTHENTICATED"
  BY DEF SESSION_STATUS_T
<1>2. \A n \in -1 .. 16 :
        n \in {-1, 0, 1, 2, 3, 4, 5, 6, 7, 8, 9, 10, 11, 12, 13, 14, 15, 16}
  OBVIOUS
<1> HIDE DEF S
<1>3. \A n \in 0 .. 16 : S[n + 1] = "_OK" => n = 0
  BY <1>1, <1>2
<1> QED
  BY <1>1, <1>3 DEF StatusName, AddErrorName, S

\* An id that an int can hold passes through the client call unchanged.
LEMMA SidOfSmallId ==
    ASSUME NEW id \in Ids, id < INT_MOD \div 2
    PROVE  Sid(id) = id
<1>1. id \in Nat /\ id < ULONG_MOD /\ ULONG_MOD \in Nat \ {0} /\ INT_MOD \in Nat \ {0}
  BY IdsAssumption, SizeAssumption
<1>2. INT_MOD \div 2 <= INT_MOD /\ INT_MOD \div 2 \in Nat
  BY <1>1
<1>3. id < INT_MOD
  BY <1>1, <1>2
<1>4. id % INT_MOD = id
  BY <1>1, <1>3
<1>5. id % ULONG_MOD = id
  BY <1>1
<1> QED
  BY <1>4, <1>5 DEF Sid, AsInt, AsUint64

-----------------------------------------------------------------------------
(* The invariant. *)

Refused == [sessionId : Ids, errorStatus : 0 .. 16]

\* the variables and their types
Types ==
    /\ op \in {"none", "add", "get", "del"}
    /\ arg \in Ids \cup {0}
    /\ op \in {"get", "del"} => arg \in Ids
    /\ DOMAIN table \subseteq Ids /\ table = [id \in DOMAIN table |-> table[id]]
    /\ sent \in Seq(Requests)
    /\ request \in CppRequest /\ request_c \in CRequest
    /\ wire \in Seq(CppRequest) /\ \A i \in 1 .. Len(wire) : wire[i].sessionId \in Ids
    /\ handed \in Seq(CRequest)
    /\ refused \in Seq(Refused)
    /\ resp.status \in -1 .. 16
    /\ ub \in {"none", "overflow"}

\* the requests handed to the server function, then those on the wire, are those
\* sent, in their order
InOrder ==
    /\ Len(sent) = Len(handed) + Len(wire)
    /\ \A i \in 1 .. Len(handed) : Same(handed[i], sent[i])
    /\ \A i \in 1 .. Len(wire) : Carries(wire[i], sent[Len(handed) + i])

\* a request has at most one error, and an overflow at least BUFFER_MAX + 1 errors
Refusals ==
    /\ Len(refused) <= Len(handed)
    /\ ub = "overflow" => Len(refused) > BUFFER_MAX

MInv == Types /\ InOrder /\ Refusals

\* The initial state has no call and empty streams.
LEMMA InitMInv == Init => MInv
<1> SUFFICES ASSUME Init PROVE MInv
  OBVIOUS
<1>1. DOMAIN table = {} /\ table = [id \in DOMAIN table |-> table[id]]
  <2>1. table = <<>>
    BY DEF Init
  <2> QED
    BY <2>1
<1>2. \A S : <<>> \in Seq(S)
  OBVIOUS
<1>3. Len(sent) = 0 /\ Len(wire) = 0 /\ Len(handed) = 0 /\ Len(refused) = 0
  BY DEF Init
<1>4. resp.status = -1
  BY DEF Init, NoResp
<1>5. Types
  BY <1>1, <1>2, <1>3, <1>4, NewObjects DEF Init, Types
<1>6. InOrder /\ Refusals
  BY <1>3 DEF Init, InOrder, Refusals
<1> QED
  BY <1>5, <1>6 DEF MInv

\* A write appends to what was sent and to the wire.
LEMMA WritePreserves ==
    ASSUME MInv, NEW c \in Requests, ClientWrite(c)
    PROVE  MInv'
<1> USE DEF MInv
<1> DEFINE m == ConvertSessionRequest2cpp(c, request)
<1>1. c \in CRequest /\ c.sessId \in Ids
  BY RequestsAreStructs
<1>2. m \in CppRequest /\ Carries(m, c)
  BY <1>1, ToCppCarries DEF Types
<1>3. m.sessionId \in Ids
  BY <1>1, <1>2 DEF Carries
<1> HIDE DEF m
<1>4. /\ request' = m /\ wire' = Append(wire, m) /\ sent' = Append(sent, c)
      /\ UNCHANGED <<table, op, arg, wdone, serving, request_c, handed, refused, resp, ub>>
  BY DEF ClientWrite, handler, m
<1>5. /\ wire' \in Seq(CppRequest) /\ Len(wire') = Len(wire) + 1
      /\ wire'[Len(wire) + 1] = m /\ \A i \in 1 .. Len(wire) : wire'[i] = wire[i]
  BY <1>2, <1>4 DEF Types
<1>6. /\ sent' \in Seq(Requests) /\ Len(sent') = Len(sent) + 1
      /\ sent'[Len(sent) + 1] = c /\ \A i \in 1 .. Len(sent) : sent'[i] = sent[i]
  BY <1>4 DEF Types
<1>7. Types'
  BY <1>2, <1>3, <1>4, <1>5, <1>6 DEF Types
<1>8. InOrder'
  <2>1. Len(wire) \in Nat /\ Len(handed) \in Nat /\ Len(sent) = Len(handed) + Len(wire)
    BY DEF Types, InOrder
  <2>2. Len(sent') = Len(handed') + Len(wire')
    BY <1>4, <1>5, <1>6, <2>1
  <2>3. \A i \in 1 .. Len(handed') : Same(handed'[i], sent'[i])
    BY <1>4, <1>6, <2>1 DEF InOrder
  <2>4. ASSUME NEW i \in 1 .. Len(wire')
        PROVE  Carries(wire'[i], sent'[Len(handed') + i])
    <3>1. CASE i = Len(wire) + 1
      BY <3>1, <1>2, <1>4, <1>5, <1>6, <2>1
    <3>2. CASE i \in 1 .. Len(wire)
      <4>1. wire'[i] = wire[i] /\ sent'[Len(handed') + i] = sent[Len(handed) + i]
        BY <3>2, <1>4, <1>5, <1>6, <2>1
      <4> QED
        BY <3>2, <4>1 DEF InOrder
    <3> QED
      BY <3>1, <3>2, <1>5, <2>1
  <2> QED
    BY <2>2, <2>3, <2>4 DEF InOrder
<1>9. Refusals'
  BY <1>4 DEF Refusals
<1> QED
  BY <1>7, <1>8, <1>9

\* A read moves the request at the head of the wire to those handed over.
LEMMA ReadPreserves ==
    ASSUME MInv, ServerRead
    PROVE  MInv'
<1> USE DEF MInv
<1> DEFINE m == Head(wire)
           h == ConvertSessionRequest2c(m, request_c)
<1>1. /\ wire # <<>> /\ Len(wire) \in Nat \ {0} /\ m = wire[1]
      /\ m \in CppRequest /\ m.sessionId \in Ids
  <2>1. wire # <<>> /\ wire \in Seq(CppRequest)
    BY DEF ServerRead, Types
  <2>2. Len(wire) \in Nat \ {0} /\ m = wire[1] /\ m \in CppRequest
    BY <2>1
  <2> QED
    BY <2>1, <2>2 DEF Types
<1>2. h \in CRequest /\ \A c \in CRequest : Carries(m, c) => Same(h, c)
  BY <1>1, ToCSame DEF Types
<1> HIDE DEF h
<1>3. /\ wire' = Tail(wire) /\ request_c' = h /\ handed' = Append(handed, h)
      /\ UNCHANGED <<op, arg, sent, request, wdone, serving, resp, ub>>
      /\ ub = "none"
  BY DEF ServerRead, h
<1>4. /\ wire' \in Seq(CppRequest) /\ Len(wire') = Len(wire) - 1
      /\ \A i \in 1 .. Len(wire') : wire'[i] = wire[i + 1]
  BY <1>1, <1>3 DEF Types
<1>5. /\ handed' \in Seq(CRequest) /\ Len(handed') = Len(handed) + 1
      /\ handed'[Len(handed) + 1] = h
      /\ \A i \in 1 .. Len(handed) : handed'[i] = handed[i]
  BY <1>2, <1>3 DEF Types
<1>6. /\ DOMAIN table' \subseteq DOMAIN table \cup {m.sessionId}
      /\ table' = [id \in DOMAIN table' |-> table'[id]]
      /\ refused' \in Seq(Refused)
      /\ Len(refused') <= Len(refused) + 1
  <2>1. CASE Refusal(request_c') = "_OK"
    BY <2>1 DEF ServerRead, Types
  <2>2. CASE Refusal(request_c') # "_OK"
    <3>1. Code(Refusal(request_c')) \in 0 .. 16
      BY <2>2, Codes DEF Refusal
    <3> DEFINE e == [sessionId |-> m.sessionId, errorStatus |-> Code(Refusal(request_c'))]
    <3>2. e \in Refused
      BY <1>1, <3>1 DEF Refused
    <3>3. refused' = Append(refused, e) /\ table' = table
      BY <2>2 DEF ServerRead
    <3> HIDE DEF e
    <3> QED
      BY <3>2, <3>3 DEF Types
  <2> QED
    BY <2>1, <2>2
<1>7. Types'
  BY <1>1, <1>2, <1>3, <1>4, <1>5, <1>6 DEF Types
<1>8. InOrder'
  <2>1. Len(wire) \in Nat /\ Len(handed) \in Nat /\ Len(sent) = Len(handed) + Len(wire)
    BY DEF Types, InOrder
  <2>2. Len(sent') = Len(handed') + Len(wire')
    BY <1>3, <1>4, <1>5, <2>1
  <2>3. ASSUME NEW i \in 1 .. Len(handed')
        PROVE  Same(handed'[i], sent'[i])
    <3>1. CASE i = Len(handed) + 1
      <4>1. Carries(m, sent[i]) /\ i \in 1 .. Len(sent)
        BY <3>1, <1>1, <2>1 DEF InOrder
      <4>2. sent[i] \in CRequest
        BY <4>1, RequestsAreStructs DEF Types
      <4> QED
        BY <3>1, <4>1, <4>2, <1>2, <1>3, <1>5
    <3>2. CASE i \in 1 .. Len(handed)
      BY <3>2, <1>3, <1>5 DEF InOrder
    <3> QED
      BY <3>1, <3>2, <1>5, <2>1
  <2>4. ASSUME NEW i \in 1 .. Len(wire')
        PROVE  Carries(wire'[i], sent'[Len(handed') + i])
    <3>1. i + 1 \in 1 .. Len(wire) /\ Len(handed') + i = Len(handed) + (i + 1)
      BY <1>4, <1>5, <2>1
    <3> QED
      BY <3>1, <1>3, <1>4 DEF InOrder
  <2> QED
    BY <2>2, <2>3, <2>4 DEF InOrder
<1>9. Refusals'
  BY <1>3, <1>5, <1>6 DEF Refusals, Types
<1> QED
  BY <1>7, <1>8, <1>9

\* The handler's return leaves the streams alone; an overflow has its errors.
LEMMA FinishPreserves ==
    ASSUME MInv, ServerFinish
    PROVE  MInv'
<1>1. /\ UNCHANGED <<table, op, arg, sent, request, wire, wdone, request_c, handed, refused>>
      /\ serving' = FALSE /\ ub = "none"
  BY DEF ServerFinish, InCall
<1>2. CASE Len(refused) > BUFFER_MAX
  <2>1. ub' = "overflow" /\ resp' = resp
    BY <1>2 DEF ServerFinish, ConvertAddSessionResponse2c
  <2>2. Types'
    BY <1>1, <2>1 DEF MInv, Types
  <2>3. InOrder'
    BY <1>1 DEF MInv, InOrder
  <2>4. Refusals'
    BY <1>1, <1>2, <2>1 DEF MInv, Refusals
  <2> QED
    BY <2>2, <2>3, <2>4 DEF MInv
<1>3. CASE ~(Len(refused) > BUFFER_MAX)
  <2>1. ub' = ub /\ resp'.status = 0
    BY <1>3, Codes DEF ServerFinish, ConvertAddSessionResponse2c, Return
  <2>2. Types'
    BY <1>1, <2>1 DEF MInv, Types
  <2>3. InOrder' /\ Refusals'
    BY <1>1, <2>1 DEF MInv, InOrder, Refusals
  <2> QED
    BY <2>2, <2>3 DEF MInv
<1> QED
  BY <1>2, <1>3

\* The end of a call leaves every stream empty.
LEMMA DonePreserves ==
    ASSUME MInv, Done
    PROVE  MInv'
BY NewObjects DEF MInv, Types, InOrder, Refusals, Done, NoResp

\* The other steps touch neither the streams nor, but for a removal, the table.
LEMMA OtherStepsPreserve ==
    ASSUME MInv,
           CallAdd \/ CallOne("get") \/ CallOne("del") \/ WritesDone
             \/ Deadline \/ ServerStop \/ Get \/ Delete \/ UNCHANGED vars
    PROVE  MInv'
<1> USE DEF MInv, Types, InOrder, Refusals, handler
<1>1. CASE CallAdd
  BY <1>1 DEF CallAdd
<1>2. ASSUME NEW o \in {"get", "del"}, CallOne(o) PROVE MInv'
  BY <1>2 DEF CallOne
<1>3. CASE WritesDone
  BY <1>3 DEF WritesDone
<1>4. CASE Deadline
  BY <1>4, Codes DEF Deadline, Return
<1>5. CASE ServerStop
  BY <1>5 DEF ServerStop
<1>6. ASSUME NEW id, Answer(id) PROVE resp'.status \in {0, 5}
  BY <1>6, Codes DEF Answer, Return
<1>7. CASE Get
  BY <1>6, <1>7 DEF Get
<1>8. CASE Delete
  <2>1. DOMAIN table' \subseteq DOMAIN table /\ table' = [id \in DOMAIN table' |-> table'[id]]
    BY <1>8 DEF Delete, Restrict
  <2>2. resp'.status \in {0, 5}
    BY <1>6, <1>8 DEF Delete
  <2>3. UNCHANGED <<op, arg, sent, request, wire, wdone, handler, ub>>
    BY <1>8 DEF Delete
  <2>4. Types'
    BY <2>1, <2>2, <2>3
  <2>5. InOrder' /\ Refusals'
    BY <2>3
  <2> QED
    BY <2>4, <2>5
<1>9. CASE UNCHANGED vars
  BY <1>9 DEF vars
<1> QED
  BY <1>1, <1>2, <1>3, <1>4, <1>5, <1>7, <1>8, <1>9

\* The invariant is inductive.
THEOREM MessagesInvariant == Spec => []MInv
<1>1. MInv /\ [Next]_vars => MInv'
  <2> SUFFICES ASSUME MInv, [Next]_vars PROVE MInv'
    OBVIOUS
  <2>1. CASE \E c \in Requests : ClientWrite(c)
    BY <2>1, WritePreserves
  <2>2. CASE ServerRead
    BY <2>2, ReadPreserves
  <2>3. CASE ServerFinish
    BY <2>3, FinishPreserves
  <2>4. CASE Done
    BY <2>4, DonePreserves
  <2> QED
    BY <2>1, <2>2, <2>3, <2>4, OtherStepsPreserve DEF Next
<1> QED
  BY <1>1, InitMInv, PTL DEF Spec

\* The types of messages, answers and table, for any ids and bounds.
THEOREM MessagesTypeCorrect == Spec => []MessagesTypeOK
<1>1. MInv => MessagesTypeOK
  <2> SUFFICES ASSUME MInv PROVE MessagesTypeOK
    OBVIOUS
  <2>1. DOMAIN wire = 1 .. Len(wire) /\ DOMAIN refused = 1 .. Len(refused)
    BY DEF MInv, Types
  <2>2. \A i \in DOMAIN refused : refused[i] \in Refused
    BY <2>1 DEF MInv, Types
  <2>3. \A i \in DOMAIN refused : refused[i].errorStatus \in 0 .. 16
    BY <2>2 DEF Refused
  <2> QED
    BY <2>1, <2>3 DEF MInv, Types, MessagesTypeOK
<1> QED
  BY <1>1, MessagesInvariant, PTL

\* Every request arrives as it was asked, through objects that are reused, in
\* streams of any length and any mix of versions.
THEOREM RequestsArriveCorrect == Spec => []RequestsArrive
<1>1. MInv => RequestsArrive
  <2> SUFFICES ASSUME MInv PROVE RequestsArrive
    OBVIOUS
  <2>1. DOMAIN handed = 1 .. Len(handed)
    BY DEF MInv, Types
  <2>2. \A i \in DOMAIN handed : Same(handed[i], sent[i])
    BY <2>1 DEF MInv, InOrder
  <2> QED
    BY <2>2 DEF RequestsArrive, Same
<1> QED
  BY <1>1, MessagesInvariant, PTL

\* The array of errors is overrun only by a stream longer than the array.
THEOREM OverflowCorrect == Spec => []OverflowNeedsALongBatch
<1>1. MInv => OverflowNeedsALongBatch
  <2> SUFFICES ASSUME MInv, ub = "overflow" PROVE Len(sent) > BUFFER_MAX
    BY DEF OverflowNeedsALongBatch
  <2>1. /\ Len(sent) = Len(handed) + Len(wire) /\ Len(refused) <= Len(handed)
        /\ Len(refused) > BUFFER_MAX
    BY DEF MInv, InOrder, Refusals
  <2>2. Len(handed) \in Nat /\ Len(wire) \in Nat /\ Len(refused) \in Nat
    BY DEF MInv, Types
  <2> QED
    BY <2>1, <2>2, SizeAssumption
<1> QED
  BY <1>1, MessagesInvariant, PTL

-----------------------------------------------------------------------------
(* What a step enters, and what it answers. *)

\* Only a read enters a record.
LEMMA OnlyReadsEnter ==
    ASSUME [Next]_vars, ~ServerRead
    PROVE  DOMAIN table' \subseteq DOMAIN table
<1>1. CASE Delete
  BY <1>1 DEF Delete, Restrict
<1>2. CASE ~Delete
  <2>1. UNCHANGED table
    BY <1>2 DEF Next, CallAdd, CallOne, ClientWrite, WritesDone, ServerFinish, Deadline,
                ServerStop, Get, Done, vars
  <2> QED
    BY <2>1
<1> QED
  BY <1>1, <1>2

\* A record is entered for the request at hand, with its own addresses.
THEOREM EnteredAsAskedCorrect == Spec => EnteredAsAsked
<1> DEFINE Entered ==
             \A id \in DOMAIN table' \ DOMAIN table :
               LET c == sent[Len(handed')]
               IN /\ id = c.sessId
                  /\ table'[id].ipVersion = c.ipver
                  /\ c.ipver = "_IPV4" =>
                       /\ table'[id].sourceIp = c.ip["src"]
                       /\ table'[id].dstIp = c.ip["dst"]
<1>1. MInv /\ [Next]_vars => [Entered]_vars
  <2> SUFFICES ASSUME MInv, [Next]_vars, NEW id \in DOMAIN table' \ DOMAIN table
               PROVE  LET c == sent[Len(handed')]
                      IN /\ id = c.sessId
                         /\ table'[id].ipVersion = c.ipver
                         /\ c.ipver = "_IPV4" =>
                              /\ table'[id].sourceIp = c.ip["src"]
                              /\ table'[id].dstIp = c.ip["dst"]
    OBVIOUS
  <2> DEFINE m == Head(wire)
             h == ConvertSessionRequest2c(m, request_c)
             c == sent[Len(handed')]
  <2>1. ServerRead
    BY OnlyReadsEnter
  <2>2. wire \in Seq(CppRequest) /\ wire # <<>> /\ request_c \in CRequest
    BY <2>1 DEF MInv, Types, ServerRead
  <2>3. Len(wire) \in Nat \ {0} /\ m = wire[1] /\ m \in CppRequest
    BY <2>2
  <2>4. h \in CRequest /\ \A d \in CRequest : Carries(m, d) => Same(h, d)
    BY <2>2, <2>3, ToCSame
  <2> HIDE DEF h
  <2>5. handed' = Append(handed, h) /\ handed \in Seq(CRequest)
    BY <2>1 DEF ServerRead, h, MInv, Types
  <2>6. Len(handed') = Len(handed) + 1 /\ Len(handed) \in Nat
    BY <2>5
  <2>7. Carries(m, c) /\ Len(handed') \in 1 .. Len(sent)
    BY <2>3, <2>6 DEF MInv, InOrder
  <2>8. c \in CRequest
    BY <2>7, RequestsAreStructs DEF MInv, Types
  <2>9. id = m.sessionId /\ table'[id] = NewRecord(h)
    <3>1. CASE Refusal(h) = "_OK"
      BY <2>1, <3>1 DEF ServerRead, h
    <3>2. CASE Refusal(h) # "_OK"
      BY <2>1, <3>2 DEF ServerRead, h
    <3> QED
      BY <3>1, <3>2
  <2> HIDE DEF c, m
  <2>10. Same(h, c) /\ c.sessId = m.sessionId
    BY <2>4, <2>7, <2>8 DEF Carries
  <2>11. /\ table'[id].ipVersion = h.ipver
         /\ table'[id].sourceIp = h.ip["src"] /\ table'[id].dstIp = h.ip["dst"]
    BY <2>9 DEF NewRecord
  <2>12. /\ id = c.sessId
         /\ table'[id].ipVersion = c.ipver
         /\ c.ipver = "_IPV4" =>
              /\ table'[id].sourceIp = c.ip["src"]
              /\ table'[id].dstIp = c.ip["dst"]
    BY <2>9, <2>10, <2>11 DEF Same
  <2> QED
    BY <2>12 DEF c
<1> QED
  BY <1>1, MessagesInvariant, PTL DEF Spec, EnteredAsAsked

\* A get or delete call for an id that an int can hold is about that session.
THEOREM AnswersCorrect == Spec => AnswersAreAboutTheSession
<1> DEFINE About ==
             IF StatusName(resp'.status) = "_OK"
             THEN /\ arg \in DOMAIN table
                  /\ resp'.list[1].sessionId = arg
                  /\ DOMAIN table' = DOMAIN table \ (IF op = "del" THEN {arg} ELSE {})
             ELSE /\ StatusName(resp'.status) = "_NOT_FOUND"
                  /\ arg \notin DOMAIN table
                  /\ table' = table
           Asked == /\ resp = NoResp /\ resp' # NoResp
                    /\ op \in {"get", "del"}
                    /\ arg < INT_MOD \div 2
<1>1. MInv /\ [Next]_vars => [Asked => About]_vars
  <2> SUFFICES ASSUME MInv, [Next]_vars, Asked PROVE About
    OBVIOUS
  <2>1. Get \/ Delete
    BY DEF Next, CallAdd, CallOne, ClientWrite, WritesDone, ServerFinish, Deadline,
           ServerRead, ServerStop, Done, InCall, vars
  <2>2. Sid(arg) = arg
    BY SidOfSmallId DEF MInv, Types
  <2>3. Answer(arg)
    BY <2>1, <2>2 DEF Get, Delete
  <2>4. op = "get" => table' = table
    BY <2>1 DEF Get, Delete, InCall
  <2>5. op = "del" => table' = Restrict(table, DOMAIN table \ {arg})
    BY <2>1, <2>2 DEF Get, Delete, InCall
  <2>6. CASE arg \in DOMAIN table
    <3>1. resp'.status = 0 /\ resp'.list[1].sessionId = arg
      BY <2>3, <2>6, Codes DEF Answer, Return, Encode, Decode
    <3>2. DOMAIN table' = DOMAIN table \ (IF op = "del" THEN {arg} ELSE {})
      BY <2>4, <2>5 DEF Restrict
    <3> QED
      BY <2>6, <3>1, <3>2, Names
  <2>7. CASE arg \notin DOMAIN table
    <3>1. resp'.status = 5
      BY <2>3, <2>7, Codes DEF Answer, Return
    <3>2. table' = table
      <4>1. table = [id \in DOMAIN table |-> table[id]]
        BY DEF MInv, Types
      <4>2. DOMAIN table \ {arg} = DOMAIN table
        BY <2>7
      <4> QED
        BY <2>4, <2>5, <4>1, <4>2 DEF Restrict
    <3> QED
      BY <2>7, <3>1, <3>2, Names
  <2> QED
    BY <2>6, <2>7
<1> QED
  BY <1>1, MessagesInvariant, PTL DEF Spec, AnswersAreAboutTheSession

-----------------------------------------------------------------------------
(* What the errors of an add response tell. *)

\* only an add call has a stream and a handler of one, and only a call an answer
Quiet ==
    /\ op # "add" => ~serving /\ sent = <<>> /\ handed = <<>> /\ refused = <<>>
    /\ op = "none" => resp.status = -1

\* a session handed over is in the table, or refused for capacity
Placed(id) ==
    \/ id \in DOMAIN table
    \/ \E j \in 1 .. Len(refused) :
         refused[j] = [sessionId |-> id, errorStatus |-> 8]

\* an error is about a session handed over, and tells why it was refused
Told(e) ==
    /\ \E i \in 1 .. Len(handed) : handed[i].sessId = e.sessionId
    /\ e.errorStatus = 8 \/ (e.errorStatus = 6 /\ e.sessionId \in DOMAIN table)

Accounts ==
    /\ \A i \in 1 .. Len(handed) : Placed(handed[i].sessId)
    /\ \A j \in 1 .. Len(refused) : Told(refused[j])

Errors == [i \in DOMAIN refused |-> [sessionId |-> refused[i].sessionId,
                                     error |-> AddErrorName(refused[i].errorStatus)]]

\* an add call that returned with _OK saw the whole stream, and has its errors
Returned ==
    op = "add" /\ resp.status = 0 => ~serving /\ wire = <<>> /\ resp.errors = Errors

RInv == Quiet /\ Accounts /\ Returned

\* A read accounts for the request it hands over.
LEMMA ReadAccounts ==
    ASSUME MInv, RInv, ServerRead
    PROVE  RInv'
<1> DEFINE m == Head(wire)
           h == ConvertSessionRequest2c(m, request_c)
           id == m.sessionId
<1>1. wire # <<>> /\ m \in CppRequest /\ request_c \in CRequest /\ serving
  BY DEF ServerRead, MInv, Types
<1>2. h \in CRequest /\ h.sessId = id
  BY <1>1, ToCSame
<1> HIDE DEF h
<1>3. /\ handed' = Append(handed, h)
      /\ UNCHANGED <<op, sent, serving, resp>>
  BY DEF ServerRead, h
<1>4. /\ Len(handed') = Len(handed) + 1 /\ Len(handed) \in Nat
      /\ handed'[Len(handed) + 1] = h
      /\ \A i \in 1 .. Len(handed) : handed'[i] = handed[i]
  BY <1>2, <1>3 DEF MInv, Types
<1>5. \/ /\ DOMAIN table' = DOMAIN table \cup {id}
         /\ refused' = refused
      \/ /\ table' = table
         /\ \/ refused' = Append(refused, [sessionId |-> id, errorStatus |-> 8])
            \/ /\ refused' = Append(refused, [sessionId |-> id, errorStatus |-> 6])
               /\ id \in DOMAIN table
  <2>1. CASE Refusal(h) = "_OK"
    BY <2>1 DEF ServerRead, h
  <2>2. CASE Refusal(h) # "_OK"
    <3>1. /\ refused' = Append(refused, [sessionId |-> id,
                                         errorStatus |-> Code(Refusal(h))])
          /\ table' = table
      BY <2>2 DEF ServerRead, h
    <3>2. \/ Refusal(h) = "_RESOURCE_EXHAUSTED"
          \/ Refusal(h) = "_ALREADY_EXISTS" /\ id \in DOMAIN table
      BY <1>2, <2>2 DEF Refusal
    <3> QED
      BY <3>1, <3>2, Codes
  <2> QED
    BY <2>1, <2>2
<1> HIDE DEF id
<1>6. refused \in Seq(Refused) /\ Len(refused) \in Nat
  BY DEF MInv, Types
<1>7. /\ DOMAIN table \subseteq DOMAIN table'
      /\ Len(refused') >= Len(refused) /\ Len(refused') \in Nat
      /\ \A j \in 1 .. Len(refused) : refused'[j] = refused[j]
  BY <1>5, <1>6
<1>8. Quiet' /\ Returned'
  BY <1>1, <1>3 DEF RInv, Quiet, Returned
<1>9. ASSUME NEW i \in 1 .. Len(handed')
      PROVE  Placed(handed[i].sessId)' 
  <2>1. CASE i = Len(handed) + 1
    <3>1. handed'[i].sessId = id
      BY <2>1, <1>2, <1>4
    <3>2. \/ id \in DOMAIN table'
          \/ refused' = Append(refused, [sessionId |-> id, errorStatus |-> 8])
      BY <1>5
    <3>3. ASSUME refused' = Append(refused, [sessionId |-> id, errorStatus |-> 8])
          PROVE  \E j \in 1 .. Len(refused') :
                   refused'[j] = [sessionId |-> id, errorStatus |-> 8]
      <4>1. /\ Len(refused') = Len(refused) + 1
            /\ refused'[Len(refused) + 1] = [sessionId |-> id, errorStatus |-> 8]
        BY <3>3, <1>6
      <4> QED
        BY <4>1, <1>6
    <3> QED
      BY <3>1, <3>2, <3>3 DEF Placed
  <2>2. CASE i \in 1 .. Len(handed)
    <3>1. handed'[i] = handed[i] /\ Placed(handed[i].sessId)
      BY <2>2, <1>4 DEF RInv, Accounts
    <3> QED
      BY <3>1, <1>6, <1>7 DEF Placed
  <2> QED
    BY <2>1, <2>2, <1>4
<1>10. ASSUME NEW j \in 1 .. Len(refused')
       PROVE  Told(refused[j])'
  <2>1. CASE j \in 1 .. Len(refused)
    <3>1. refused'[j] = refused[j] /\ Told(refused[j])
      BY <2>1, <1>7 DEF RInv, Accounts
    <3> QED
      BY <3>1, <1>4, <1>7 DEF Told
  <2>2. CASE j \notin 1 .. Len(refused)
    <3>1. /\ j = Len(refused) + 1
          /\ refused'[j].sessionId = id
          /\ \/ refused'[j].errorStatus = 8
             \/ refused'[j].errorStatus = 6 /\ id \in DOMAIN table'
      BY <2>2, <1>5, <1>6
    <3>2. handed'[Len(handed) + 1].sessId = id /\ Len(handed) + 1 \in 1 .. Len(handed')
      BY <1>2, <1>4
    <3> QED
      BY <3>1, <3>2 DEF Told
  <2> QED
    BY <2>1, <2>2
<1> QED
  BY <1>8, <1>9, <1>10 DEF RInv, Accounts

\* Every other step leaves the account as it is, or starts a new one.
LEMMA OthersAccount ==
    ASSUME MInv, RInv, [Next]_vars, ~ServerRead
    PROVE  RInv'
<1> USE DEF handler
<1>1. CASE ServerFinish
  <2>1. /\ UNCHANGED <<op, sent, table, handed, refused, wire>>
        /\ ~serving' /\ wire = <<>> /\ op = "add"
    BY <1>1 DEF ServerFinish, InCall
  <2>2. resp'.status = 0 => resp'.errors = Errors
    BY <1>1 DEF ServerFinish, InCall, ConvertAddSessionResponse2c, Return, NoResp, Errors
  <2>3. Errors' = Errors
    BY <2>1 DEF Errors
  <2> QED
    BY <2>1, <2>2, <2>3 DEF RInv, Quiet, Accounts, Placed, Told, Returned
<1>2. CASE Done
  <2>1. /\ op' = "none" /\ serving' = serving /\ ~serving
        /\ sent' = <<>> /\ handed' = <<>> /\ refused' = <<>> /\ resp' = NoResp
    BY <1>2 DEF Done
  <2>2. Len(handed') = 0 /\ Len(refused') = 0 /\ resp'.status = -1
    BY <2>1 DEF NoResp
  <2> QED
    BY <2>1, <2>2 DEF RInv, Quiet, Accounts, Returned
<1>3. CASE CallAdd
  <2>1. /\ UNCHANGED <<table, sent, wire, handed, refused, resp>> /\ op = "none"
        /\ resp.status = -1 /\ op' = "add"
    BY <1>3 DEF CallAdd, RInv, Quiet
  <2> QED
    BY <2>1 DEF RInv, Quiet, Accounts, Placed, Told, Returned
<1>4. CASE CallOne("get") \/ CallOne("del")
  <2>1. /\ UNCHANGED <<table, sent, handed, refused, serving>> /\ op = "none"
        /\ op' \in {"get", "del"}
    BY <1>4 DEF CallOne
  <2> QED
    BY <2>1 DEF RInv, Quiet, Accounts, Placed, Told, Returned
<1>5. CASE Get \/ Delete
  <2>1. op \in {"get", "del"} /\ op' = op /\ UNCHANGED <<sent, handed, refused, serving>>
    BY <1>5 DEF Get, Delete, InCall
  <2>2. Len(handed') = 0 /\ Len(refused') = 0
    BY <2>1 DEF RInv, Quiet
  <2> QED
    BY <2>1, <2>2 DEF RInv, Quiet, Accounts, Returned
<1>6. CASE (\E c \in Requests : ClientWrite(c)) \/ WritesDone \/ Deadline
  <2>1. /\ op = "add" /\ op' = op /\ UNCHANGED <<table, handed, refused>>
        /\ resp'.status # 0
    BY <1>6, Codes DEF ClientWrite, WritesDone, Deadline, InCall, Return, NoResp
  <2> QED
    BY <2>1 DEF RInv, Quiet, Accounts, Placed, Told, Returned
<1>7. CASE ServerStop
  <2>1. /\ UNCHANGED <<op, sent, table, handed, refused, wire, resp>>
        /\ serving /\ ~serving'
    BY <1>7 DEF ServerStop
  <2> QED
    BY <2>1 DEF RInv, Quiet, Accounts, Placed, Told, Returned
<1>8. CASE UNCHANGED vars
  <2>1. Errors' = Errors
    BY <1>8 DEF vars, Errors
  <2> QED
    BY <1>8, <2>1 DEF vars, RInv, Quiet, Accounts, Placed, Told, Returned
<1> QED
  BY <1>1, <1>2, <1>3, <1>4, <1>5, <1>6, <1>7, <1>8 DEF Next

\* After an add call that ended with _OK the errors account for every request of
\* the caller's array.
THEOREM RefusalsCorrect == Spec => []RefusalsAreReported
<1>1. Init => RInv
  <2> SUFFICES ASSUME Init PROVE RInv
    OBVIOUS
  <2>1. Len(handed) = 0 /\ Len(refused) = 0
    BY DEF Init
  <2> QED
    BY <2>1 DEF Init, NoResp, RInv, Quiet, Accounts, Returned
<1>2. MInv /\ RInv /\ [Next]_vars => RInv'
  BY ReadAccounts, OthersAccount
<1>3. MInv /\ RInv => RefusalsAreReported
  <2> SUFFICES ASSUME MInv, RInv, op = "add", StatusName(resp.status) = "_OK"
               PROVE  /\ \A c \in Range(sent) :
                           c.sessId \notin DOMAIN table =>
                             [sessionId |-> c.sessId, error |-> "_RESOURCE_EXHAUSTED"]
                               \in Range(resp.errors)
                      /\ \A e \in Range(resp.errors) :
                           /\ \E c \in Range(sent) : c.sessId = e.sessionId
                           /\ \/ e.error = "_RESOURCE_EXHAUSTED"
                              \/ e.error = "_ALREADY_EXISTS" /\ e.sessionId \in DOMAIN table
    BY DEF RefusalsAreReported
  <2>1. resp.status = 0
    BY Names DEF MInv, Types
  <2>2. wire = <<>> /\ resp.errors = Errors
    BY <2>1 DEF RInv, Returned
  <2>3. /\ DOMAIN sent = 1 .. Len(sent) /\ DOMAIN refused = 1 .. Len(refused)
        /\ DOMAIN Errors = DOMAIN refused
    BY DEF MInv, Types, Errors
  <2>4. Len(sent) = Len(handed)
    BY <2>2 DEF MInv, InOrder, Types
  <2>5. \A i \in 1 .. Len(handed) : handed[i].sessId = sent[i].sessId
    BY DEF MInv, InOrder, Same
  <2>6. ASSUME NEW c \in Range(sent), c.sessId \notin DOMAIN table
        PROVE  [sessionId |-> c.sessId, error |-> "_RESOURCE_EXHAUSTED"]
                 \in Range(resp.errors)
    <3>1. PICK i \in 1 .. Len(handed) : c = sent[i]
      BY <2>3, <2>4 DEF Range
    <3>2. Placed(c.sessId)
      BY <3>1, <2>5 DEF RInv, Accounts
    <3>3. PICK j \in DOMAIN refused :
            refused[j] = [sessionId |-> c.sessId, errorStatus |-> 8]
      BY <3>2, <2>3, <2>6 DEF Placed
    <3>4. Errors[j] = [sessionId |-> c.sessId, error |-> "_RESOURCE_EXHAUSTED"]
      BY <3>3, Names DEF Errors
    <3> QED
      BY <3>3, <3>4, <2>2, <2>3 DEF Range
  <2>7. ASSUME NEW e \in Range(resp.errors)
        PROVE  /\ \E c \in Range(sent) : c.sessId = e.sessionId
               /\ \/ e.error = "_RESOURCE_EXHAUSTED"
                  \/ e.error = "_ALREADY_EXISTS" /\ e.sessionId \in DOMAIN table
    <3>1. PICK j \in DOMAIN refused : e = Errors[j]
      BY <2>2, <2>3 DEF Range
    <3>2. /\ e.sessionId = refused[j].sessionId
          /\ e.error = AddErrorName(refused[j].errorStatus)
      BY <3>1 DEF Errors
    <3>3. Told(refused[j])
      BY <2>3 DEF RInv, Accounts
    <3>4. PICK i \in 1 .. Len(handed) : handed[i].sessId = e.sessionId
      BY <3>2, <3>3 DEF Told
    <3>5. sent[i] \in Range(sent) /\ sent[i].sessId = e.sessionId
      BY <3>4, <2>3, <2>4, <2>5 DEF Range
    <3> QED
      BY <3>2, <3>3, <3>5, Names DEF Told
  <2> QED
    BY <2>6, <2>7
<1> QED
  BY <1>1, <1>2, <1>3, MessagesInvariant, PTL DEF Spec
=============================================================================
