--------------------------- MODULE VsockPingProofs --------------------------
(* A ping that reports success was answered, whatever the room in the      *)
(* channels and whatever a guest may send.                                 *)
EXTENDS VsockPing, TLAPS

(* What the host has looked at so far is of this request and of two kinds. *)
HostSaw ==
  /\ host \in {"send", "recv"} => Len(taken) <= 1
  /\ host \in {"send", "recv"} /\ Len(taken) = 0 => saw = {}
  /\ host \in {"send", "recv"} /\ Len(taken) = 1 =>
       saw = {taken[1].kind} /\ taken[1].request_id = RequestId
  /\ host = "ok" =>
       /\ Len(taken) = 2 /\ {taken[1].kind, taken[2].kind} = Both
       /\ taken[1].request_id = RequestId /\ taken[2].request_id = RequestId

AllRequested ==
  \A i \in 1..Len(queue["to_guest"]) : queue["to_guest"][i].request_id = RequestId

Counted == Len(taken) + Len(queue["to_host"]) <= sent /\ sent <= 2

(* The example sends two messages, after it has received the request, and  *)
(* the host has no more than were sent.                                    *)
ExampleSent ==
  peer = "example" =>
    /\ AllRequested
    /\ Counted
    /\ sent # 0 \/ guest \in {"response", "receipt", "ok"} =>
         request \in Requests /\ request.request_id = RequestId
    /\ guest \in {"recv", "response"} => sent = 0
    /\ guest = "receipt" => sent = 1

(* There is a queue for each direction. *)
Queues == queue = [d \in Directions |-> queue[d]]

IInv == TypeOK /\ Queues /\ HostSaw /\ ExampleSent

LEMMA InitHolds == Init => IInv
<1>. SUFFICES ASSUME Init PROVE IInv
  OBVIOUS
<1>1. /\ queue["to_guest"] = << >> /\ queue["to_host"] = << >> /\ taken = << >>
      /\ Queues /\ gone = {}
  BY DEF Init, Pair, Directions, Queues
<1>2. TypeOK
  <2>1. << >> \in Seq(Requests) /\ << >> \in Seq(Evidence)
    OBVIOUS
  <2>2. request = NoRequest /\ saw = {} /\ sent = 0
    BY DEF Init
  <2>3. queue["to_guest"] \in Seq(Requests) /\ queue["to_host"] \in Seq(Evidence)
    BY <1>1, <2>1
  <2>4. gone \subseteq {"host", "guest"} /\ saw \subseteq {"response", "execution_receipt"}
    BY <1>1, <2>2
  <2>5. taken \in Seq(Evidence) /\ sent \in Nat /\ request \in Requests \union {NoRequest}
    BY <1>1, <2>1, <2>2
  <2>6. /\ host \in {"send", "recv", "ok", "failed"} /\ peer \in {"example", "any"}
        /\ guest \in {"recv", "response", "receipt", "ok", "failed"} /\ broken \in BOOLEAN
    BY DEF Init
  <2>. QED
    BY <2>3, <2>4, <2>5, <2>6 DEF TypeOK
<1>3. HostSaw
  BY <1>1 DEF Init, HostSaw
<1>4. ExampleSent
  BY <1>1 DEF Init, ExampleSent, AllRequested, Counted
<1>. QED
  BY <1>1, <1>2, <1>3, <1>4 DEF IInv

-----------------------------------------------------------------------------
(* What the calls of the transport do to its queues. *)

LEMMA SendPuts ==
  ASSUME Queues, NEW d \in Directions, NEW m, Send(d, m)
  PROVE  /\ Queues' /\ gone' = gone
         /\ queue'[d] = Append(queue[d], m)
         /\ \A e \in Directions \ {d} : queue'[e] = queue[e]
  BY DEF Queues, Send, Directions

LEMMA RecvTakes ==
  ASSUME Queues, NEW d \in Directions, NEW m, Recv(d, m)
  PROVE  /\ Queues' /\ gone' = gone
         /\ queue[d] # << >> /\ m = Head(queue[d]) /\ queue'[d] = Tail(queue[d])
         /\ \A e \in Directions \ {d} : queue'[e] = queue[e]
  BY DEF Queues, Recv, Directions

LEMMA DropKeeps ==
  ASSUME Queues, NEW x \in {"host", "guest"}, Drop(x)
  PROVE  /\ Queues' /\ gone' = gone \union {x}
         /\ \A d \in Directions : queue'[d] = queue[d] \/ queue'[d] = << >>
  BY DEF Queues, Drop, Directions

LEMMA EmptyQueue ==
  ASSUME TypeOK, Queues, NEW x \in {"host", "guest"}, Drop(x)
  PROVE  /\ queue'["to_guest"] \in Seq(Requests) /\ queue'["to_host"] \in Seq(Evidence)
         /\ gone' \subseteq {"host", "guest"}
         /\ Len(queue'["to_host"]) <= Len(queue["to_host"])
         /\ \A i \in 1..Len(queue'["to_guest"]) :
              i \in 1..Len(queue["to_guest"]) /\ queue'["to_guest"][i] = queue["to_guest"][i]
<1>1. \A d \in Directions : queue'[d] = queue[d] \/ queue'[d] = << >>
  BY DropKeeps
<1>2. gone' = gone \union {x}
  BY DropKeeps
<1>3. "to_guest" \in Directions /\ "to_host" \in Directions
  BY DEF Directions
<1>4. queue["to_guest"] \in Seq(Requests) /\ queue["to_host"] \in Seq(Evidence)
  BY DEF TypeOK
<1>5. queue'["to_guest"] = queue["to_guest"] \/ queue'["to_guest"] = << >>
  BY <1>1, <1>3
<1>6. queue'["to_host"] = queue["to_host"] \/ queue'["to_host"] = << >>
  BY <1>1, <1>3
<1>7. gone' \subseteq {"host", "guest"}
  BY <1>2 DEF TypeOK
<1>8. Len(queue'["to_host"]) <= Len(queue["to_host"])
  BY <1>4, <1>6
<1>9. queue'["to_guest"] \in Seq(Requests) /\ queue'["to_host"] \in Seq(Evidence)
  <2>1. << >> \in Seq(Requests) /\ << >> \in Seq(Evidence)
    OBVIOUS
  <2>. QED
    BY <1>4, <1>5, <1>6, <2>1
<1>10. \A i \in 1..Len(queue'["to_guest"]) :
         i \in 1..Len(queue["to_guest"]) /\ queue'["to_guest"][i] = queue["to_guest"][i]
  BY <1>4, <1>5
<1>. QED
  BY <1>7, <1>8, <1>9, <1>10

-----------------------------------------------------------------------------
(* The steps of the host. *)

LEMMA HostSendKeeps == IInv /\ HostSend => IInv'
<1>. SUFFICES ASSUME IInv, HostSend PROVE IInv'
  OBVIOUS
<1>. TypeOK /\ Queues /\ HostSaw /\ ExampleSent
  BY DEF IInv
<1>. DEFINE m == [kind |-> "request", request_id |-> RequestId]
<1>1. "to_guest" \in Directions /\ "to_host" \in Directions \ {"to_guest"}
  BY DEF Directions
<1>2. Send("to_guest", m)
  BY DEF HostSend
<1>3. /\ Queues' /\ gone' = gone /\ queue'["to_guest"] = Append(queue["to_guest"], m)
      /\ queue'["to_host"] = queue["to_host"]
  BY <1>1, <1>2, SendPuts
<1>4. m \in Requests /\ m.request_id = RequestId
  BY IdAssumption DEF Requests
<1>5. queue["to_guest"] \in Seq(Requests)
  BY DEF TypeOK
<1>. HIDE DEF m
<1>6. TypeOK'
  BY <1>3, <1>4, <1>5 DEF TypeOK, HostSend, guestVars
<1>7. HostSaw'
  BY DEF HostSend, HostSaw
<1>8. \A i \in 1..Len(queue'["to_guest"]) :
        \/ queue'["to_guest"][i] = m
        \/ /\ i \in 1..Len(queue["to_guest"])
           /\ queue'["to_guest"][i] = queue["to_guest"][i]
  <2>. SUFFICES ASSUME NEW i \in 1..Len(queue'["to_guest"])
                PROVE  \/ queue'["to_guest"][i] = m
                       \/ /\ i \in 1..Len(queue["to_guest"])
                          /\ queue'["to_guest"][i] = queue["to_guest"][i]
    OBVIOUS
  <2>. DEFINE q == queue["to_guest"]
  <2>1. q \in Seq(Requests) /\ queue'["to_guest"] = Append(q, m)
    BY <1>3, <1>5
  <2>. HIDE DEF q
  <2>2. (i \in 1..Len(q) /\ Append(q, m)[i] = q[i]) \/ (i = Len(q) + 1 /\ Append(q, m)[i] = m)
    BY <2>1
  <2>. QED
    BY <2>1, <2>2 DEF q
<1>9. (AllRequested => AllRequested') /\ (Counted => Counted')
  BY <1>3, <1>4, <1>8 DEF AllRequested, Counted, HostSend, guestVars
<1>10. ExampleSent'
  BY <1>9 DEF ExampleSent, HostSend, guestVars
<1>. QED
  BY <1>3, <1>6, <1>7, <1>10 DEF IInv

(* A main that ends without success drops its endpoint.                    *)
LEMMA HostFails ==
  ASSUME IInv, HostReturns("failed"), UNCHANGED <<saw, taken, guestVars, broken>>
  PROVE  IInv'
<1>. TypeOK /\ Queues /\ HostSaw /\ ExampleSent
  BY DEF IInv
<1>1. Drop("host") /\ host' = "failed"
  BY DEF HostReturns
<1>2. Queues'
  BY <1>1, DropKeeps
<1>3. /\ queue'["to_guest"] \in Seq(Requests) /\ queue'["to_host"] \in Seq(Evidence)
      /\ gone' \subseteq {"host", "guest"}
      /\ Len(queue'["to_host"]) <= Len(queue["to_host"])
      /\ \A i \in 1..Len(queue'["to_guest"]) :
           i \in 1..Len(queue["to_guest"]) /\ queue'["to_guest"][i] = queue["to_guest"][i]
  BY <1>1, EmptyQueue
<1>4. TypeOK'
  BY <1>1, <1>3 DEF TypeOK, guestVars
<1>5. HostSaw'
  BY <1>1 DEF HostSaw
<1>6. Len(queue["to_host"]) \in Nat /\ Len(queue'["to_host"]) \in Nat /\ Len(taken) \in Nat
  BY <1>3 DEF TypeOK
<1>7. (AllRequested => AllRequested') /\ (Counted => Counted')
  <2>1. AllRequested => AllRequested'
    BY <1>3 DEF AllRequested
  <2>2. taken' = taken /\ sent' = sent /\ sent \in Nat
    BY DEF guestVars, TypeOK
  <2>3. Counted => Counted'
    BY <1>3, <1>6, <2>2 DEF Counted
  <2>. QED
    BY <2>1, <2>3
<1>8. ExampleSent'
  BY <1>7 DEF ExampleSent, guestVars
<1>. QED
  BY <1>2, <1>4, <1>5, <1>8 DEF IInv

LEMMA HostRecvKeeps == IInv /\ HostRecv => IInv'
<1>. SUFFICES ASSUME IInv, HostRecv PROVE IInv'
  OBVIOUS
<1>. TypeOK /\ Queues /\ HostSaw /\ ExampleSent
  BY DEF IInv
<1>1. PICK m \in Evidence :
        /\ queue["to_host"] # << >> /\ m = Head(queue["to_host"])
        /\ taken' = Append(taken, m)
        /\ \/ /\ Accepts(m) /\ Len(taken) = 0
              /\ Recv("to_host", m)
              /\ saw' = saw \union {m.kind}
              /\ UNCHANGED host
           \/ /\ Accepts(m) /\ Len(taken) = 1
              /\ saw' = saw \union {m.kind}
              /\ HostReturns(IF {"response", "execution_receipt"} \subseteq saw' THEN "ok"
                                                                               ELSE "failed")
           \/ /\ ~Accepts(m)
              /\ HostReturns("failed")
              /\ UNCHANGED saw
  BY DEF HostRecv
<1>2. host = "recv" /\ Len(taken) < 2 /\ UNCHANGED <<guestVars, broken>>
  BY DEF HostRecv
<1>3. /\ taken \in Seq(Evidence) /\ taken' \in Seq(Evidence) /\ Len(taken') = Len(taken) + 1
      /\ Len(taken) \in Nat /\ taken'[Len(taken) + 1] = m
      /\ \A i \in 1..Len(taken) : taken'[i] = taken[i]
  BY <1>1 DEF TypeOK
<1>4. queue["to_host"] \in Seq(Evidence) /\ Len(queue["to_host"]) \in Nat \ {0} /\ sent \in Nat
  BY <1>1 DEF TypeOK
<1>5. CASE Accepts(m) /\ Len(taken) = 0 /\ Recv("to_host", m) /\ saw' = saw \union {m.kind}
           /\ UNCHANGED host
  <2>1. "to_host" \in Directions /\ "to_guest" \in Directions \ {"to_host"}
    BY DEF Directions
  <2>2. /\ Queues' /\ gone' = gone /\ queue'["to_host"] = Tail(queue["to_host"])
        /\ queue'["to_guest"] = queue["to_guest"]
    BY <1>5, <2>1, RecvTakes
  <2>3. queue'["to_host"] \in Seq(Evidence) /\ Len(queue'["to_host"]) = Len(queue["to_host"]) - 1
    BY <1>1, <1>4, <2>2
  <2>4. m.kind \in {"response", "execution_receipt"} /\ m.request_id = RequestId
    BY <1>5 DEF Accepts
  <2>5. TypeOK'
    BY <1>2, <1>3, <1>5, <2>2, <2>3, <2>4 DEF TypeOK, guestVars
  <2>6. HostSaw'
    BY <1>2, <1>3, <1>5, <2>4 DEF HostSaw
  <2>7. (AllRequested => AllRequested') /\ (Counted => Counted')
    <3>1. AllRequested => AllRequested'
      BY <2>2 DEF AllRequested
    <3>2. sent' = sent
      BY <1>2 DEF guestVars
    <3>3. Counted => Counted'
      <4>1. /\ Len(taken') = Len(taken) + 1 /\ Len(taken) \in Nat /\ sent \in Nat
            /\ Len(queue'["to_host"]) = Len(queue["to_host"]) - 1
            /\ Len(queue["to_host"]) \in Nat
        BY <1>3, <1>4, <2>3
      <4>2. \A t, q \in Nat : (t + 1) + (q - 1) = t + q
        OBVIOUS
      <4>3. Len(taken') + Len(queue'["to_host"]) = Len(taken) + Len(queue["to_host"])
        BY <4>1, <4>2
      <4>. QED
        BY <3>2, <4>3 DEF Counted
    <3>. QED
      BY <3>1, <3>3
  <2>8. ExampleSent'
    BY <1>2, <2>7 DEF ExampleSent, guestVars
  <2>. QED
    BY <2>2, <2>5, <2>6, <2>8 DEF IInv
<1>6. ASSUME HostReturns("ok") \/ HostReturns("failed")
      PROVE  /\ Queues' /\ ExampleSent'
             /\ queue'["to_guest"] \in Seq(Requests) /\ queue'["to_host"] \in Seq(Evidence)
             /\ gone' \subseteq {"host", "guest"}
  <2>1. Drop("host") /\ "host" \in {"host", "guest"}
    BY <1>6 DEF HostReturns
  <2>2. Queues' /\ \A d \in Directions : queue'[d] = queue[d] \/ queue'[d] = << >>
    BY <2>1, DropKeeps
  <2>3. /\ queue'["to_guest"] \in Seq(Requests) /\ queue'["to_host"] \in Seq(Evidence)
        /\ gone' \subseteq {"host", "guest"}
        /\ \A i \in 1..Len(queue'["to_guest"]) :
             i \in 1..Len(queue["to_guest"]) /\ queue'["to_guest"][i] = queue["to_guest"][i]
    BY <2>1, EmptyQueue
  <2>4. queue'["to_host"] = << >>
    BY <2>1 DEF Drop, Directions, Receiver
  <2>5. AllRequested => AllRequested'
    BY <2>3 DEF AllRequested
  <2>6. sent' = sent /\ UNCHANGED guestVars
    BY <1>2 DEF guestVars
  <2>7. Counted => Counted'
    <3>1. /\ Len(taken') = Len(taken) + 1 /\ Len(taken) \in Nat
          /\ Len(queue'["to_host"]) = 0 /\ Len(queue["to_host"]) \in Nat \ {0}
      BY <1>3, <1>4, <2>4
    <3>2. \A t \in Nat, q \in Nat \ {0} : (t + 1) + 0 <= t + q
      OBVIOUS
    <3>3. /\ Len(taken') + Len(queue'["to_host"]) <= Len(taken) + Len(queue["to_host"])
          /\ Len(taken') + Len(queue'["to_host"]) \in Nat /\ sent \in Nat
      BY <1>4, <3>1, <3>2
    <3>. QED
      BY <2>6, <3>1, <3>3 DEF Counted
  <2>8. ExampleSent'
    BY <2>5, <2>6, <2>7 DEF ExampleSent, guestVars
  <2>. QED
    BY <2>2, <2>3, <2>8
<1>7. CASE /\ Accepts(m) /\ Len(taken) = 1
           /\ saw' = saw \union {m.kind}
           /\ HostReturns(IF {"response", "execution_receipt"} \subseteq saw' THEN "ok"
                                                                            ELSE "failed")
  <2>1. \/ HostReturns("ok") /\ {"response", "execution_receipt"} \subseteq saw'
        \/ HostReturns("failed")
    BY <1>7
  <2>2. m.kind \in {"response", "execution_receipt"} /\ m.request_id = RequestId
    BY <1>7 DEF Accepts
  <2>3. host' \in {"ok", "failed"}
    BY <2>1 DEF HostReturns
  <2>4. TypeOK'
    BY <1>2, <1>3, <1>6, <1>7, <2>1, <2>2, <2>3 DEF TypeOK, guestVars
  <2>5. saw = {taken[1].kind} /\ taken[1].request_id = RequestId
    BY <1>2, <1>7 DEF HostSaw
  <2>6. Len(taken') = 2 /\ taken'[1] = taken[1] /\ taken'[2] = m
    BY <1>3, <1>7
  <2>7. saw' = {taken'[1].kind, taken'[2].kind}
    BY <1>7, <2>5, <2>6
  <2>8. host' = "ok" => {taken'[1].kind, taken'[2].kind} = Both
    BY <2>1, <2>2, <2>5, <2>7 DEF HostReturns, Both, TypeOK
  <2>9. HostSaw'
    BY <2>2, <2>3, <2>5, <2>6, <2>8 DEF HostSaw
  <2>. QED
    BY <1>6, <2>1, <2>4, <2>9 DEF IInv
<1>8. CASE ~Accepts(m) /\ HostReturns("failed") /\ UNCHANGED saw
  <2>1. host' = "failed"
    BY <1>8 DEF HostReturns
  <2>2. TypeOK'
    BY <1>2, <1>3, <1>6, <1>8, <2>1 DEF TypeOK, guestVars
  <2>3. HostSaw'
    BY <2>1 DEF HostSaw
  <2>. QED
    BY <1>6, <1>8, <2>2, <2>3 DEF IInv
<1>. QED
  BY <1>1, <1>5, <1>7, <1>8

-----------------------------------------------------------------------------
(* The steps of the guest. *)

LEMMA GuestRecvKeeps == IInv /\ GuestRecv => IInv'
<1>. SUFFICES ASSUME IInv, GuestRecv PROVE IInv'
  OBVIOUS
<1>. TypeOK /\ Queues /\ HostSaw /\ ExampleSent
  BY DEF IInv
<1>1. PICK m \in Requests : Recv("to_guest", m) /\ request' = m
  BY DEF GuestRecv
<1>2. /\ peer = "example" /\ guest = "recv" /\ guest' = "response"
      /\ UNCHANGED <<host, saw, taken, peer, sent, broken>>
  BY DEF GuestRecv, hostVars
<1>3. "to_guest" \in Directions /\ "to_host" \in Directions \ {"to_guest"}
  BY DEF Directions
<1>4. /\ Queues' /\ gone' = gone /\ queue["to_guest"] # << >> /\ m = Head(queue["to_guest"])
      /\ queue'["to_guest"] = Tail(queue["to_guest"]) /\ queue'["to_host"] = queue["to_host"]
  BY <1>1, <1>3, RecvTakes
<1>5. queue["to_guest"] \in Seq(Requests)
  BY DEF TypeOK
<1>6. /\ queue'["to_guest"] \in Seq(Requests) /\ m = queue["to_guest"][1]
      /\ 1 \in 1..Len(queue["to_guest"])
      /\ \A i \in 1..Len(queue'["to_guest"]) :
           i + 1 \in 1..Len(queue["to_guest"]) /\ queue'["to_guest"][i] = queue["to_guest"][i + 1]
  BY <1>4, <1>5
<1>7. TypeOK'
  BY <1>1, <1>2, <1>4, <1>6 DEF TypeOK
<1>8. HostSaw'
  BY <1>2 DEF HostSaw
<1>9. ExampleSent'
  <2>1. m.request_id = RequestId
    BY <1>2, <1>6 DEF ExampleSent, AllRequested
  <2>2. \A i \in 1..Len(queue'["to_guest"]) : queue'["to_guest"][i].request_id = RequestId
    BY <1>2, <1>6 DEF ExampleSent, AllRequested
  <2>3. Counted => Counted'
    BY <1>2, <1>4 DEF Counted
  <2>. QED
    BY <1>1, <1>2, <2>1, <2>2, <2>3 DEF ExampleSent, AllRequested
<1>. QED
  BY <1>4, <1>7, <1>8, <1>9 DEF IInv

(* The guest puts a message into the channel.                              *)
LEMMA GuestSends ==
  ASSUME IInv, NEW m \in Evidence, Send("to_host", m), sent' = sent + 1,
         UNCHANGED <<hostVars, peer, request, broken>>, guest' \in {guest, "receipt", "ok"}
  PROVE  /\ TypeOK' /\ Queues' /\ HostSaw'
         /\ Counted /\ sent <= 1 => Counted'
         /\ queue'["to_guest"] = queue["to_guest"]
<1>. TypeOK /\ Queues /\ HostSaw
  BY DEF IInv
<1>1. "to_host" \in Directions /\ "to_guest" \in Directions \ {"to_host"}
  BY DEF Directions
<1>2. /\ Queues' /\ gone' = gone /\ queue'["to_host"] = Append(queue["to_host"], m)
      /\ queue'["to_guest"] = queue["to_guest"]
  BY <1>1, SendPuts
<1>3. queue["to_host"] \in Seq(Evidence) /\ sent \in Nat /\ taken \in Seq(Evidence)
  BY DEF TypeOK
<1>4. /\ queue'["to_host"] \in Seq(Evidence)
      /\ Len(queue'["to_host"]) = Len(queue["to_host"]) + 1
      /\ Len(queue["to_host"]) \in Nat /\ Len(taken) \in Nat
  BY <1>2, <1>3
<1>5. TypeOK'
  BY <1>2, <1>3, <1>4 DEF TypeOK, hostVars
<1>6. HostSaw'
  BY DEF HostSaw, hostVars
<1>7. Counted /\ sent <= 1 => Counted'
  BY <1>3, <1>4 DEF hostVars, Counted
<1>. QED
  BY <1>2, <1>5, <1>6, <1>7

LEMMA GuestAnswers == IInv /\ (GuestSendResponse \/ GuestSendReceipt) => IInv'
<1>. SUFFICES ASSUME IInv, GuestSendResponse \/ GuestSendReceipt PROVE IInv'
  OBVIOUS
<1>. TypeOK /\ ExampleSent
  BY DEF IInv
<1>1. PICK k \in Kinds : Send("to_host", [kind |-> k, request_id |-> request.request_id])
  BY DEF GuestSendResponse, GuestSendReceipt, Kinds
<1>2. /\ peer = "example" /\ sent' = sent + 1 /\ UNCHANGED <<hostVars, peer, request, broken>>
      /\ \/ guest = "response" /\ guest' = "receipt"
         \/ guest = "receipt" /\ guest' = "ok"
  BY DEF GuestSendResponse, GuestSendReceipt
<1>3. request \in Requests /\ request.request_id = RequestId
  BY <1>2 DEF ExampleSent
<1>4. [kind |-> k, request_id |-> request.request_id] \in Evidence
  BY <1>3, IdAssumption DEF Evidence
<1>5. /\ TypeOK' /\ Queues' /\ HostSaw'
      /\ Counted /\ sent <= 1 => Counted'
      /\ queue'["to_guest"] = queue["to_guest"]
  BY <1>1, <1>2, <1>4, GuestSends
<1>6. \/ sent = 0 /\ guest' = "receipt"
      \/ sent = 1 /\ guest' = "ok"
  BY <1>2 DEF ExampleSent
<1>7. ExampleSent'
  BY <1>2, <1>3, <1>5, <1>6 DEF ExampleSent, AllRequested
<1>. QED
  BY <1>5, <1>7 DEF IInv

LEMMA AnyKeeps == IInv /\ AnyEvidence => IInv'
<1>. SUFFICES ASSUME IInv, AnyEvidence PROVE IInv'
  OBVIOUS
<1>1. PICK m \in Evidence : Send("to_host", m)
  BY DEF AnyEvidence
<1>2. TypeOK' /\ Queues' /\ HostSaw'
  BY <1>1, GuestSends DEF AnyEvidence
<1>3. ExampleSent'
  BY DEF AnyEvidence, ExampleSent
<1>. QED
  BY <1>2, <1>3 DEF IInv

(* The guest's endpoint is dropped. *)
LEMMA GuestGoes ==
  ASSUME IInv, Drop("guest"), UNCHANGED <<hostVars, peer, request, sent, broken>>,
         guest' \in {guest, "failed"}
  PROVE  IInv'
<1>. TypeOK /\ Queues /\ HostSaw /\ ExampleSent
  BY DEF IInv
<1>1. Queues'
  BY DropKeeps
<1>2. /\ queue'["to_guest"] \in Seq(Requests) /\ queue'["to_host"] \in Seq(Evidence)
      /\ gone' \subseteq {"host", "guest"}
      /\ Len(queue'["to_host"]) <= Len(queue["to_host"])
      /\ \A i \in 1..Len(queue'["to_guest"]) :
           i \in 1..Len(queue["to_guest"]) /\ queue'["to_guest"][i] = queue["to_guest"][i]
  BY EmptyQueue
<1>3. TypeOK'
  BY <1>2 DEF TypeOK, hostVars
<1>4. HostSaw'
  BY DEF HostSaw, hostVars
<1>5. Len(queue["to_host"]) \in Nat /\ Len(queue'["to_host"]) \in Nat /\ Len(taken) \in Nat
  BY <1>2 DEF TypeOK
<1>6. (AllRequested => AllRequested') /\ (Counted => Counted')
  <2>1. AllRequested => AllRequested'
    BY <1>2 DEF AllRequested
  <2>2. taken' = taken /\ sent' = sent /\ sent \in Nat
    BY DEF hostVars, TypeOK
  <2>3. Counted => Counted'
    BY <1>2, <1>5, <2>2 DEF Counted
  <2>. QED
    BY <2>1, <2>3
<1>7. ExampleSent'
  BY <1>6 DEF ExampleSent
<1>. QED
  BY <1>1, <1>3, <1>4, <1>7 DEF IInv

LEMMA IInvStays == IInv /\ [Next]_vars => IInv'
<1>. SUFFICES ASSUME IInv, [Next]_vars PROVE IInv'
  OBVIOUS
<1>1. CASE HostSend
  BY <1>1, HostSendKeeps
<1>2. CASE HostSendFails \/ HostRecvFails
  BY <1>2, HostFails DEF HostSendFails, HostRecvFails
<1>3. CASE HostRecv
  BY <1>3, HostRecvKeeps
<1>4. CASE GuestRecv
  BY <1>4, GuestRecvKeeps
<1>5. CASE GuestSendResponse \/ GuestSendReceipt
  BY <1>5, GuestAnswers
<1>6. CASE GuestRecvFails \/ GuestSendFails \/ AnyLeaves
  BY <1>6, GuestGoes DEF GuestRecvFails, GuestSendFails, AnyLeaves, GuestReturns
<1>7. CASE GuestLeaves
  BY <1>7, GuestGoes DEF GuestLeaves, guestVars
<1>8. CASE AnyEvidence
  BY <1>8, AnyKeeps
<1>9. CASE Breaks \/ UNCHANGED vars
  <2>1. /\ queue' = queue /\ gone' = gone /\ host' = host /\ saw' = saw /\ taken' = taken
        /\ peer' = peer /\ guest' = guest /\ request' = request /\ sent' = sent
        /\ broken' \in {TRUE, broken}
    BY <1>9 DEF Breaks, vars, transportVars, hostVars, guestVars
  <2>2. TypeOK'
    BY <2>1 DEF IInv, TypeOK
  <2>3. Queues' /\ HostSaw' /\ ExampleSent'
    BY <2>1 DEF IInv, Queues, HostSaw, ExampleSent, AllRequested, Counted
  <2>. QED
    BY <2>2, <2>3 DEF IInv
<1>. QED
  BY <1>1, <1>2, <1>3, <1>4, <1>5, <1>6, <1>7, <1>8, <1>9 DEF Next, HostStep, GuestStep

-----------------------------------------------------------------------------
THEOREM Invariance == Spec => []IInv
  BY InitHolds, IInvStays, PTL DEF Spec

(* The state of both mains and of the channels between them is well typed. *)
THEOREM TypeCorrectness == Spec => []TypeOK
<1>1. IInv => TypeOK
  BY DEF IInv
<1>. QED
  BY Invariance, <1>1, PTL

(* vsock_host_ping: success means one response and one receipt, both of    *)
(* the request that was sent, and that the example has received it.        *)
THEOREM PingAnswered == Spec => []OkMeansAnswered
<1>1. IInv => OkMeansAnswered
  <2>. SUFFICES ASSUME IInv, host = "ok" PROVE OkMeansAnswered
    BY DEF OkMeansAnswered
  <2>. TypeOK /\ HostSaw /\ ExampleSent
    BY DEF IInv
  <2>1. Len(queue["to_host"]) \in Nat /\ sent \in Nat
    BY DEF TypeOK
  <2>2. Len(taken) = 2
    BY DEF HostSaw
  <2>3. peer = "example" => sent = 2
    BY <2>1, <2>2 DEF ExampleSent, Counted
  <2>4. peer = "example" => request.request_id = RequestId
    BY <2>3 DEF ExampleSent
  <2>. QED
    BY <2>3, <2>4 DEF HostSaw, OkMeansAnswered
<1>. QED
  BY Invariance, <1>1, PTL
=============================================================================
