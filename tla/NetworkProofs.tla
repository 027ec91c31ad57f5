--------------------------- MODULE NetworkProofs ---------------------------
(***************************************************************************)
(* Proofs about the Network model for every value of its constants.        *)
(***************************************************************************)
EXTENDS Network, SequenceTheorems, TLAPS

\* The configurations a call can run its retry loop with.
Cf == Configs \cup {SendMessageConfig}

USE DEF Kinds, HasReply, Results, Senders, NoSender, netVars, callVars

LEMMA SendMessageConfigType == SendMessageConfig \in [max_retries : Nat,
                                                      send_timeout : Nat,
                                                      send_error_backoff : Nat]
BY NetworkAssumption DEF SendMessageConfig

LEMMA CfType == \A cf \in Cf : /\ cf.max_retries \in Nat
                              /\ cf.send_timeout \in Nat
                              /\ cf.send_error_backoff \in Nat
BY NetworkAssumption, SendMessageConfigType DEF Cf, Config

LEMMA MaxIdsType == MaxIds \in Nat
BY NetworkAssumption DEF MaxIds

(* A bounded per-caller counter incremented below its bound stays in range *)
(* (calls[c] against MaxCalls, nreq[c] against MaxIds).                     *)
LEMMA CounterStep ==
    ASSUME NEW S, NEW n \in Nat, NEW f \in [S -> 0..n], NEW x \in S, f[x] < n
    PROVE  [f EXCEPT ![x] = @ + 1] \in [S -> 0..n]
<1>1. f[x] + 1 \in 0..n
  OBVIOUS
<1>2. QED
  BY <1>1

(* Starting a call keeps the types, for any kind, timeout and configuration *)
(* its callers pass.                                                        *)
LEMMA BeginType ==
    ASSUME TypeOK, NEW c \in Callers, NEW k \in Kinds, NEW t \in Nat,
           NEW k2 \in {"none", "retry", "store"}, NEW cf \in Cf,
           Begin(c, k, t, k2, cf)
    PROVE  TypeOK'
<1>1. calls' \in [Callers -> 0..MaxCalls]
  <2>1. calls \in [Callers -> 0..MaxCalls] /\ calls[c] < MaxCalls
    BY DEF TypeOK, Begin
  <2>2. QED
    BY <2>1, CounterStep, NetworkAssumption DEF Begin
<1>2. left' \in [Callers -> Nat \cup {-1}]
  BY DEF TypeOK, Begin
<1>3. cfg' \in [Callers -> Configs \cup {SendMessageConfig}]
  BY DEF TypeOK, Begin, Cf
<1>4. /\ pc' \in [Callers -> {"idle", "enq", "wait", "sleep", "done"}]
      /\ kind' \in [Callers -> Kinds]
      /\ cont' \in [Callers -> {"none", "retry", "store"}]
      /\ result' \in [Callers -> Results \cup {"none"}]
  BY DEF TypeOK, Begin
<1>5. QED
  BY <1>1, <1>2, <1>3, <1>4 DEF TypeOK, Begin

(* Entering the retry loop gives the variables it sets their types.         *)
LEMMA StartRetryType ==
    ASSUME TypeOK, NEW c \in Callers, NEW cf \in Cf, StartRetry(c, cf)
    PROVE  /\ left' \in [Callers -> Nat \cup {-1}]
           /\ cfg' \in [Callers -> Configs \cup {SendMessageConfig}]
           /\ pc' \in [Callers -> {"idle", "enq", "wait", "sleep", "done"}]
           /\ result' \in [Callers -> Results \cup {"none"}]
           /\ firstSend' \in [Callers -> 0..MaxIds]
           /\ kind' \in [Callers -> Kinds]
           /\ attempt' \in [Callers -> Nat]
           /\ errors' \in [Callers -> Nat]
           /\ backoffs' \in [Callers -> Nat]
<1>1. left' \in [Callers -> Nat \cup {-1}]
  <2>1. cf.send_timeout \in Nat
    BY CfType
  <2>2. QED
    BY <2>1 DEF TypeOK, StartRetry
<1>2. cfg' \in [Callers -> Configs \cup {SendMessageConfig}]
  BY DEF TypeOK, StartRetry, Cf
<1>3. /\ pc' \in [Callers -> {"idle", "enq", "wait", "sleep", "done"}]
      /\ result' \in [Callers -> Results \cup {"none"}]
  BY DEF TypeOK, StartRetry
<1>4. firstSend' \in [Callers -> 0..MaxIds]
  BY DEF TypeOK, StartRetry
<1>5. /\ kind' \in [Callers -> Kinds]
      /\ attempt' \in [Callers -> Nat]
      /\ errors' \in [Callers -> Nat]
      /\ backoffs' \in [Callers -> Nat]
  BY DEF TypeOK, StartRetry
<1>6. QED
  BY <1>1, <1>2, <1>3, <1>4, <1>5

\* The records of the channel.
Event == [id : ReqId, kind : Kinds]

(* Spec => []TypeOK: the state of every caller, the channel, the driver's  *)
(* in-flight set and every oneshot keep their types in every step.         *)
THEOREM TypeCorrect == Spec => []TypeOK
<1>1. Init => TypeOK
  <2> SUFFICES ASSUME Init PROVE TypeOK
    OBVIOUS
  <2>1. 0 \in 0..MaxCalls /\ 0 \in 0..MaxIds /\ Len(<<>>) <= QueueCap
    BY NetworkAssumption, MaxIdsType
  <2>2. QED
    BY <2>1 DEF Init, TypeOK
<1>2. TypeOK /\ [Next]_vars => TypeOK'
  <2> SUFFICES ASSUME TypeOK, [Next]_vars PROVE TypeOK'
    OBVIOUS
  <2>1. ASSUME NEW c \in Callers, Call(c) PROVE TypeOK'
    <3>1. CASE ping(c)
      BY <3>1, BeginType, NetworkAssumption DEF ping, Cf
    <3>2. CASE dial(c)
      BY <3>2, BeginType, NetworkAssumption DEF dial, Cf
    <3>3. CASE new_message_sender(c)
      BY <3>3, BeginType, NetworkAssumption DEF new_message_sender, Cf
    <3>4. CASE send_message(c)
      BY <3>4, BeginType, NetworkAssumption DEF send_message, Cf
    <3>5. CASE find_providers(c)
      BY <3>5, BeginType DEF find_providers, Cf
    <3>6. CASE provide(c)
      BY <3>6, BeginType DEF provide, Cf
    <3>7. CASE sender_send_message(c)
      <4>1. sender[c] \in Senders
        BY <3>7 DEF sender_send_message, TypeOK
      <4>2. sender[c].cfg \in Cf
        BY <4>1 DEF Cf
      <4>3. calls' \in [Callers -> 0..MaxCalls]
        <5>1. calls \in [Callers -> 0..MaxCalls] /\ calls[c] < MaxCalls
          BY <3>7 DEF sender_send_message, TypeOK
        <5>2. QED
          BY <3>7, <5>1, CounterStep, NetworkAssumption DEF sender_send_message
      <4>4. cont' \in [Callers -> {"none", "retry", "store"}]
        BY <3>7 DEF sender_send_message, TypeOK
      <4>5. QED
        BY <3>7, <4>2, <4>3, <4>4, StartRetryType DEF sender_send_message, TypeOK
    <3>8. QED
      BY <2>1, <3>1, <3>2, <3>3, <3>4, <3>5, <3>6, <3>7 DEF Call
  <2>2. ASSUME NEW c \in Callers, Enqueue(c) PROVE TypeOK'
    <3> DEFINE e == [id |-> <<c, nreq[c] + 1>>, kind |-> kind[c]]
    <3>1. nreq \in [Callers -> 0..MaxIds] /\ nreq[c] < MaxIds
      BY <2>2 DEF Enqueue, TypeOK
    <3>2. nreq[c] + 1 \in 1..MaxIds
      BY <3>1, MaxIdsType
    <3>3. e \in Event
      BY <3>2 DEF TypeOK, Event, ReqId
    <3>4. queue' \in Seq(Event) /\ Len(queue') <= QueueCap
      <4>1. queue \in Seq(Event) /\ Len(queue) < QueueCap /\ queue' = Append(queue, e)
        BY <2>2 DEF Enqueue, TypeOK, Event
      <4>2. Append(queue, e) \in Seq(Event) /\ Len(Append(queue, e)) = Len(queue) + 1
        BY <4>1, <3>3, AppendProperties
      <4>3. QED
        BY <4>1, <4>2, NetworkAssumption
    <3>5. nreq' \in [Callers -> 0..MaxIds]
      BY <2>2, <3>1, CounterStep, MaxIdsType DEF Enqueue
    <3>6. /\ pc' \in [Callers -> {"idle", "enq", "wait", "sleep", "done"}]
          /\ result' \in [Callers -> Results \cup {"none"}]
      BY <2>2 DEF Enqueue, TypeOK
    <3>7. QED
      BY <2>2, <3>4, <3>5, <3>6 DEF Enqueue, TypeOK, Event
  <2>3. ASSUME NEW c \in Callers, ReceivePing(c) PROVE TypeOK'
    BY <2>3 DEF ReceivePing, Finish, TypeOK
  <2>4. ASSUME NEW c \in Callers, ReceiveDial(c) PROVE TypeOK'
    <3> DEFINE r == reply[ReqOf(c)]
    <3>1. CASE r \in {"refused", "closed"}
      BY <2>4, <3>1 DEF ReceiveDial, Finish, TypeOK
    <3>2. CASE r \in {"ok_have", "ok_nohave"} /\ cont[c] \in {"none", "store"}
      <4>1. [cfg |-> cfg[c], have |-> r = "ok_have"] \in Senders
        BY DEF TypeOK
      <4>2. sender' \in [Callers -> Senders \cup {NoSender}]
        BY <2>4, <3>2, <4>1 DEF ReceiveDial, TypeOK
      <4>3. QED
        BY <2>4, <3>2, <4>2 DEF ReceiveDial, Finish, TypeOK
    <3>3. CASE r \in {"ok_have", "ok_nohave"} /\ cont[c] = "retry"
      <4>1. cfg[c] \in Cf
        BY DEF TypeOK, Cf
      <4>2. StartRetry(c, cfg[c])
            /\ UNCHANGED <<netVars, cont, calls, nreq, sleepLeft, sender>>
        BY <2>4, <3>3 DEF ReceiveDial
      <4>3. QED
        BY <4>1, <4>2, StartRetryType DEF TypeOK
    <3>4. QED
      BY <2>4, <3>1, <3>2, <3>3 DEF ReceiveDial
  <2>5. ASSUME NEW c \in Callers, ReceiveSend(c) PROVE TypeOK'
    <3> DEFINE r == reply[ReqOf(c)]
    <3>1. CASE r \in {"ok", "pns"}
      BY <2>5, <3>1 DEF ReceiveSend, Finish, TypeOK
    <3>2. CASE r \in {"other", "closed"}
      <4>1. errors' \in [Callers -> Nat]
        BY <2>5, <3>2 DEF ReceiveSend, TypeOK
      <4>2. backoffs' \in [Callers -> Nat] /\ sleepLeft' \in [Callers -> Nat]
        <5>1. cfg[c].send_error_backoff \in Nat
          BY CfType DEF TypeOK, Cf
        <5>2. backoffs[c] + 1 \in Nat
          BY DEF TypeOK
        <5>3. QED
          BY <2>5, <3>2, <5>1, <5>2 DEF ReceiveSend, Finish, TypeOK
      <4>3. /\ pc' \in [Callers -> {"idle", "enq", "wait", "sleep", "done"}]
            /\ result' \in [Callers -> Results \cup {"none"}]
        BY <2>5, <3>2 DEF ReceiveSend, Finish, TypeOK
      <4>4. QED
        BY <2>5, <3>2, <4>1, <4>2, <4>3 DEF ReceiveSend, TypeOK
    <3>3. QED
      BY <2>5, <3>1, <3>2 DEF ReceiveSend
  <2>6. ASSUME NEW c \in Callers, Wake(c) PROVE TypeOK'
    BY <2>6 DEF Wake, TypeOK
  <2>7. ASSUME NEW c \in Callers, Elapsed(c) PROVE TypeOK'
    BY <2>7 DEF Elapsed, Finish, TypeOK
  <2>8. CASE poll
    <3>1. queue \in Seq(Event) /\ queue # <<>> /\ Len(queue) <= QueueCap
      BY <2>8 DEF poll, TypeOK, Event
    <3>2. /\ Head(queue) \in Event
          /\ Tail(queue) \in Seq(Event)
          /\ Len(Tail(queue)) = Len(queue) - 1
      BY <3>1, HeadTailProperties
    <3>3. Len(Tail(queue)) <= QueueCap
      BY <3>1, <3>2, NetworkAssumption
    <3>4. inflight' \subseteq [id : ReqId, kind : HasReply]
      BY <2>8, <3>2 DEF poll, TypeOK, Event
    <3>5. QED
      BY <2>8, <3>2, <3>3, <3>4 DEF poll, TypeOK, Event
  <2>9. CASE poll_pending
    BY <2>9 DEF poll_pending, TypeOK, vars
  <2>10. ASSUME NEW e \in inflight, NEW v \in AllReplies, Respond(e, v)
         PROVE TypeOK'
    BY <2>10 DEF Respond, TypeOK
  <2>11. CASE Tick
    BY <2>11 DEF Tick, TypeOK
  <2>12. CASE UNCHANGED vars
    BY <2>12 DEF vars, TypeOK
  <2>13. QED
    BY <2>1, <2>2, <2>3, <2>4, <2>5, <2>6, <2>7, <2>8, <2>9, <2>10, <2>11, <2>12
       DEF Next, Step, Driver
<1>3. QED
  BY <1>1, <1>2, PTL DEF Spec
-----------------------------------------------------------------------------
(* The retry loop's accounting at each place of the loop, for a caller    *)
(* inside send_message_with_retry_and_timeout (kind "Send" is set only by *)
(* StartRetry, and "idle" is never re-entered).  At network_out_sender.send *)
(* the i-th try has neither been sent nor failed; awaiting it, it has been *)
(* sent; in the backoff sleep it has failed, the sleep is counted and a    *)
(* further try remains (the `i < retries - 1` test).                        *)
LoopAt(c) ==
    kind[c] = "Send" /\ pc[c] # "idle" =>
    LET n == cfg[c].max_retries
        s == SendsIssued(c)
        i == attempt[c]
    IN  /\ pc[c] = "enq"   => s = i /\ errors[c] = i /\ backoffs[c] = i /\ i < n
        /\ pc[c] = "wait"  => s = i + 1 /\ errors[c] = i /\ backoffs[c] = i /\ i < n
        /\ pc[c] = "sleep" => /\ s = i + 1 /\ errors[c] = i + 1 /\ backoffs[c] = i + 1
                              /\ i + 1 < n
        /\ pc[c] = "done"  =>
              /\ s <= n
              /\ result[c] \in {"ok", "pns"} => s = errors[c] + 1
              /\ result[c] = "failed" =>
                    /\ s = n /\ errors[c] = n
                    /\ backoffs[c] = IF n = 0 THEN 0 ELSE n - 1

LoopInv == \A c \in Callers : LoopAt(c)

\* The part of the state LoopAt(c) reads.
Acct(c) == <<pc[c], kind[c], cfg[c], nreq[c], firstSend[c], attempt[c],
             errors[c], backoffs[c], result[c]>>

LEMMA AcctFrame ==
    ASSUME NEW c \in Callers, LoopAt(c), Acct(c)' = Acct(c)
    PROVE  LoopAt(c)'
BY DEF LoopAt, Acct, SendsIssued

(* A step of one caller leaves every other caller's accounting alone.      *)
LEMMA OtherCallerFrame ==
    ASSUME TypeOK, NEW c \in Callers, NEW d \in Callers, c # d,
           Call(c) \/ Step(c)
    PROVE  Acct(d)' = Acct(d)
<1>1. CASE \E k \in Kinds, t \in Nat, k2 \in {"none", "retry", "store"}, cf \in Cf :
             Begin(c, k, t, k2, cf)
  BY <1>1 DEF Begin, Acct, TypeOK
<1>2. CASE Call(c) /\ ~sender_send_message(c)
  <2>1. \E k \in Kinds, t \in Nat, k2 \in {"none", "retry", "store"}, cf \in Cf :
             Begin(c, k, t, k2, cf)
    BY <1>2, NetworkAssumption DEF Call, ping, dial, new_message_sender, send_message,
                                   find_providers, provide, Cf
  <2>2. QED
    BY <1>1, <2>1
<1>3. CASE sender_send_message(c)
  BY <1>3 DEF sender_send_message, StartRetry, Acct, TypeOK
<1>4. CASE Enqueue(c)
  BY <1>4 DEF Enqueue, Acct, TypeOK
<1>5. CASE ReceivePing(c)
  BY <1>5 DEF ReceivePing, Finish, Acct, TypeOK
<1>6. CASE ReceiveDial(c)
  BY <1>6 DEF ReceiveDial, Finish, StartRetry, Acct, TypeOK
<1>7. CASE ReceiveSend(c)
  BY <1>7 DEF ReceiveSend, Finish, Acct, TypeOK
<1>8. CASE Wake(c) \/ Elapsed(c)
  BY <1>8 DEF Wake, Elapsed, Finish, Acct, TypeOK
<1>9. QED
  BY <1>2, <1>3, <1>4, <1>5, <1>6, <1>7, <1>8 DEF Step

(* Entering the loop with configuration cf: nothing sent, nothing failed; *)
(* with max_retries = 0 the loop bails at once.                            *)
LEMMA StartRetryLoop ==
    ASSUME TypeOK, NEW c \in Callers, NEW cf \in Cf, StartRetry(c, cf),
           UNCHANGED nreq
    PROVE  LoopAt(c)'
<1>1. cf.max_retries \in Nat /\ nreq[c] \in Nat
  BY CfType, MaxIdsType DEF TypeOK
<1>2. /\ kind'[c] = "Send" /\ cfg'[c] = cf /\ firstSend'[c] = nreq[c]
      /\ attempt'[c] = 0 /\ errors'[c] = 0 /\ backoffs'[c] = 0
  BY DEF StartRetry, TypeOK
<1>3. CASE cf.max_retries = 0
  <2>1. pc'[c] = "done" /\ result'[c] = "failed"
    BY <1>3 DEF StartRetry, TypeOK
  <2>2. QED
    BY <1>1, <1>2, <1>3, <2>1 DEF LoopAt, SendsIssued
<1>4. CASE cf.max_retries # 0
  <2>1. pc'[c] = "enq"
    BY <1>4 DEF StartRetry, TypeOK
  <2>2. QED
    BY <1>1, <1>2, <1>4, <2>1 DEF LoopAt, SendsIssued
<1>5. QED
  BY <1>3, <1>4

\* The numbers LoopAt(c) relates are naturals.
LEMMA AcctNat ==
    ASSUME TypeOK, NEW c \in Callers
    PROVE  /\ cfg[c].max_retries \in Nat /\ attempt[c] \in Nat
           /\ errors[c] \in Nat /\ backoffs[c] \in Nat
           /\ nreq[c] \in Nat /\ firstSend[c] \in Nat
BY CfType, MaxIdsType DEF TypeOK, Cf

(* Every step of caller c keeps LoopAt(c): one case per action.           *)
LEMMA OwnStep ==
    ASSUME TypeOK, NEW c \in Callers, LoopAt(c), Call(c) \/ Step(c)
    PROVE  LoopAt(c)'
<1>0. /\ cfg[c].max_retries \in Nat /\ attempt[c] \in Nat
      /\ errors[c] \in Nat /\ backoffs[c] \in Nat
      /\ nreq[c] \in Nat /\ firstSend[c] \in Nat
  BY AcctNat
<1>1. CASE Call(c) /\ ~sender_send_message(c)
  \* ping, dial, new_message_sender, send_message, find_providers, provide
  <2>1. kind'[c] # "Send"
    BY <1>1 DEF Call, ping, dial, new_message_sender, send_message,
                find_providers, provide, Begin, TypeOK
  <2>2. QED
    BY <2>1 DEF LoopAt
<1>2. CASE sender_send_message(c)
  <2>1. sender[c].cfg \in Cf
    BY <1>2 DEF sender_send_message, TypeOK, Cf
  <2>2. QED
    BY <1>2, <2>1, StartRetryLoop DEF sender_send_message
<1>3. CASE Enqueue(c)
  <2>1. CASE kind[c] # "Send"
    BY <1>3, <2>1 DEF Enqueue, LoopAt
  <2>2. CASE kind[c] = "Send"
    <3>1. /\ pc[c] = "enq" /\ pc'[c] = "wait" /\ nreq'[c] = nreq[c] + 1
          /\ kind'[c] = "Send"
          /\ UNCHANGED <<cfg, firstSend, attempt, errors, backoffs>>
      BY <1>3, <2>2 DEF Enqueue, TypeOK
    <3>2. /\ SendsIssued(c) = attempt[c] /\ errors[c] = attempt[c]
          /\ backoffs[c] = attempt[c] /\ attempt[c] < cfg[c].max_retries
      BY <2>2, <3>1 DEF LoopAt
    <3>3. SendsIssued(c)' = SendsIssued(c) + 1
      BY <1>0, <3>1 DEF SendsIssued
    <3>4. QED
      BY <3>1, <3>2, <3>3 DEF LoopAt
  <2>3. QED
    BY <2>1, <2>2
<1>4. CASE ReceivePing(c)
  BY <1>4 DEF ReceivePing, LoopAt
<1>5. CASE ReceiveDial(c)
  <2>1. CASE UNCHANGED kind /\ kind[c] = "Dial"
    BY <2>1 DEF LoopAt
  <2>2. CASE StartRetry(c, cfg[c]) /\ UNCHANGED nreq
    BY <2>2, StartRetryLoop DEF TypeOK, Cf
  <2>3. QED
    BY <1>5, <2>1, <2>2 DEF ReceiveDial
<1>6. CASE ReceiveSend(c)
  <2> DEFINE n == cfg[c].max_retries
             i == attempt[c]
  <2>1. /\ pc[c] = "wait" /\ kind[c] = "Send"
        /\ UNCHANGED <<kind, cfg, nreq, firstSend, attempt>>
    BY <1>6 DEF ReceiveSend
  <2>2. /\ SendsIssued(c) = i + 1 /\ errors[c] = i /\ backoffs[c] = i /\ i < n
    BY <2>1 DEF LoopAt
  <2>3. SendsIssued(c)' = SendsIssued(c)
    BY <2>1 DEF SendsIssued
  <2>4. CASE pc'[c] = "done" /\ result'[c] \in {"ok", "pns"} /\ errors'[c] = errors[c]
    <3>1. SendsIssued(c)' <= n /\ SendsIssued(c)' = errors'[c] + 1
      BY <1>0, <2>2, <2>3, <2>4
    <3>2. QED
      BY <2>1, <2>4, <3>1 DEF LoopAt
  <2>5. CASE /\ errors'[c] = errors[c] + 1 /\ i < n - 1
             /\ pc'[c] = "sleep" /\ backoffs'[c] = backoffs[c] + 1
    BY <1>0, <2>1, <2>2, <2>3, <2>5 DEF LoopAt
  <2>6. CASE /\ errors'[c] = errors[c] + 1 /\ ~(i < n - 1)
             /\ pc'[c] = "done" /\ result'[c] = "failed"
             /\ backoffs'[c] = backoffs[c]
    <3>1. i = n - 1 /\ n # 0
      BY <1>0, <2>2, <2>6
    <3>2. QED
      BY <1>0, <2>1, <2>2, <2>3, <2>6, <3>1 DEF LoopAt
  <2>7. QED
    <3>1. CASE reply[ReqOf(c)] \in {"ok", "pns"}
      BY <1>6, <2>4, <3>1 DEF ReceiveSend, Finish, TypeOK
    <3>2. CASE reply[ReqOf(c)] \notin {"ok", "pns"}
      BY <1>6, <2>5, <2>6, <3>2 DEF ReceiveSend, Finish, TypeOK
    <3>3. QED
      BY <3>1, <3>2
<1>7. CASE Wake(c)
  <2>1. /\ pc[c] = "sleep" /\ pc'[c] = "enq" /\ attempt'[c] = attempt[c] + 1
        /\ UNCHANGED <<kind, cfg, nreq, firstSend, errors, backoffs>>
    BY <1>7 DEF Wake, TypeOK
  <2>2. QED
    BY <1>0, <2>1 DEF LoopAt, SendsIssued
<1>8. CASE Elapsed(c)
  <2>1. /\ pc[c] \in {"wait", "sleep"} /\ pc'[c] = "done" /\ result'[c] = "elapsed"
        /\ UNCHANGED <<kind, cfg, nreq, firstSend, attempt>>
    BY <1>8 DEF Elapsed, Finish, TypeOK
  <2>2. QED
    BY <1>0, <2>1 DEF LoopAt, SendsIssued
<1>9. QED
  BY <1>1, <1>2, <1>3, <1>4, <1>5, <1>6, <1>7, <1>8 DEF Step

LEMMA LoopStep ==
    ASSUME TypeOK, LoopInv, [Next]_vars
    PROVE  LoopInv'
<1> SUFFICES ASSUME NEW d \in Callers PROVE LoopAt(d)'
  BY DEF LoopInv
<1>1. LoopAt(d)
  BY DEF LoopInv
<1>2. CASE \E c \in Callers : Call(c) \/ Step(c)
  <2>1. PICK c \in Callers : Call(c) \/ Step(c)
    BY <1>2
  <2>2. CASE c = d
    BY <1>1, <2>1, <2>2, OwnStep
  <2>3. CASE c # d
    BY <1>1, <2>1, <2>3, OtherCallerFrame, AcctFrame
  <2>4. QED
    BY <2>2, <2>3
<1>3. CASE Driver \/ Tick
  \* The driver and the clock leave every caller's loop state alone.
  <2>1. Acct(d)' = Acct(d)
    BY <1>3 DEF Driver, poll, poll_pending, Respond, Tick, vars, Acct
  <2>2. QED
    BY <1>1, <2>1, AcctFrame
<1>4. CASE UNCHANGED vars
  BY <1>1, <1>4, AcctFrame DEF vars, Acct
<1>5. QED
  BY <1>2, <1>3, <1>4 DEF Next

LEMMA LoopInvHolds == Spec => []LoopInv
<1>1. Init => LoopInv
  BY DEF Init, LoopInv, LoopAt
<1>2. QED
  BY <1>1, LoopStep, TypeCorrect, PTL DEF Spec

(* For every set of callers, configurations and bounds, a retry loop of   *)
(* send_message_with_retry_and_timeout never sends more than max_retries *)
(* times, ends Ok one send after its last error, and on bail! has made   *)
(* exactly max_retries sends, seen as many errors and slept one backoff  *)
(* fewer (the `i < retries - 1` test).                                   *)
THEOREM RetryAccountingHolds == Spec => []RetryAccounting
<1>1. TypeOK /\ LoopInv => RetryAccounting
  <2> SUFFICES ASSUME TypeOK, LoopInv, NEW c \in Callers,
                      kind[c] = "Send", pc[c] # "idle"
               PROVE  LET n == cfg[c].max_retries IN
                      /\ SendsIssued(c) <= n
                      /\ pc[c] = "done" /\ result[c] \in {"ok", "pns"}
                            => SendsIssued(c) = errors[c] + 1
                      /\ pc[c] = "done" /\ result[c] = "failed"
                            => /\ SendsIssued(c) = n /\ errors[c] = n
                               /\ backoffs[c] = IF n = 0 THEN 0 ELSE n - 1
    BY DEF RetryAccounting
  <2>1. LoopAt(c)
    BY DEF LoopInv
  <2>2. cfg[c].max_retries \in Nat /\ attempt[c] \in Nat
    BY AcctNat
  <2>3. pc[c] \in {"enq", "wait", "sleep", "done"}
    BY DEF TypeOK
  <2>4. QED
    BY <2>1, <2>2, <2>3 DEF LoopAt
<1>2. QED
  BY <1>1, LoopInvHolds, TypeCorrect, PTL
=============================================================================
