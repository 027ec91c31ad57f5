------------------------------ MODULE Network ------------------------------
(***************************************************************************)
(* The transport adapter of iroh-bitswap, src/iroh-bitswap/src/network.rs. *)
(*                                                                         *)
(* Many async callers share one Network.  Every operation pushes an        *)
(* OutEvent onto one bounded crossbeam channel (network_out_sender.send,   *)
(* which BLOCKS the calling thread while the channel is full) and, where   *)
(* the event carries a oneshot sender, awaits the reply inside a           *)
(* tokio::time::timeout.  The swarm driver pops events with Network::poll  *)
(* (try_recv) and completes, or drops, the oneshot senders in any order.   *)
(*                                                                         *)
(* Time passes in ticks; each armed timer counts down the ticks left.     *)
(* Synchronous code runs in zero time, and a timer that has elapsed while  *)
(* its task is suspended fires before the next tick.  tokio's Timeout polls the wrapped     *)
(* future before its delay, so when a reply (or the backoff sleep) and the *)
(* deadline are both ready either may win: both actions are enabled.       *)
(***************************************************************************)
EXTENDS Integers, Sequences, FiniteSets

CONSTANTS
    Callers,          \* the async tasks that share one Network
    QueueCap,         \* capacity of crossbeam::channel::bounded (1024 in the code)
    CONNECT_TIMEOUT,  \* ticks of CONNECT_TIMEOUT (5s)
    PING_TIMEOUT,     \* ticks of the ping timeout (30s)
    SendTimeout,      \* ticks of send_timeout(message.encoded_len()) in Network::send_message
    Configs,          \* the MessageSenderConfig values callers pass to new_message_sender
    MaxCalls,         \* bound: operations a caller starts
    MaxRetries        \* bound: the largest max_retries in Configs

Config == [max_retries : Nat, send_timeout : Nat \ {0}, send_error_backoff : Nat]

ASSUME NetworkAssumption ==
    /\ Callers # {}
    /\ QueueCap \in Nat \ {0}
    /\ {CONNECT_TIMEOUT, PING_TIMEOUT, SendTimeout} \subseteq Nat \ {0}
    /\ Configs \subseteq Config /\ Configs # {}
    /\ MaxCalls \in Nat
    /\ MaxRetries \in Nat \ {0}
    /\ \A cf \in Configs : cf.max_retries <= MaxRetries

\* Network::send_message calls the retry loop with retries 1 and backoff 100ms.
SendMessageConfig == [max_retries |-> 1, send_timeout |-> SendTimeout,
                      send_error_backoff |-> 1]


\* A caller's request ids are <<caller, n>>; a call issues at most
\* 1 dial and MaxRetries sends.
MaxIds == MaxCalls * (1 + MaxRetries)
ReqId  == Callers \X (1..MaxIds)

\* The OutEvent variants, by the kind of request they carry.
Kinds      == {"Dial", "Send", "Ping", "FindProviders", "Provide"}
HasReply   == {"Dial", "Send", "Ping"}          \* carry a oneshot sender
\* What the driver may complete a oneshot with; "closed" is a dropped sender.
ReplyVals(k) ==
    CASE k = "Send" -> {"ok", "pns", "other", "closed"}  \* Ok(()), ProtocolNotSupported, Other
      [] k = "Dial" -> {"ok_have", "ok_nohave", "refused", "closed"}
      [] k = "Ping" -> {"some", "none", "closed"}        \* Some(rtt), None
AllReplies == UNION {ReplyVals(k) : k \in HasReply}

Results == {"ok", "pns", "unavailable", "failed", "elapsed"}
NoSender == [none |-> TRUE]
Senders  == [cfg : Configs \cup {SendMessageConfig}, have : BOOLEAN]

VARIABLES
    queue,      \* the crossbeam channel: a sequence of [id, kind]
    inflight,   \* events the driver has polled and not yet answered
    reply,      \* reply[id]: what the oneshot of request id was completed with
    pc,         \* pc[c]: "idle", "enq" (at network_out_sender.send), "wait"
                \* (at r.await), "sleep" (backoff) or "done"
    kind,       \* kind[c]: the kind of request the current step of the call sends
    cont,       \* cont[c]: what follows a successful dial: "none", "retry", "store"
    cfg,        \* cfg[c]: the retry configuration of the current call
    calls,      \* calls[c]: operations started so far
    nreq,       \* nreq[c]: requests c has enqueued so far
    firstSend,  \* firstSend[c]: nreq[c] when the retry loop began
    attempt,    \* attempt[c]: the loop index i
    errors,     \* errors[c]: Len(errors) of the retry loop
    backoffs,   \* backoffs[c]: backoff sleeps taken by the retry loop
    left,       \* left[c]: ticks until the enclosing timeout elapses; -1
                \* once a tick has passed after it elapsed
    sleepLeft,  \* sleepLeft[c]: ticks until the backoff sleep ends
    result,     \* result[c]: how the last call ended
    sender      \* sender[c]: the MessageSender c holds, or NoSender

netVars    == <<queue, inflight, reply>>
callVars   == <<pc, kind, cont, cfg, calls, nreq, firstSend, attempt, errors,
                backoffs, left, sleepLeft, result, sender>>
vars       == <<netVars, callVars>>

ReqOf(c) == <<c, nreq[c]>>
SendsIssued(c) == nreq[c] - firstSend[c]
-----------------------------------------------------------------------------
TypeOK ==
    /\ queue \in Seq([id : ReqId, kind : Kinds]) /\ Len(queue) <= QueueCap
    /\ inflight \subseteq [id : ReqId, kind : HasReply]
    /\ reply \in [ReqId -> AllReplies \cup {"pending"}]
    /\ pc \in [Callers -> {"idle", "enq", "wait", "sleep", "done"}]
    /\ kind \in [Callers -> Kinds]
    /\ cont \in [Callers -> {"none", "retry", "store"}]
    /\ cfg \in [Callers -> Configs \cup {SendMessageConfig}]
    /\ calls \in [Callers -> 0..MaxCalls]
    /\ nreq \in [Callers -> 0..MaxIds]
    /\ firstSend \in [Callers -> 0..MaxIds]
    /\ attempt \in [Callers -> Nat]
    /\ errors \in [Callers -> Nat]
    /\ backoffs \in [Callers -> Nat]
    /\ left \in [Callers -> Nat \cup {-1}]
    /\ sleepLeft \in [Callers -> Nat]
    /\ result \in [Callers -> Results \cup {"none"}]
    /\ sender \in [Callers -> Senders \cup {NoSender}]

Init ==
    /\ queue = <<>> /\ inflight = {}
    /\ reply = [id \in ReqId |-> "pending"]
    /\ pc = [c \in Callers |-> "idle"]
    /\ kind = [c \in Callers |-> "Send"]
    /\ cont = [c \in Callers |-> "none"]
    /\ cfg = [c \in Callers |-> SendMessageConfig]
    /\ calls = [c \in Callers |-> 0]
    /\ nreq = [c \in Callers |-> 0]
    /\ firstSend = [c \in Callers |-> 0]
    /\ attempt = [c \in Callers |-> 0]
    /\ errors = [c \in Callers |-> 0]
    /\ backoffs = [c \in Callers |-> 0]
    /\ left = [c \in Callers |-> 0]
    /\ sleepLeft = [c \in Callers |-> 0]
    /\ result = [c \in Callers |-> "none"]
    /\ sender = [c \in Callers |-> NoSender]
-----------------------------------------------------------------------------
(* Starting an operation: its timeout armed, the first event to enqueue. *)
Begin(c, k, timeout, k2, cf) ==
    /\ pc[c] \in {"idle", "done"}
    /\ calls[c] < MaxCalls
    /\ pc' = [pc EXCEPT ![c] = "enq"]
    /\ kind' = [kind EXCEPT ![c] = k]
    /\ cont' = [cont EXCEPT ![c] = k2]
    /\ cfg' = [cfg EXCEPT ![c] = cf]
    /\ calls' = [calls EXCEPT ![c] = @ + 1]
    /\ left' = [left EXCEPT ![c] = timeout]
    /\ result' = [result EXCEPT ![c] = "none"]
    /\ UNCHANGED <<netVars, nreq, firstSend, attempt, errors, backoffs,
                   sleepLeft, sender>>

\* Network::ping: timeout(30s, send GenerateEvent(Ping) then await).
ping(c) == Begin(c, "Ping", PING_TIMEOUT, "none", SendMessageConfig)

\* Network::dial(peer, CONNECT_TIMEOUT).
dial(c) == Begin(c, "Dial", CONNECT_TIMEOUT, "none", SendMessageConfig)

\* Network::new_message_sender: dial, then keep the connection in a MessageSender.
new_message_sender(c) ==
    \E cf \in Configs : Begin(c, "Dial", CONNECT_TIMEOUT, "store", cf)

\* Network::send_message: dial, then the retry loop with retries 1.
send_message(c) ==
    Begin(c, "Dial", CONNECT_TIMEOUT, "retry", SendMessageConfig)

\* Network::find_providers and Network::provide: send and return, no timeout.
find_providers(c) == Begin(c, "FindProviders", 0, "none", SendMessageConfig)
provide(c)        == Begin(c, "Provide", 0, "none", SendMessageConfig)

(* The retry loop of send_message_with_retry_and_timeout, entered with the *)
(* configuration cf: a new timeout of cf.send_timeout is armed.           *)
StartRetry(c, cf) ==
    /\ kind' = [kind EXCEPT ![c] = "Send"]
    /\ cfg' = [cfg EXCEPT ![c] = cf]
    /\ firstSend' = [firstSend EXCEPT ![c] = nreq[c]]
    /\ attempt' = [attempt EXCEPT ![c] = 0]
    /\ errors' = [errors EXCEPT ![c] = 0]
    /\ backoffs' = [backoffs EXCEPT ![c] = 0]
    /\ left' = [left EXCEPT ![c] = cf.send_timeout]
    \* for i in 0..retries: with retries = 0 the loop body never runs: bail!
    /\ IF cf.max_retries = 0
         THEN /\ pc' = [pc EXCEPT ![c] = "done"]
              /\ result' = [result EXCEPT ![c] = "failed"]
         ELSE /\ pc' = [pc EXCEPT ![c] = "enq"]
              /\ UNCHANGED result

\* MessageSender::send_message: the retry loop with the sender's config and
\* Some(connection_id).
sender_send_message(c) ==
    /\ pc[c] \in {"idle", "done"}
    /\ sender[c] # NoSender
    /\ calls[c] < MaxCalls
    /\ calls' = [calls EXCEPT ![c] = @ + 1]
    /\ StartRetry(c, sender[c].cfg)
    /\ cont' = [cont EXCEPT ![c] = "none"]
    /\ UNCHANGED <<netVars, nreq, sleepLeft, sender>>
-----------------------------------------------------------------------------
\* Mutant: an unbounded channel (the capacity guard dropped).
Enqueue_unbounded(c) ==
    /\ pc[c] = "enq"
    /\ nreq[c] < MaxIds
    /\ LET id == <<c, nreq[c] + 1>> IN
         queue' = Append(queue, [id |-> id, kind |-> kind[c]])
    /\ nreq' = [nreq EXCEPT ![c] = @ + 1]
    /\ IF kind[c] \in HasReply
         THEN /\ pc' = [pc EXCEPT ![c] = "wait"]
              /\ UNCHANGED result
         ELSE /\ pc' = [pc EXCEPT ![c] = "done"]
              /\ result' = [result EXCEPT ![c] = "ok"]
    /\ UNCHANGED <<inflight, reply, kind, cont, cfg, calls, firstSend,
                   attempt, errors, backoffs, left, sleepLeft, sender>>

(* network_out_sender.send(event): crossbeam's blocking send.  It is       *)
(* disabled, and the caller's thread stays blocked, while the channel is   *)
(* full.  Events without a oneshot end the call (find_providers, provide). *)
Enqueue(c) ==
    /\ pc[c] = "enq"
    /\ Len(queue) < QueueCap
    /\ nreq[c] < MaxIds
    /\ LET id == <<c, nreq[c] + 1>> IN
         queue' = Append(queue, [id |-> id, kind |-> kind[c]])
    /\ nreq' = [nreq EXCEPT ![c] = @ + 1]
    /\ IF kind[c] \in HasReply
         THEN /\ pc' = [pc EXCEPT ![c] = "wait"]
              /\ UNCHANGED result
         ELSE /\ pc' = [pc EXCEPT ![c] = "done"]
              /\ result' = [result EXCEPT ![c] = "ok"]
    /\ UNCHANGED <<inflight, reply, kind, cont, cfg, calls, firstSend,
                   attempt, errors, backoffs, left, sleepLeft, sender>>

Finish(c, r) ==
    /\ pc' = [pc EXCEPT ![c] = "done"]
    /\ result' = [result EXCEPT ![c] = r]

\* Network::ping: r.await?.ok_or_else(|| "no ping available").
ReceivePing(c) ==
    /\ pc[c] = "wait" /\ kind[c] = "Ping"
    /\ reply[ReqOf(c)] # "pending"
    /\ Finish(c, CASE reply[ReqOf(c)] = "some" -> "ok"
                   [] reply[ReqOf(c)] = "none" -> "unavailable"
                   [] OTHER                    -> "failed")     \* RecvError
    /\ UNCHANGED <<netVars, kind, cont, cfg, calls, nreq, firstSend,
                   attempt, errors, backoffs, left, sleepLeft, sender>>

\* Network::dial's reply, and what new_message_sender and send_message do next.
ReceiveDial(c) ==
    LET r == reply[ReqOf(c)] IN
    /\ pc[c] = "wait" /\ kind[c] = "Dial"
    /\ r # "pending"
    /\ \/ /\ r \in {"refused", "closed"}       \* Dial Error / RecvError
          /\ Finish(c, "failed")
          /\ UNCHANGED <<kind, cfg, firstSend, attempt, errors, backoffs,
                         left, sender>>
       \/ /\ r \in {"ok_have", "ok_nohave"}
          /\ cont[c] \in {"none", "store"}
          /\ Finish(c, "ok")
          /\ sender' = IF cont[c] = "store"
                         THEN [sender EXCEPT ![c] = [cfg |-> cfg[c],
                                                     have |-> r = "ok_have"]]
                         ELSE sender
          /\ UNCHANGED <<kind, cfg, firstSend, attempt, errors, backoffs, left>>
       \/ /\ r \in {"ok_have", "ok_nohave"}
          /\ cont[c] = "retry"
          /\ StartRetry(c, cfg[c])
          /\ UNCHANGED sender
    /\ UNCHANGED <<netVars, cont, calls, nreq, sleepLeft>>

\* Mutant: the backoff test `i < retries` instead of `i < retries - 1`.
ReceiveSend_offbyone(c) ==
    LET r == reply[ReqOf(c)] IN
    /\ pc[c] = "wait" /\ kind[c] = "Send"
    /\ r # "pending"
    /\ \/ /\ r = "ok"
          /\ Finish(c, "ok")
          /\ UNCHANGED <<errors, backoffs, sleepLeft>>
       \/ /\ r = "pns"
          /\ Finish(c, "pns")
          /\ UNCHANGED <<errors, backoffs, sleepLeft>>
       \/ /\ r \in {"other", "closed"}
          /\ errors' = [errors EXCEPT ![c] = @ + 1]
          /\ IF attempt[c] < cfg[c].max_retries
               THEN /\ pc' = [pc EXCEPT ![c] = "sleep"]
                    /\ sleepLeft' = [sleepLeft EXCEPT ![c] = cfg[c].send_error_backoff]
                    /\ backoffs' = [backoffs EXCEPT ![c] = @ + 1]
                    /\ UNCHANGED result
               ELSE /\ Finish(c, "failed")
                    /\ UNCHANGED <<backoffs, sleepLeft>>
    /\ UNCHANGED <<netVars, kind, cont, cfg, calls, nreq, firstSend,
                   attempt, left, sender>>

\* The match on r.await in the retry loop.
ReceiveSend(c) ==
    LET r == reply[ReqOf(c)] IN
    /\ pc[c] = "wait" /\ kind[c] = "Send"
    /\ r # "pending"
    /\ \/ /\ r = "ok"
          /\ Finish(c, "ok")
          /\ UNCHANGED <<errors, backoffs, sleepLeft>>
       \/ /\ r = "pns"
          /\ Finish(c, "pns")
          /\ UNCHANGED <<errors, backoffs, sleepLeft>>
       \/ /\ r \in {"other", "closed"}
          /\ errors' = [errors EXCEPT ![c] = @ + 1]
          /\ IF attempt[c] < cfg[c].max_retries - 1
               THEN /\ pc' = [pc EXCEPT ![c] = "sleep"]
                    /\ sleepLeft' = [sleepLeft EXCEPT ![c] = cfg[c].send_error_backoff]
                    /\ backoffs' = [backoffs EXCEPT ![c] = @ + 1]
                    /\ UNCHANGED result
               \* the last try: the loop ends and bail!s with the errors
               ELSE /\ Finish(c, "failed")
                    /\ UNCHANGED <<backoffs, sleepLeft>>
    /\ UNCHANGED <<netVars, kind, cont, cfg, calls, nreq, firstSend,
                   attempt, left, sender>>

\* tokio::time::sleep(backoff) completes: the next iteration of the loop.
Wake(c) ==
    /\ pc[c] = "sleep"
    /\ sleepLeft[c] = 0
    /\ pc' = [pc EXCEPT ![c] = "enq"]
    /\ attempt' = [attempt EXCEPT ![c] = @ + 1]
    /\ UNCHANGED <<netVars, kind, cont, cfg, calls, nreq, firstSend,
                   errors, backoffs, left, sleepLeft, result, sender>>

\* Mutant: dial and ping await their oneshot without a timeout.
Elapsed_send_only(c) ==
    /\ pc[c] \in {"wait", "sleep"}
    /\ kind[c] = "Send"
    /\ left[c] <= 0
    /\ Finish(c, "elapsed")
    /\ UNCHANGED <<netVars, kind, cont, cfg, calls, nreq, firstSend,
                   attempt, errors, backoffs, left, sleepLeft, sender>>

\* The enclosing tokio::time::timeout elapses while the call is suspended;
\* the request in flight is abandoned.
Elapsed(c) ==
    /\ pc[c] \in {"wait", "sleep"}
    /\ left[c] <= 0
    /\ Finish(c, "elapsed")
    /\ UNCHANGED <<netVars, kind, cont, cfg, calls, nreq, firstSend,
                   attempt, errors, backoffs, left, sleepLeft, sender>>
-----------------------------------------------------------------------------
(* The swarm driver.  Network::poll: try_recv one event, or Poll::Pending. *)
poll ==
    /\ queue # <<>>
    /\ queue' = Tail(queue)
    /\ inflight' = IF Head(queue).kind \in HasReply
                     THEN inflight \cup {Head(queue)}
                     ELSE inflight
    /\ UNCHANGED <<reply, callVars>>

poll_pending ==
    /\ queue = <<>>
    /\ UNCHANGED vars

\* The driver completes a oneshot sender, or drops it, in any order.  A reply
\* to an abandoned request is ignored by the oneshot.
Respond(e, v) ==
    /\ inflight' = inflight \ {e}
    /\ reply' = [reply EXCEPT ![e.id] = v]
    /\ UNCHANGED <<queue, callVars>>

Driver == poll \/ poll_pending \/ \E e \in inflight, v \in AllReplies :
                                      v \in ReplyVals(e.kind) /\ Respond(e, v)
-----------------------------------------------------------------------------
(* A timer that has elapsed while its task is suspended is due: it fires   *)
(* before the next tick.  A task at network_out_sender.send runs      *)
(* synchronously and takes no time, unless the channel is full and the     *)
(* send blocks its thread.                                                 *)
Due(c) ==
    \/ pc[c] \in {"wait", "sleep"} /\ left[c] <= 0
    \/ pc[c] = "sleep" /\ sleepLeft[c] = 0
    \/ pc[c] = "enq" /\ Len(queue) < QueueCap

\* The calls whose timeout is armed: those waiting on a oneshot.
Timed(c) == pc[c] \in {"enq", "wait", "sleep"} /\ kind[c] \in HasReply

Tick ==
    /\ \A c \in Callers : ~Due(c)
    /\ left' = [c \in Callers |-> IF Timed(c) /\ left[c] > -1 THEN left[c] - 1
                                                           ELSE left[c]]
    /\ sleepLeft' = [c \in Callers |-> IF pc[c] = "sleep" /\ sleepLeft[c] > 0
                                        THEN sleepLeft[c] - 1 ELSE sleepLeft[c]]
    /\ UNCHANGED <<netVars, pc, kind, cont, cfg, calls, nreq, firstSend,
                   attempt, errors, backoffs, result, sender>>
-----------------------------------------------------------------------------
Call(c) ==
    \/ ping(c) \/ dial(c) \/ new_message_sender(c) \/ send_message(c)
    \/ sender_send_message(c) \/ find_providers(c) \/ provide(c)

Step(c) ==
    \/ Enqueue(c) \/ ReceivePing(c) \/ ReceiveDial(c) \/ ReceiveSend(c)
    \/ Wake(c) \/ Elapsed(c)

Next ==
    \/ \E c \in Callers : Call(c) \/ Step(c)
    \/ Driver
    \/ Tick

(* The tokio runtime polls every woken task, timers fire, and the swarm   *)
(* loop keeps polling the network; the driver's replies get no fairness.  *)
Fairness ==
    /\ \A c \in Callers : WF_vars(Step(c))
    /\ WF_vars(poll)
    /\ WF_vars(Tick)

Spec == Init /\ [][Next]_vars /\ Fairness
-----------------------------------------------------------------------------
(* The retry loop's accounting: a call never enqueues more than            *)
(* max_retries SendMessage events; a call that ends on success or on the   *)
(* fatal ProtocolNotSupported made no attempt after that answer; a call    *)
(* that exhausts its tries made exactly max_retries attempts, recorded     *)
(* max_retries errors and slept max_retries - 1 backoffs (the loop in      *)
(* send_message_with_retry_and_timeout, and its `i < retries - 1` test).   *)
RetryAccounting ==
    \A c \in Callers :
        kind[c] = "Send" /\ pc[c] # "idle" =>
        LET n == cfg[c].max_retries IN
        /\ SendsIssued(c) <= n
        /\ pc[c] = "done" /\ result[c] \in {"ok", "pns"}
              => SendsIssued(c) = errors[c] + 1
        /\ pc[c] = "done" /\ result[c] = "failed"
              => /\ SendsIssued(c) = n /\ errors[c] = n
                 /\ backoffs[c] = IF n = 0 THEN 0 ELSE n - 1

(* Every operation a caller starts ends: with the driver's answer, with    *)
(* its timeout, or at once for provide and find_providers, even when the   *)
(* driver never answers or drops the oneshot.                              *)
CallEnds ==
    \A c \in Callers : pc[c] \in {"enq", "wait", "sleep"} ~> pc[c] = "done"

(* Spec 4.4/9: no wait of a call outlives its overall deadline.  Checked to *)
(* be violated: a caller blocked in network_out_sender.send on a full      *)
(* channel cannot be preempted by tokio::time::timeout.                    *)
DeadlineRespected ==
    \A c \in Callers :
        pc[c] \in {"enq", "wait", "sleep"} /\ kind[c] \in HasReply
        => left[c] >= 0

(* Spec 8: once the overall deadline has elapsed the engine makes no       *)
(* further attempt.  Checked to be violated: when the backoff sleep and    *)
(* the deadline are ready together, Timeout polls the loop first and it    *)
(* enqueues one more SendMessage before the call reports elapsed.          *)
NoAttemptAfterDeadline ==
    \A c \in Callers :
        pc[c] = "enq" /\ kind[c] = "Send" => left[c] > 0
=============================================================================
