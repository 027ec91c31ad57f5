---------------------------- MODULE GatewayClient ----------------------------
(***************************************************************************)
(* The response bodies of the HTTP gateway's Client in                    *)
(* src/iroh-gateway/src/client.rs, and the HTTP server that writes them   *)
(* to the client.                                                          *)
(*                                                                         *)
(* get_file resolves one path and returns a body that streams the file's  *)
(* reader; the server pulls its chunks.  get_file_recursive returns a      *)
(* channel body at once and spawns a task that walks the resolver's       *)
(* stream, reads each node to the end and sends it into the channel, and   *)
(* aborts the body when the resolver fails.  The task and the server run  *)
(* concurrently; the channel holds one chunk, and abort() queues an error *)
(* behind it.  Dropping the sender (the task ends or panics) ends the     *)
(* body as if it were complete.  A node's content is its index: the body  *)
(* is complete when the client got 1..size in order.                      *)
(***************************************************************************)
EXTENDS Naturals, Sequences

CONSTANTS
    N,        \* bound: nodes the resolver yields, or chunks of the one file
    Faults,   \* the failures the environment may produce
    Handlers  \* the handlers that may serve the request

FaultKinds == {"resolve", "pretty", "read", "disconnect"}

ASSUME GatewayAssumption ==
    /\ N \in Nat \ {0}
    /\ Faults \subseteq FaultKinds
    /\ Handlers \subseteq {"get_file", "get_file_recursive"} /\ Handlers # {}

VARIABLES
    ppc,    \* the handler, or the spawned task of get_file_recursive
    size,   \* the nodes the resolver's stream yields, or the file's chunks
    item,   \* the next node (chunk) to be read
    chan,   \* the body channel: chunks, and the error abort() queues
    cpc,    \* the server writing the response to the client
    got     \* the chunks the client has received

vars == <<ppc, size, item, chan, cpc, got>>

ERR == 0                                        \* the error abort() sends
Running == {"resolve", "next", "read", "send"}  \* handler or task still at work

\* Where each handler starts: get_file resolves, the recursive task loops.
Entry == [get_file |-> "resolve", get_file_recursive |-> "next"]

TypeOK ==
    /\ ppc \in Running \cup {"streaming", "rejected", "done", "aborted", "panicked"}
    /\ size \in 0..N
    /\ item \in 1..N+1
    /\ chan \in Seq({ERR} \cup 1..N) /\ Len(chan) <= 2
    /\ cpc \in {"reading", "finished", "failed", "gone"}
    /\ got \in Seq(1..N)

\* get_file_recursive creates Body::channel() and spawns the task, which
\* pins resolve_recursive(path); get_file starts by resolving.  The content
\* is any number of nodes or chunks up to the bound, none included.
Init ==
    /\ ppc \in {Entry[h] : h \in Handlers}
    /\ size \in 0..N
    /\ item = 1
    /\ chan = <<>>
    /\ cpc = "reading"
    /\ got = <<>>
-----------------------------------------------------------------------------
(* get_file: resolve(path).await and res.pretty(..); either error is the  *)
(* handler's Err, an error response, unless the client has gone.          *)
get_file ==
    /\ ppc = "resolve"
    /\ \/ /\ ppc' = "streaming"
          /\ UNCHANGED cpc
       \/ /\ Faults \cap {"resolve", "pretty"} # {}
          /\ ppc' = "rejected"
          /\ cpc' = IF cpc = "gone" THEN "gone" ELSE "failed"
    /\ UNCHANGED <<size, item, chan, got>>

(* The server polls the ReaderStream of get_file's body: a chunk, a read  *)
(* error (the body fails) or the end of the file.                         *)
pull_chunk ==
    /\ ppc = "streaming" /\ cpc = "reading"
    /\ \/ /\ item <= size
          /\ got' = Append(got, item)
          /\ item' = item + 1
          /\ UNCHANGED cpc
       \/ /\ item <= size /\ "read" \in Faults
          /\ cpc' = "failed"
          /\ UNCHANGED <<got, item>>
       \/ /\ item = size + 1
          /\ cpc' = "finished"
          /\ UNCHANGED <<got, item>>
    /\ UNCHANGED <<ppc, size, chan>>
-----------------------------------------------------------------------------
\* sender.abort(): the error goes through a clone of the sender, so it is
\* queued even when the chunk slot is full; a dropped body ignores it.
abort ==
    chan' = IF cpc = "reading" THEN Append(chan, ERR) ELSE chan

\* Mutant: an Err item breaks the loop without sender.abort().
next_item_no_abort ==
    /\ ppc = "next"
    /\ \/ /\ item = size + 1
          /\ ppc' = "done"
          /\ UNCHANGED chan
       \/ /\ item <= size
          /\ ppc' = "read"
          /\ UNCHANGED chan
       \/ /\ item <= size /\ "pretty" \in Faults
          /\ abort
          /\ ppc' = "aborted"
       \/ /\ item <= size /\ "resolve" \in Faults
          /\ ppc' = "aborted"
          /\ UNCHANGED chan
    /\ UNCHANGED <<size, item, cpc, got>>

(* while let Some(res) = res.next().await: None ends the loop and drops   *)
(* the sender; Ok(res) goes on to pretty(), whose error aborts and breaks; *)
(* an Err item aborts and breaks.                                          *)
next_item ==
    /\ ppc = "next"
    /\ \/ /\ item = size + 1
          /\ ppc' = "done"
          /\ UNCHANGED chan
       \/ /\ item <= size
          /\ ppc' = "read"
          /\ UNCHANGED chan
       \/ /\ item <= size /\ "pretty" \in Faults
          /\ abort
          /\ ppc' = "aborted"
       \/ /\ item <= size /\ "resolve" \in Faults
          /\ abort
          /\ ppc' = "aborted"
    /\ UNCHANGED <<size, item, cpc, got>>

\* reader.read_to_end(&mut bytes).await.unwrap(): a read error panics the
\* task, which drops the sender.
read_to_end ==
    /\ ppc = "read"
    /\ \/ ppc' = "send"
       \/ /\ "read" \in Faults
          /\ ppc' = "panicked"
    /\ UNCHANGED <<size, item, chan, cpc, got>>

\* Mutant: the chunk is pushed without waiting for the slot.
send_data_unbounded ==
    /\ ppc = "send"
    /\ \/ /\ cpc # "reading"
          /\ ppc' = "panicked"
          /\ UNCHANGED <<item, chan>>
       \/ /\ cpc = "reading"
          /\ chan' = Append(chan, item)
          /\ item' = item + 1
          /\ ppc' = "next"
    /\ UNCHANGED <<size, cpc, got>>

\* Mutant: send_data retried until it succeeds instead of unwrapped.
send_data_retry ==
    /\ ppc = "send"
    /\ \/ /\ cpc # "reading"
          /\ UNCHANGED <<ppc, item, chan>>
       \/ /\ cpc = "reading" /\ chan = <<>>
          /\ chan' = <<item>>
          /\ item' = item + 1
          /\ ppc' = "next"
    /\ UNCHANGED <<size, cpc, got>>

(* sender.send_data(bytes).await.unwrap(): it waits for the slot to be    *)
(* free; when the body has been dropped it returns Err and the unwrap     *)
(* panics the task.                                                        *)
send_data ==
    /\ ppc = "send"
    /\ \/ /\ cpc # "reading"
          /\ ppc' = "panicked"
          /\ UNCHANGED <<item, chan>>
       \/ /\ cpc = "reading" /\ chan = <<>>
          /\ chan' = <<item>>
          /\ item' = item + 1
          /\ ppc' = "next"
    /\ UNCHANGED <<size, cpc, got>>
-----------------------------------------------------------------------------
(* The server polls the channel body: a chunk goes to the client, the     *)
(* aborted error fails the response, and an empty channel whose sender is *)
(* gone ends it.                                                            *)
poll_data ==
    /\ cpc = "reading" /\ chan # <<>>
    /\ \/ /\ Head(chan) # ERR
          /\ got' = Append(got, Head(chan))
          /\ UNCHANGED cpc
       \/ /\ Head(chan) = ERR
          /\ cpc' = "failed"
          /\ UNCHANGED got
    /\ chan' = Tail(chan)
    /\ UNCHANGED <<ppc, size, item>>

poll_eof ==
    /\ cpc = "reading" /\ chan = <<>>
    /\ ppc \in {"done", "aborted", "panicked"}
    /\ cpc' = "finished"
    /\ UNCHANGED <<ppc, size, item, chan, got>>

\* The client closes the connection: the server drops the body.
disconnect ==
    /\ "disconnect" \in Faults /\ cpc = "reading"
    /\ cpc' = "gone"
    /\ chan' = <<>>
    /\ UNCHANGED <<ppc, size, item, got>>
-----------------------------------------------------------------------------
Task == get_file \/ next_item \/ read_to_end \/ send_data

Server == pull_chunk \/ poll_data \/ poll_eof

Next == Task \/ Server \/ disconnect

(* tokio runs the spawned task whenever it can proceed, and the server    *)
(* keeps polling the body while the client reads; the client may leave at *)
(* any time or never.                                                       *)
Spec == Init /\ [][Next]_vars /\ WF_vars(Task) /\ WF_vars(Server)
-----------------------------------------------------------------------------
(* A response the client sees end cleanly carries the whole content: the  *)
(* recursive handler aborts the body on a resolver or pretty() error so    *)
(* that a failure is never taken for the end of the data.                  *)
CleanEndMeansComplete ==
    cpc = "finished" => got = [i \in 1..size |-> i]

(* Every request ends: the response is finished, failed or dropped, and   *)
(* the handler and its task are over, also when the client has left while *)
(* the task was waiting to send.                                            *)
Ends == <>(cpc # "reading" /\ ppc \notin Running)

(* What both handlers achieve whatever fails: a response the client sees  *)
(* end cleanly is the whole content unless the recursive task panicked.   *)
(* get_file turns a read error into a failed body; the recursive task      *)
(* aborts on resolver and pretty() errors and otherwise ends the loop only *)
(* after the last node (client.rs:129-170).                                 *)
CompleteUnlessPanicked ==
    cpc = "finished" /\ ppc # "panicked" => got = [i \in 1..size |-> i]
=============================================================================
