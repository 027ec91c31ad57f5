------------------------- MODULE GatewayClientProofs -------------------------
(***************************************************************************)
(* Proofs about the gateway's response bodies for every bound on the      *)
(* content and every set of failures.                                      *)
(***************************************************************************)
EXTENDS GatewayClient, SequenceTheorems, TLAPS

\* The complete content up to node k.
Upto(k) == [i \in 1..k |-> i]

(* The inductive invariant behind CompleteUnlessPanicked, in parts.  While *)
(* the client reads, the chunks it got and the chunk still in the channel *)
(* are the content before the next node, and the channel ends with the    *)
(* error exactly when the task has aborted; a dropped body has an empty   *)
(* channel; and a finished body has no work left behind.                  *)
BodyInv ==
    /\ item <= size + 1
    /\ cpc = "reading" =>
           \/ chan = <<>> /\ got = Upto(item - 1)
           \/ chan = <<ERR>> /\ got = Upto(item - 1)
           \/ item >= 2 /\ chan = <<item - 1>> /\ got = Upto(item - 2)
           \/ item >= 2 /\ chan = <<item - 1, ERR>> /\ got = Upto(item - 2)
    /\ cpc # "reading" => chan = <<>>

AbortInv ==
    /\ chan \in {<<ERR>>, <<item - 1, ERR>>} => ppc = "aborted"
    /\ ppc = "aborted" /\ cpc = "reading" => chan \in {<<ERR>>, <<item - 1, ERR>>}

PlaceInv ==
    /\ ppc \in {"resolve", "streaming", "rejected"} => chan = <<>>
    /\ ppc \in {"next", "read", "send", "done", "aborted", "panicked"} => "get_file_recursive" \in Handlers
    /\ ppc \in {"read", "send"} => item <= size
    /\ ppc = "done" => item = size + 1
    /\ cpc = "finished" => ppc \notin Running

FinishedInv == cpc = "finished" /\ ppc # "panicked" => got = Upto(size)

GInv == TypeOK /\ BodyInv /\ AbortInv /\ PlaceInv /\ FinishedInv

USE GatewayAssumption DEF ERR, Running

\* Appending the next node to the content up to k gives the content up to k + 1.
LEMMA UptoAppend ==
    ASSUME NEW k \in Nat
    PROVE  Append(Upto(k), k + 1) = Upto(k + 1)
BY DEF Upto

LEMMA UptoType ==
    ASSUME NEW k \in 0..N
    PROVE  Upto(k) \in Seq(1..N)
BY DEF Upto


LEMMA InitGInv == Init => GInv
BY DEF Init, Entry, GInv, TypeOK, BodyInv, AbortInv, PlaceInv, FinishedInv, Upto

\* Appending to a one-element sequence gives the pair.
LEMMA AppendPair ==
    ASSUME NEW x, NEW y
    PROVE  Append(<<x>>, y) = <<x, y>>
<1> DEFINE S == {x, y}
<1>1. <<x>> \in Seq(S) /\ y \in S /\ <<x, y>> \in Seq(S)
  OBVIOUS
<1>2. /\ Append(<<x>>, y) \in Seq(S)
      /\ Len(Append(<<x>>, y)) = 2
      /\ Append(<<x>>, y)[1] = x
      /\ Append(<<x>>, y)[2] = y
  BY <1>1, AppendProperties
<1>3. \A i \in 1..Len(Append(<<x>>, y)) : Append(<<x>>, y)[i] = <<x, y>>[i]
  BY <1>2
<1>4. Len(Append(<<x>>, y)) = Len(<<x, y>>)
  BY <1>2
<1>5. QED
  BY <1>1, <1>2, <1>3, <1>4, SeqEqual

\* The channel's shapes: one or two elements, built by Append, taken by Tail.
LEMMA SeqPairs ==
    ASSUME NEW x, NEW y
    PROVE  /\ Append(<<>>, y) = <<y>>
           /\ Append(<<x>>, y) = <<x, y>>
           /\ Head(<<x>>) = x /\ Tail(<<x>>) = <<>>
           /\ Head(<<x, y>>) = x /\ Tail(<<x, y>>) = <<y>>
           /\ <<>> # <<x>> /\ <<>> # <<x, y>> /\ <<x>> # <<x, y>>
           /\ Len(<<>>) = 0 /\ Len(<<x>>) = 1 /\ Len(<<x, y>>) = 2
<1>1. Append(<<>>, y) = <<y>>
  OBVIOUS
<1>2. Head(<<x>>) = x /\ Tail(<<x>>) = <<>> /\ Head(<<x, y>>) = x /\ Tail(<<x, y>>) = <<y>>
  OBVIOUS
<1>3. <<>> # <<x>> /\ <<>> # <<x, y>> /\ <<x>> # <<x, y>>
  OBVIOUS
<1>4. Len(<<>>) = 0 /\ Len(<<x>>) = 1 /\ Len(<<x, y>>) = 2
  OBVIOUS
<1>5. QED
  BY <1>1, <1>2, <1>3, <1>4, AppendPair

(* While the client reads and the task has not aborted, the channel holds *)
(* at most the chunk before the next node.                                  *)
LEMMA ReadingShapes ==
    ASSUME GInv, cpc = "reading", ppc # "aborted"
    PROVE  \/ chan = <<>> /\ got = Upto(item - 1)
           \/ item >= 2 /\ chan = <<item - 1>> /\ got = Upto(item - 2)
BY DEF GInv, BodyInv, AbortInv

\* The content before node k, for the k the body invariant names.
LEMMA UptoStep ==
    ASSUME NEW k \in 1..N+1
    PROVE  /\ Append(Upto(k - 1), k) = Upto(k)
           /\ Upto(k - 1) \in Seq(1..N)
<1>1. k - 1 \in Nat /\ (k - 1) + 1 = k /\ k - 1 \in 0..N
  OBVIOUS
<1>2. QED
  BY <1>1, UptoAppend, UptoType

LEMMA GetFileGInv ==
    ASSUME GInv, get_file PROVE GInv'
<1>1. ppc = "resolve" /\ cpc # "finished" /\ chan = <<>> /\ UNCHANGED <<size, item, chan, got>>
  BY DEF GInv, PlaceInv, get_file
<1>2. /\ ppc' \in {"streaming", "rejected"}
      /\ cpc' \in {cpc, "failed", "gone"}
      /\ cpc' \in {"reading", "finished"} => cpc' = cpc
  BY DEF get_file
<1>3. QED
  BY <1>1, <1>2 DEF GInv, TypeOK, BodyInv, AbortInv, PlaceInv, FinishedInv

LEMMA PullChunkGInv ==
    ASSUME GInv, pull_chunk PROVE GInv'
<1>0. /\ ppc = "streaming" /\ cpc = "reading" /\ chan = <<>>
      /\ item \in 1..N+1 /\ size \in 0..N /\ item <= size + 1
      /\ UNCHANGED <<ppc, size, chan>>
  BY DEF GInv, TypeOK, BodyInv, PlaceInv, pull_chunk
<1>1. /\ ppc = "streaming" /\ cpc = "reading" /\ chan = <<>>
      /\ got = Upto(item - 1) /\ item \in 1..N+1 /\ size \in 0..N /\ item <= size + 1
      /\ UNCHANGED <<ppc, size, chan>>
  BY <1>0, SeqPairs DEF GInv, BodyInv
<1>2. CASE item <= size /\ got' = Append(got, item) /\ item' = item + 1 /\ UNCHANGED cpc
  <2>1. item + 1 \in 1..N+1 /\ item \in 1..N /\ item + 1 <= size + 1 /\ (item + 1) - 1 = item
    BY <1>1, <1>2
  <2>2. got' = Upto(item' - 1) /\ got' \in Seq(1..N)
    BY <1>1, <1>2, <2>1, UptoStep
  <2>3. QED
    BY <1>1, <1>2, <2>1, <2>2 DEF GInv, TypeOK, BodyInv, AbortInv, PlaceInv, FinishedInv
<1>3. CASE cpc' = "failed" /\ UNCHANGED <<got, item>>
  BY <1>1, <1>3 DEF GInv, TypeOK, BodyInv, AbortInv, PlaceInv, FinishedInv
<1>4. CASE item = size + 1 /\ cpc' = "finished" /\ UNCHANGED <<got, item>>
  BY <1>1, <1>4 DEF GInv, TypeOK, BodyInv, AbortInv, PlaceInv, FinishedInv
<1>5. QED
  BY <1>2, <1>3, <1>4 DEF pull_chunk

LEMMA NextItemGInv ==
    ASSUME GInv, next_item PROVE GInv'
<1>1. /\ ppc = "next" /\ "get_file_recursive" \in Handlers
      /\ UNCHANGED <<size, item, cpc, got>>
  BY DEF GInv, PlaceInv, next_item
<1>2. CASE item = size + 1 /\ ppc' = "done" /\ UNCHANGED chan
  BY <1>1, <1>2 DEF GInv, TypeOK, BodyInv, AbortInv, PlaceInv, FinishedInv
<1>3. CASE item <= size /\ ppc' = "read" /\ UNCHANGED chan
  BY <1>1, <1>3 DEF GInv, TypeOK, BodyInv, AbortInv, PlaceInv, FinishedInv
<1>4. CASE abort /\ ppc' = "aborted"
  <2>1. CASE cpc = "reading"
    <3>1. chan' = Append(chan, ERR)
      BY <1>4, <2>1 DEF abort
    <3>2. CASE chan = <<>> /\ got = Upto(item - 1)
      <4>1. chan' = <<ERR>>
        BY <3>1, <3>2, SeqPairs
      <4>2. QED
        BY <1>1, <1>4, <2>1, <3>2, <4>1 DEF GInv, TypeOK, BodyInv, AbortInv, PlaceInv, FinishedInv
    <3>3. CASE item >= 2 /\ chan = <<item - 1>> /\ got = Upto(item - 2)
      <4>1. chan' = <<item - 1, ERR>>
        BY <3>1, <3>3, SeqPairs
      <4>2. QED
        BY <1>1, <1>4, <2>1, <3>3, <4>1 DEF GInv, TypeOK, BodyInv, AbortInv, PlaceInv, FinishedInv
    <3>4. QED
      BY <1>1, <2>1, <3>2, <3>3, ReadingShapes
  <2>2. CASE cpc # "reading"
    <3>1. chan' = chan /\ chan = <<>>
      BY <1>4, <2>2 DEF abort, GInv, BodyInv
    <3>2. QED
      BY <1>1, <1>4, <2>2, <3>1 DEF GInv, TypeOK, BodyInv, AbortInv, PlaceInv, FinishedInv
  <2>3. QED
    BY <2>1, <2>2
<1>5. QED
  BY <1>2, <1>3, <1>4 DEF next_item

LEMMA ReadToEndGInv ==
    ASSUME GInv, read_to_end PROVE GInv'
<1>1. /\ ppc = "read" /\ "get_file_recursive" \in Handlers
      /\ UNCHANGED <<size, item, chan, cpc, got>>
  BY DEF GInv, PlaceInv, read_to_end
<1>2. CASE ppc' = "send"
  BY <1>1, <1>2 DEF GInv, TypeOK, BodyInv, AbortInv, PlaceInv, FinishedInv
<1>3. CASE "read" \in Faults /\ ppc' = "panicked"
  BY <1>1, <1>3 DEF GInv, TypeOK, BodyInv, AbortInv, PlaceInv, FinishedInv
<1>4. QED
  BY <1>2, <1>3 DEF read_to_end

LEMMA SendDataGInv ==
    ASSUME GInv, send_data PROVE GInv'
<1>1. /\ ppc = "send" /\ "get_file_recursive" \in Handlers
      /\ item \in 1..N /\ item <= size /\ size \in 0..N
      /\ UNCHANGED <<size, cpc, got>>
  BY DEF GInv, TypeOK, PlaceInv, send_data
<1>2. CASE cpc # "reading" /\ ppc' = "panicked" /\ UNCHANGED <<item, chan>>
  BY <1>1, <1>2 DEF GInv, TypeOK, BodyInv, AbortInv, PlaceInv, FinishedInv
<1>3. CASE /\ cpc = "reading" /\ chan = <<>>
           /\ chan' = <<item>> /\ item' = item + 1 /\ ppc' = "next"
  <2>1. got = Upto(item - 1)
    BY <1>1, <1>3, ReadingShapes
  <2>2. /\ item' >= 2 /\ item' - 1 = item /\ item' - 2 = item - 1
        /\ item' \in 1..N+1 /\ item' <= size + 1
    BY <1>1, <1>3
  <2>3. chan' \in Seq({ERR} \cup 1..N) /\ Len(chan') <= 2
    BY <1>1, <1>3
  <2>4. chan' \notin {<<ERR>>, <<item' - 1, ERR>>}
    BY <1>1, <1>3
  <2>5. QED
    BY <1>1, <1>3, <2>1, <2>2, <2>3, <2>4
       DEF GInv, TypeOK, BodyInv, AbortInv, PlaceInv, FinishedInv
<1>4. QED
  BY <1>2, <1>3 DEF send_data

LEMMA PollDataGInv ==
    ASSUME GInv, poll_data PROVE GInv'
<1>1. /\ cpc = "reading" /\ chan # <<>>
      /\ chan' = Tail(chan) /\ UNCHANGED <<ppc, size, item>>
      /\ item \in 1..N+1 /\ item <= size + 1
  BY DEF GInv, TypeOK, BodyInv, poll_data
<1>2. CASE chan = <<ERR>> /\ got = Upto(item - 1)
  <2>1. Head(chan) = ERR /\ chan' = <<>>
    BY <1>1, <1>2, SeqPairs
  <2>2. cpc' = "failed" /\ UNCHANGED got
    BY <1>1, <2>1 DEF poll_data
  <2>3. QED
    BY <1>1, <1>2, <2>1, <2>2 DEF GInv, TypeOK, BodyInv, AbortInv, PlaceInv, FinishedInv
<1>3. CASE item >= 2 /\ chan \in {<<item - 1>>, <<item - 1, ERR>>} /\ got = Upto(item - 2)
  <2>1. Head(chan) = item - 1 /\ item - 1 # ERR /\ item - 1 \in 1..N
    BY <1>1, <1>3, SeqPairs
  <2>2. got' = Append(got, item - 1) /\ UNCHANGED cpc
    BY <1>1, <2>1 DEF poll_data
  <2>3. got' = Upto(item - 1) /\ got' \in Seq(1..N)
    <3>1. item - 1 \in 1..N+1 /\ (item - 1) - 1 = item - 2
      BY <1>1, <2>1
    <3>2. /\ Append(Upto((item - 1) - 1), item - 1) = Upto(item - 1)
          /\ Upto(item - 1) \in Seq(1..N)
      <4>1. item - 1 \in Nat /\ item - 1 \in 0..N /\ (item - 2) + 1 = item - 1 /\ item - 2 \in Nat
        BY <1>1, <2>1
      <4>2. Append(Upto(item - 2), (item - 2) + 1) = Upto((item - 2) + 1)
        BY <4>1, UptoAppend
      <4>3. QED
        BY <3>1, <4>1, <4>2, UptoType
    <3>3. QED
      BY <1>3, <2>2, <3>1, <3>2
  <2>4. CASE chan = <<item - 1>>
    <3>1. chan' = <<>>
      BY <1>1, <2>4, SeqPairs
    <3>2. QED
      BY <1>1, <1>3, <2>2, <2>3, <2>4, <3>1, SeqPairs
         DEF GInv, TypeOK, BodyInv, AbortInv, PlaceInv, FinishedInv
  <2>5. CASE chan = <<item - 1, ERR>>
    <3>1. chan' = <<ERR>>
      BY <1>1, <2>5, SeqPairs
    <3>2. ppc = "aborted"
      BY <2>5 DEF GInv, AbortInv
    <3>3. QED
      BY <1>1, <1>3, <2>2, <2>3, <2>5, <3>1, <3>2, SeqPairs
         DEF GInv, TypeOK, BodyInv, AbortInv, PlaceInv, FinishedInv
  <2>6. QED
    BY <1>3, <2>4, <2>5
<1>4. QED
  BY <1>1, <1>2, <1>3 DEF GInv, BodyInv

LEMMA PollEofGInv ==
    ASSUME GInv, poll_eof PROVE GInv'
<1>1. /\ cpc = "reading" /\ chan = <<>> /\ ppc \in {"done", "aborted", "panicked"}
      /\ cpc' = "finished" /\ UNCHANGED <<ppc, size, item, chan, got>>
  BY DEF poll_eof
<1>2. CASE ppc = "panicked"
  BY <1>1, <1>2 DEF GInv, TypeOK, BodyInv, AbortInv, PlaceInv, FinishedInv
<1>3. CASE ppc # "panicked"
  <2>1. ppc = "done" /\ item = size + 1 /\ got = Upto(item - 1)
    BY <1>1, <1>3 DEF GInv, BodyInv, AbortInv, PlaceInv
  <2>2. QED
    BY <1>1, <2>1 DEF GInv, TypeOK, BodyInv, AbortInv, PlaceInv, FinishedInv
<1>4. QED
  BY <1>2, <1>3

LEMMA DisconnectGInv ==
    ASSUME GInv, disconnect PROVE GInv'
<1>1. /\ cpc = "reading" /\ cpc' = "gone" /\ chan' = <<>>
      /\ UNCHANGED <<ppc, size, item, got>>
  BY DEF disconnect
<1>2. QED
  BY <1>1 DEF GInv, TypeOK, BodyInv, AbortInv, PlaceInv, FinishedInv


\* GInv holds in every state, for every bound and every set of failures.
LEMMA GInvHolds == Spec => []GInv
<1>1. Init => GInv
  BY InitGInv
<1>2. GInv /\ [Next]_vars => GInv'
  <2> SUFFICES ASSUME GInv, [Next]_vars PROVE GInv'
    OBVIOUS
  <2>1. CASE get_file
    BY <2>1, GetFileGInv
  <2>2. CASE next_item
    BY <2>2, NextItemGInv
  <2>3. CASE read_to_end
    BY <2>3, ReadToEndGInv
  <2>4. CASE send_data
    BY <2>4, SendDataGInv
  <2>5. CASE pull_chunk
    BY <2>5, PullChunkGInv
  <2>6. CASE poll_data
    BY <2>6, PollDataGInv
  <2>7. CASE poll_eof
    BY <2>7, PollEofGInv
  <2>8. CASE disconnect
    BY <2>8, DisconnectGInv
  <2>9. CASE UNCHANGED vars
    BY <2>9 DEF vars, GInv, TypeOK, BodyInv, AbortInv, PlaceInv, FinishedInv
  <2>10. QED
    BY <2>1, <2>2, <2>3, <2>4, <2>5, <2>6, <2>7, <2>8, <2>9 DEF Next, Task, Server
<1>3. QED
  BY <1>1, <1>2, PTL DEF Spec

(* Whatever fails, for every bound: a response the client sees end        *)
(* cleanly is the whole content unless the recursive task panicked in      *)
(* read_to_end's or send_data's unwrap.  get_file reports a read error as *)
(* a failed body, and get_file_recursive aborts the body on every resolver *)
(* and pretty() error and otherwise drops the sender only after the last  *)
(* node has been sent.                                                      *)
THEOREM CompleteUnlessPanickedHolds == Spec => []CompleteUnlessPanicked
<1>1. GInv => CompleteUnlessPanicked
  BY DEF GInv, FinishedInv, CompleteUnlessPanicked, Upto
<1>2. QED
  BY <1>1, GInvHolds, PTL

(* Every state of either handler is well typed for every bound, set of    *)
(* failures and handler: the body channel never holds more than a chunk   *)
(* and abort()'s error, so send_data's wait for the slot is what bounds it. *)
THEOREM GatewayTypeOK == Spec => []TypeOK
<1>1. GInv => TypeOK
  BY DEF GInv
<1>2. QED
  BY <1>1, GInvHolds, PTL

=============================================================================
