----------------------------- MODULE ByteStream -----------------------------
(***************************************************************************)
(* What a pair of threads is promised by a ring of uucpd: a first-in       *)
(* first-out stream of bytes, of bounded capacity, from one sender to one  *)
(* receiver.  Byte number i is the i-th byte sent.                         *)
(***************************************************************************)
EXTENDS Naturals, Sequences

CONSTANTS Capacity, MaxChunk

VARIABLES
  queue,     \* the bytes on their way, oldest first
  inHand,    \* the bytes the receiver has taken and not yet passed on
  sent,      \* how many bytes were sent
  received   \* how many bytes the receiver has passed on

vars == <<queue, inHand, sent, received>>

Init == queue = <<>> /\ inHand = <<>> /\ sent = 0 /\ received = 0

Send(n) ==
  /\ Len(queue) + n <= Capacity
  /\ queue' = queue \o [i \in 1 .. n |-> sent + i]
  /\ sent' = sent + n
  /\ UNCHANGED <<inHand, received>>

Take(n) ==
  /\ inHand = <<>>
  /\ n <= Len(queue)
  /\ inHand' = SubSeq(queue, 1, n)
  /\ queue' = SubSeq(queue, n + 1, Len(queue))
  /\ UNCHANGED <<sent, received>>

Receive ==
  /\ inHand # <<>>
  /\ inHand' = <<>>
  /\ received' = received + Len(inHand)
  /\ UNCHANGED <<queue, sent>>

TakeSome == \E n \in 1 .. MaxChunk : Take(n)

Next == TakeSome \/ Receive \/ \E n \in 1 .. MaxChunk : Send(n)

Spec == Init /\ [][Next]_vars

FairSpec == Spec /\ WF_vars(TakeSome) /\ WF_vars(Receive)

=============================================================================
