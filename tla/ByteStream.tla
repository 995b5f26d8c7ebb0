----------------------------- MODULE ByteStream -----------------------------
(***************************************************************************)
(* What a transport promises of one direction of a line: bytes come out in  *)
(* the order in which they were put in, none twice, and unless the line is  *)
(* lossy none is left out.  The bytes are numbered as they are put in.      *)
(***************************************************************************)
EXTENDS Integers, Sequences

CONSTANTS
  MaxBytes,  \* the bytes ever put in
  Lossy      \* the receiving end may refuse bytes

VARIABLES
  put,     \* the number of bytes put in
  queue,   \* the bytes on their way
  out      \* the bytes that came out

stream == <<put, queue, out>>

Init == put = 0 /\ queue = <<>> /\ out = <<>>

Put ==
  /\ \E n \in 1..(MaxBytes - put):
       /\ put' = put + n
       /\ queue' = queue \o [i \in 1..n |-> put + i]
  /\ UNCHANGED out

\* The first m bytes leave the queue and the first k of them come out.
Deliver ==
  /\ \E m \in 1..Len(queue):
       \E k \in (IF Lossy THEN 0..m ELSE {m}):
         /\ out' = out \o SubSeq(queue, 1, k)
         /\ queue' = SubSeq(queue, m + 1, Len(queue))
  /\ UNCHANGED put

Next == Put \/ Deliver

Spec == Init /\ [][Next]_stream
=============================================================================
