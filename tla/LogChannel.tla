----------------------------- MODULE LogChannel -----------------------------
(***************************************************************************)
(* What the shared memory promises as a way for logs from the BIOS to the  *)
(* BMC, without regions, pointers, flags and restarts.  Logs are numbered  *)
(* 1, 2, ... in the order they are sent.  They are received in batches, in *)
(* this order and none twice: all of them if the channel is reliable, some *)
(* of them if it is lossy.  A number below 1 stands for something received *)
(* that is no log: 0 for the empty entry that zeroed memory parses as, and *)
(* a negative one for bytes that passed a checksum by accident, after      *)
(* which nothing is promised.  Nor is anything once the channel broke,     *)
(* which it may or may not be able to.                                     *)
(***************************************************************************)
EXTENDS Integers, Sequences

CONSTANT Lossy   \* TRUE or FALSE

VARIABLES sent,       \* number of logs the BIOS has sent
          received,   \* what the BMC has received, oldest first
          broken      \* whether the channel broke

channel == <<sent, received, broken>>

(* What r can hold when n logs were sent: logs in the order they were      *)
(* sent, with any number of empty entries among them, or ...               *)
InOrderUpTo(r, n) ==
  /\ \A i \in DOMAIN r : r[i] \in 0 .. n
  /\ \A i, j \in DOMAIN r : i < j /\ r[j] # 0 => r[i] < r[j]

(* ... the first logs, each of them.                                       *)
CompleteUpTo(r, n) == Len(r) <= n /\ \A i \in DOMAIN r : r[i] = i

Promised(r, n) ==
  IF Lossy
  THEN InOrderUpTo(r, n) \/ \E i \in DOMAIN r : r[i] < 0
  ELSE CompleteUpTo(r, n)

Init == sent = 0 /\ received = <<>> /\ broken = FALSE

Send == sent' = sent + 1 /\ UNCHANGED <<received, broken>>

Break == ~broken /\ broken' = TRUE /\ UNCHANGED <<sent, received>>

(* One batch of at least one.                                              *)
Receive ==
  /\ Len(received') > Len(received)
  /\ SubSeq(received', 1, Len(received)) = received
  /\ broken \/ Promised(received', sent)
  /\ UNCHANGED <<sent, broken>>

Next == Send \/ Receive \/ Break

Spec == Init /\ [][Next]_channel

=============================================================================
