---------------------------- MODULE MonitorQueue ----------------------------
(***************************************************************************)
(* What the monitor path promises: the guitarist hears the captured words  *)
(* in order, each at most once; when the output stalls only the newest     *)
(* Limit words are kept; when there is nothing to hear, silence fills up   *)
(* the end of a chunk and nothing else.                                    *)
(***************************************************************************)
EXTENDS Integers, Sequences

CONSTANTS Limit, Sizes

VARIABLES
  taken,   \* words ever captured
  queue,   \* captured words not heard yet, oldest first
  heard    \* the chunk handed out last

vars == <<taken, queue, heard>>

Words(from, n) == [i \in 1..n |-> from + i - 1]
Quiet(n) == [i \in 1..n |-> -1]
Newest(s) == IF Len(s) <= Limit THEN s ELSE SubSeq(s, Len(s) - Limit + 1, Len(s))

Init == taken = 0 /\ queue = << >> /\ heard = << >>

Put(n) ==
  /\ queue' = Newest(queue \o Words(taken, n))
  /\ taken' = taken + n
  /\ UNCHANGED heard

Get(n) ==
  \E k \in 0..n :
    /\ k = n \/ k = Len(queue)
    /\ k <= Len(queue)
    /\ heard' = SubSeq(queue, 1, k) \o Quiet(n - k)
    /\ queue' = SubSeq(queue, k + 1, Len(queue))
    /\ UNCHANGED taken

Next == \E n \in Sizes : Put(n) \/ Get(n)

Spec == Init /\ [][Next]_vars
=============================================================================
