-------------------------- MODULE BroadcastStream --------------------------
(***************************************************************************)
(* What the capture ring promises its readers, without ring, slots or      *)
(* attempts: a stream of numbered words; each reader gets consecutive      *)
(* words, each at most once and in order, except that a reader more than   *)
(* Capacity behind is moved forward in one counted lap.                    *)
(***************************************************************************)
EXTENDS Integers, Sequences

CONSTANTS
  Capacity,   \* how far a reader may lag before it can lose words
  Quarter,    \* how far inside the window a lapped reader is put back
  Sizes,      \* how many words the producer may have announced in advance
  Readers

VARIABLES
  published,  \* words published so far
  attached,   \* has the reader joined the stream?
  next,       \* the next word the reader will get
  laps,       \* laps counted for the reader
  got         \* the words of its last delivery, << >> once it asks again

vars == <<published, attached, next, laps, got>>

Init ==
  /\ published = 0
  /\ attached = [r \in Readers |-> FALSE]
  /\ next = [r \in Readers |-> 0]
  /\ laps = [r \in Readers |-> 0]
  /\ got = [r \in Readers |-> << >>]

Publish(n) ==
  /\ published' = published + n
  /\ UNCHANGED <<attached, next, laps, got>>

\* A reader joins at "now": it never sees words older than itself.
Attach(r) ==
  /\ ~attached[r]
  /\ attached' = [attached EXCEPT ![r] = TRUE]
  /\ next' = [next EXCEPT ![r] = published]
  /\ UNCHANGED <<published, laps, got>>

Ask(r) ==
  /\ got' = [got EXCEPT ![r] = << >>]
  /\ UNCHANGED <<published, attached, next, laps>>

\* The next n words, only published ones, only while none is out of the window.
Deliver(r, n) ==
  /\ attached[r]
  /\ next[r] + n <= published
  /\ published <= next[r] + Capacity
  /\ got' = [got EXCEPT ![r] = [i \in 1..n |-> next[r] + i - 1]]
  /\ next' = [next EXCEPT ![r] = @ + n]
  /\ UNCHANGED <<published, attached, laps>>

\* Words are lost only here: the producer has announced n more words, the
\* reader's next word falls out of the window, and the loss is counted.
Lap(r, n) ==
  /\ attached[r]
  /\ published + n - next[r] > Capacity
  /\ next' = [next EXCEPT ![r] = published + n - Capacity + Quarter]
  /\ laps' = [laps EXCEPT ![r] = @ + 1]
  /\ got' = [got EXCEPT ![r] = << >>]
  /\ UNCHANGED <<published, attached>>

Next ==
  \/ \E n \in Sizes : Publish(n)
  \/ \E r \in Readers :
       \/ Attach(r)
       \/ Ask(r)
       \/ \E n \in 1 .. published - next[r] : Deliver(r, n)
       \/ \E n \in Sizes \cup {0} : Lap(r, n)

Spec == Init /\ [][Next]_vars
=============================================================================
