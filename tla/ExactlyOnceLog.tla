--------------------------- MODULE ExactlyOnceLog ---------------------------
(***************************************************************************)
(* What an idempotent producer is promised of a partition: its sends are   *)
(* stored whole, in the order it made them, each exactly once, and a send  *)
(* is confirmed only when it is stored.                                    *)
(***************************************************************************)
EXTENDS Naturals, Sequences

CONSTANTS
  Client,  \* the idempotent producers
  Layout   \* Layout[n]: what the n-th send of a client holds, a sequence

VARIABLES
  entries,   \* the stored batches <<client, send, part>>, in offset order
  confirmed  \* the sends <<client, send>> that a client knows are stored

vars == <<entries, confirmed>>

Stored(c) == {entries[i][2] : i \in {j \in DOMAIN entries : entries[j][1] = c}}

Init == entries = <<>> /\ confirmed = {}

\* Send n of client c is stored, the first time it arrives in turn.
Store(c, n) ==
  /\ Stored(c) = 1..(n - 1)
  /\ entries' = entries \o [i \in DOMAIN Layout[n] |-> <<c, n, i>>]

Confirm(c, n) == n \in Stored(c)' /\ confirmed' = confirmed \cup {<<c, n>>}

Next ==
  \E c \in Client, n \in DOMAIN Layout :
    /\ Store(c, n) \/ UNCHANGED entries
    /\ Confirm(c, n) \/ UNCHANGED confirmed

Spec == Init /\ [][Next]_vars
=============================================================================
