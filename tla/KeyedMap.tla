------------------------------- MODULE KeyedMap -------------------------------
(***************************************************************************)
(* What the array of a repeated element promises to the application that   *)
(* writes it and to the one that reads it: it is a map from keys to        *)
(* values, and the reader gets the map as it was when it was sent - or     *)
(* nothing, should the writer have been stopped by an assertion.           *)
(***************************************************************************)
EXTENDS Integers, Sequences

CONSTANTS Key, Value

VARIABLES
  asked,      \* what the last Put asked for, <<key, value>>, or <<>>
  map,        \* what has been put in since the last Reset
  sent,       \* what was on its way last
  delivered,  \* whether it has arrived
  stopped     \* nothing more is put in

vars == <<asked, map, sent, delivered, stopped>>

Empty == [k \in {} |-> 0]

Init == asked = <<>> /\ map = Empty /\ sent = Empty /\ delivered = TRUE /\ stopped = FALSE

\* The value of one key is set; those of the others stay.
Put(k, v) ==
  /\ ~stopped /\ delivered
  /\ asked' = <<k, v>>
  /\ map' = [j \in DOMAIN map \cup {k} |-> IF j = k THEN v ELSE map[j]]
  /\ UNCHANGED <<sent, delivered, stopped>>

Reset ==
  /\ ~stopped /\ delivered
  /\ asked' = <<>>
  /\ map' = Empty
  /\ UNCHANGED <<sent, delivered, stopped>>

Stop ==
  /\ ~stopped /\ delivered
  /\ stopped' = TRUE
  /\ UNCHANGED <<asked, map, sent, delivered>>

Send ==
  /\ ~stopped /\ delivered
  /\ sent' = map
  /\ delivered' = FALSE
  /\ UNCHANGED <<asked, map, stopped>>

Deliver ==
  /\ ~delivered
  /\ delivered' = TRUE
  /\ UNCHANGED <<asked, map, sent, stopped>>

Next ==
  \/ \E k \in Key, v \in Value : Put(k, v)
  \/ Reset \/ Stop \/ Send \/ Deliver

Spec == Init /\ [][Next]_vars
=============================================================================
