-------------------------------- MODULE Mirror --------------------------------
(***************************************************************************)
(* What a level-triggered controller promises of the value it shows: it    *)
(* only ever shows what it fetched from the source, fetches nothing but    *)
(* the value of that moment, and stops owing work on a key only while what *)
(* it shows is what the source holds.                                      *)
(***************************************************************************)
CONSTANTS
  Keys,
  Values,  \* of the source
  Blank    \* no value: nothing shown, nothing in hand

VARIABLES
  source,  \* the value to show for each key
  seen,    \* what the controller has in hand for a key; Blank: no value
  used,    \* the keys in use
  shown,   \* what it shows
  due      \* the keys it owes work on

vars == <<source, seen, used, shown, due>>

Init ==
  /\ source \in [Keys -> Values]
  /\ seen = [k \in Keys |-> Blank]
  /\ used \subseteq Keys
  /\ shown = seen
  /\ due = used

\* The debt on k may be taken on at any time, and dropped once there is none.
Settle(k) ==
  /\ due' \in {due \cup {k}, due \ {k}}
  /\ k \in used' /\ shown'[k] # source'[k] => k \in due'

Keep(k) == seen' \in {seen, [seen EXCEPT ![k] = Blank]}

\* The source changes, possibly by the controller's own doing.
Change(k) ==
  /\ \E v \in Values :
       /\ source' = [source EXCEPT ![k] = v]
       /\ Keep(k) \/ seen' = [seen EXCEPT ![k] = v]
  /\ UNCHANGED <<used, shown>>
  /\ Settle(k)

\* The key comes into use, or goes out of use with what was shown for it.
Enter(k) ==
  /\ used' = used \cup {k}
  /\ UNCHANGED <<source, seen, shown>>
  /\ Settle(k)

Leave(k) ==
  /\ used' = used \ {k}
  /\ shown' = [shown EXCEPT ![k] = Blank]
  /\ UNCHANGED <<source, seen>>
  /\ Settle(k)

Fetch(k) ==
  /\ seen' = [seen EXCEPT ![k] = source[k]]
  /\ UNCHANGED <<source, used, shown>>
  /\ Settle(k)

Show(k) ==
  /\ seen[k] # Blank
  /\ shown' = [shown EXCEPT ![k] = seen[k]]
  /\ UNCHANGED <<source, used>>
  /\ Keep(k)
  /\ Settle(k)

Drop(k) ==
  /\ UNCHANGED <<source, used, shown>>
  /\ Keep(k)
  /\ Settle(k)

\* Nothing is in hand any more; what is not shown is owed again.
Crash ==
  /\ seen' = [k \in Keys |-> Blank]
  /\ due' \subseteq Keys
  /\ {k \in used : shown[k] # source[k]} \subseteq due'
  /\ UNCHANGED <<source, used, shown>>

Next ==
  \/ Crash
  \/ \E k \in Keys : Change(k) \/ Enter(k) \/ Leave(k) \/ Fetch(k) \/ Show(k) \/ Drop(k)

Spec == Init /\ [][Next]_vars
===============================================================================
