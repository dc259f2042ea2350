---------------------------- MODULE SpatialIndex ----------------------------
(***************************************************************************)
(* What the users of a collision tree rely on: a set of entries, each a    *)
(* box with an entity, of which one operation adds one, gives one another  *)
(* box, or takes one away, and never touches the others.                   *)
(***************************************************************************)
EXTENDS Functions

VARIABLE entries  \* entries[i]: the box and the entity of handle i

Others(i) == Restrict(entries, DOMAIN entries \ {i})

Init == entries = << >>

(* One entry is new: the others are there as they were. *)
Add == \E i \in DOMAIN entries' \ DOMAIN entries :
         /\ DOMAIN entries' = DOMAIN entries \union {i}
         /\ Restrict(entries', DOMAIN entries) = entries

Rebox == /\ DOMAIN entries' = DOMAIN entries
         /\ \E i \in DOMAIN entries :
              /\ entries'[i].data = entries[i].data
              /\ Restrict(entries', DOMAIN entries \ {i}) = Others(i)

Remove == \E i \in DOMAIN entries : entries' = Others(i)

Next == Add \/ Rebox \/ Remove

Spec == Init /\ [][Next]_entries
=============================================================================
