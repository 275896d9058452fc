----------------------------- MODULE FiniteMap -----------------------------
(***************************************************************************)
(* What a hash table promises: it is a finite map.  Only an insertion adds *)
(* a key, only a deletion removes one, and the results say which of the    *)
(* two cases it was.  An insertion may also report that the table could    *)
(* not grow; the key is then stored all the same.                          *)
(***************************************************************************)
EXTENDS Integers

CONSTANTS Key, Value

VARIABLES map, ret, open   \* open: between its initialisation and its clearing

Init == map = <<>> /\ ret = 0 /\ open = TRUE

Put(old, new, key, value) ==
  /\ open = TRUE /\ open' = TRUE
  /\ ret' \in IF key \in DOMAIN old THEN {0} ELSE {1, -1}
  /\ DOMAIN new = DOMAIN old \cup {key}
  /\ new[key] = value
  /\ \A k \in DOMAIN old \ {key} : new[k] = old[k]

Remove(old, new, key) ==
  /\ open = TRUE /\ open' = TRUE
  /\ ret' = IF key \in DOMAIN old THEN 0 ELSE -1
  /\ DOMAIN new = DOMAIN old \ {key}
  /\ \A k \in DOMAIN new : new[k] = old[k]

Clear(new) == open = TRUE /\ open' = FALSE /\ new = <<>> /\ ret' = 0

Open(new) == open = FALSE /\ open' = TRUE /\ new = <<>> /\ ret' = 0

\* TLC evaluates the two maps once per step when they are bound like this.
Next ==
  \E old \in {map}, new \in {map'} :
    \/ \E key \in Key, value \in Value : Put(old, new, key, value)
    \/ \E key \in Key : Remove(old, new, key)
    \/ Clear(new)
    \/ Open(new)

Spec == Init /\ [][Next]_<<map, ret, open>>

=============================================================================
