---------------------------- MODULE AbstractLru ----------------------------
(***************************************************************************)
(* What lru_cache.h promises: a map from ids to values of at most Capacity *)
(* entries.  Adding or retrieving an entry makes it the one used last; an  *)
(* entry added to a full cache replaces the one used longest ago.          *)
(***************************************************************************)
EXTENDS Integers, Sequences, SequencesExt

CONSTANTS Capacity, Ids, Values, NoValue

VARIABLES
  recency,    \* the ids in the cache, the one used last first
  contents,   \* their values
  result      \* what the last call returned

vars == <<recency, contents, result>>

Init ==
  /\ recency = <<>>
  /\ contents = [id \in {} |-> NoValue]
  /\ result = NoValue

Present(id) == id \in ToSet(recency)

\* ids with id in front, and nowhere else.
UsedNow(id, ids) ==
  LET at == CHOOSE k \in DOMAIN ids : ids[k] = id
  IN  Cons(id, IF id \in ToSet(ids) THEN RemoveAt(ids, at) ELSE ids)

Hit(id) ==
  /\ Present(id)
  /\ recency' = UsedNow(id, recency)
  /\ result' = contents[id]
  /\ UNCHANGED contents

Miss(id) ==
  /\ ~Present(id)
  /\ result' = NoValue
  /\ UNCHANGED <<recency, contents>>

Put(id, v) ==
  /\ recency' = UsedNow(id, IF Present(id) \/ Len(recency) < Capacity
                            THEN recency ELSE Front(recency))
  /\ contents' = [x \in ToSet(recency') |-> IF x = id THEN v ELSE contents[x]]
  /\ result' = v

Next ==
  \E id \in Ids :
    \/ Hit(id)
    \/ Miss(id)
    \/ \E v \in Values : Put(id, v)

Spec == Init /\ [][Next]_vars
=============================================================================
