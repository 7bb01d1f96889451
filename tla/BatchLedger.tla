---------------------------- MODULE BatchLedger ----------------------------
(***************************************************************************)
(* What an embedding writer promises about one modality, without files,    *)
(* sessions or crashes: every batch with rows has at most one durable      *)
(* value, which is only lost to damage, and the modality is sealed once,   *)
(* when every value is present and none is damaged.                        *)
(***************************************************************************)
CONSTANTS
  Items,    \* the batches that have rows
  Values,   \* what a batch may be embedded to
  Nothing   \* no durable value

VARIABLES
  value,    \* the durable value of each batch
  damaged,  \* batches whose record suffered damage not yet made good
  sealed    \* the modality is sealed

ledger == <<value, damaged, sealed>>

Init == /\ value = [i \in Items |-> Nothing]
        /\ damaged = {}
        /\ sealed = FALSE

Commit(i, v) == /\ ~sealed /\ value[i] = Nothing
                /\ value' = [value EXCEPT ![i] = v]
                /\ UNCHANGED <<damaged, sealed>>

\* Damage may leave the value readable (its description rotted) or not.
Damage(i) == /\ damaged' = damaged \cup {i}
             /\ \/ value' = value
                \/ value' = [value EXCEPT ![i] = Nothing]
             /\ UNCHANGED sealed

\* Repair gives up a damaged value, so that it can be committed again.
Discard(i) == /\ ~sealed /\ i \in damaged
              /\ value' = [value EXCEPT ![i] = Nothing]
              /\ UNCHANGED <<damaged, sealed>>

Restore(i) == /\ ~sealed /\ i \in damaged /\ value[i] # Nothing
              /\ damaged' = damaged \ {i}
              /\ UNCHANGED <<value, sealed>>

Seal == /\ ~sealed /\ damaged = {}
        /\ \A i \in Items : value[i] # Nothing
        /\ sealed' = TRUE
        /\ UNCHANGED <<value, damaged>>

Next == \/ \E i \in Items, v \in Values : Commit(i, v)
        \/ \E i \in Items : Damage(i) \/ Discard(i) \/ Restore(i)
        \/ Seal

Spec == Init /\ [][Next]_ledger
=============================================================================
