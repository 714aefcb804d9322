----------------------------- MODULE RecordStore -----------------------------
(***************************************************************************)
(* What the repository promises the Room service: one atomic record per    *)
(* Room.  A write is built on everything the record held before it, a      *)
(* removal takes everything away, and only what has taken effect is ever   *)
(* acknowledged.                                                           *)
(***************************************************************************)
CONSTANTS
    Codes,   \* Room codes
    Writes,  \* names of writes
    None     \* no record

VARIABLES
    record,   \* per Room: the writes its record is built from, or None
    removed,  \* writes that a removal has taken away
    acked     \* writes answered with success

store == <<record, removed, acked>>

Held == UNION {record[c] : c \in {d \in Codes : record[d] # None}}

Init == record = [c \in Codes |-> None] /\ removed = {} /\ acked = {}

Create(c, write) ==
    /\ record[c] = None /\ write \notin Held \cup removed
    /\ record' = [record EXCEPT ![c] = {write}]
    /\ UNCHANGED <<removed, acked>>

Update(c, write) ==
    /\ record[c] # None /\ write \notin Held \cup removed
    /\ record' = [record EXCEPT ![c] = @ \cup {write}]
    /\ UNCHANGED <<removed, acked>>

Remove(c) ==
    /\ record[c] # None
    /\ removed' = removed \cup record[c]
    /\ record' = [record EXCEPT ![c] = None]
    /\ UNCHANGED acked

Acknowledge(write) ==
    /\ write \in Held \cup removed
    /\ acked' = acked \cup {write}
    /\ UNCHANGED <<record, removed>>

Next ==
    \/ \E c \in Codes : Remove(c)
    \/ \E write \in Writes :
        Acknowledge(write) \/ \E c \in Codes : Create(c, write) \/ Update(c, write)

Spec == Init /\ [][Next]_store
=============================================================================
