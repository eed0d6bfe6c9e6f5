------------------------------- MODULE Tables -------------------------------
(* Tables as functions on the keys that have a row. *)

\* A table of one row.
Row(key, value) == [k \in {key} |-> value]

\* INSERT ... ON CONFLICT DO UPDATE of the rows new: they are added to the
\* table, or replace its rows of the same keys.
Upserted(new, table) ==
    [k \in DOMAIN new \cup DOMAIN table |-> IF k \in DOMAIN new THEN new[k] ELSE table[k]]

=============================================================================
