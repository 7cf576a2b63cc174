----------------------------- MODULE HashChain ------------------------------
(***************************************************************************)
(* server/app/domain/chain.py, and what the event table gives back of a    *)
(* row: pure operators.                                                    *)
(*                                                                         *)
(* SHA-256 is taken as injective: a record hash is the pair of what it was *)
(* computed from.  Of the protected fields, `data` stands for those stored *)
(* as they are hashed (sha256, fuzzy_hash, name, event_type ...); metadata *)
(* goes through JSON text.                                                 *)
(***************************************************************************)
EXTENDS Naturals, Sequences, FiniteSetsExt

CONSTANTS
    NoMeta,      \* metadata: None, the column's NULL
    EmptyMeta    \* metadata: {} (or another falsy JSON value)

NoHash == <<>>

\* event_payload and compute_record_hash.
RecordHash(data, meta, prev) == <<data, meta, prev>>

\* add_event: `json.dumps(...) if ev.metadata else None`.
Stored(meta) == IF meta = EmptyMeta THEN NoMeta ELSE meta

LastHash(rows) == IF rows = <<>> THEN NoHash ELSE rows[Len(rows)].record_hash

\* Mutant of add_event: the oldest hash instead of the newest.
FirstHash(rows) == IF rows = <<>> THEN NoHash ELSE rows[1].record_hash

PrevHash(rows) == LastHash(rows)

\* The row add_event inserts: hashed over the request's metadata, stored as text.
NewRow(rows, data, meta) ==
    [data |-> data, metadata |-> Stored(meta), prev_hash |-> PrevHash(rows),
     record_hash |-> RecordHash(data, meta, PrevHash(rows))]

\* verify_chain on the rows as they are read back: what it compares at row i.
Linked(rows, i) ==
    rows[i].prev_hash = IF i = 1 THEN NoHash ELSE rows[i - 1].record_hash

Rehashes(rows, i) ==
    rows[i].record_hash = RecordHash(rows[i].data, rows[i].metadata, rows[i].prev_hash)

\* Mutant of verify_chain: the link to the previous row is not compared.
BrokenByHashOnly(rows) == {i \in DOMAIN rows : ~Rehashes(rows, i)}

BrokenRows(rows) == {i \in DOMAIN rows : ~Linked(rows, i) \/ ~Rehashes(rows, i)}

\* verify_chain: the first broken row, 0 for an intact chain.
VerifyChain(rows) == IF BrokenRows(rows) = {} THEN 0 ELSE Min(BrokenRows(rows))

=============================================================================
