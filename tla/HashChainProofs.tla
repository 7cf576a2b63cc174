-------------------------- MODULE HashChainProofs ---------------------------
(***************************************************************************)
(* What verify_chain is worth, for every sequence of rows: rows that were  *)
(* only ever added by add_event form a chain, and a chain in which one     *)
(* protected field was changed, or from which a row with a successor was   *)
(* deleted, does not verify.                                               *)
(*                                                                         *)
(* Deleting a row is found because no two rows have the same record_hash.  *)
(* A new row's hash contains the one before it, so if it were equal to an  *)
(* older one, the hashes before the two would be equal already: rows only  *)
(* added at the end keep their hashes apart (AppendChain).                 *)
(***************************************************************************)
EXTENDS HashChain, FiniteSetTheorems, SequenceTheorems, TLAPS

\* A table: a sequence, of whatever rows.
IsRows(rows) == rows \in Seq({rows[i] : i \in DOMAIN rows})

\* A row as add_event wrote it: hashed over the metadata it was given, which is not
\* always what it stored.
AsWritten(row) ==
    /\ DOMAIN row = {"data", "metadata", "prev_hash", "record_hash"}
    /\ row.record_hash = RecordHash(row.data, row.record_hash[2], row.prev_hash)
    /\ row.metadata = Stored(row.record_hash[2])

\* Rows as add_event leaves them.
Chain(rows) ==
    /\ IsRows(rows)
    /\ \A i \in DOMAIN rows : Linked(rows, i) /\ AsWritten(rows[i])
    /\ \A i, j \in DOMAIN rows : rows[i].record_hash = rows[j].record_hash => i = j

-----------------------------------------------------------------------------
(* Numbers and sequences of rows *)

\* Row numbers have a least one: of the intervals up to them, one contains no other.
LEMMA LeastNatural ==
    ASSUME NEW S, S \subseteq Nat, S # {}
    PROVE  \E x \in S : \A y \in S : x <= y
  <1> DEFINE upTo == {1 .. x : x \in S}
  <1>1. upTo \subseteq FiniteSubsetsOf(Nat) /\ upTo # {}
    <2>1. \A x \in S : 1 .. x \in SUBSET Nat /\ IsFiniteSet(1 .. x)
      BY FS_Interval
    <2> QED
      BY <2>1 DEF FiniteSubsetsOf
  <1>2. PICK T \in upTo : \A U \in upTo : ~ (<<U, T>> \in StrictSubsetOrdering(Nat))
    BY <1>1, FS_StrictSubsetOrderingWellFounded, WFMin
  <1>3. PICK x \in S : T = 1 .. x
    BY <1>2
  <1>4. ASSUME NEW y \in S, ~(x <= y)
        PROVE  FALSE
    <2>1. 1 .. y \subseteq 1 .. x /\ x \in 1 .. x /\ x \notin 1 .. y /\ 1 .. x \subseteq Nat
      BY <1>4
    <2>2. <<1 .. y, 1 .. x>> \in StrictSubsetOrdering(Nat)
      BY <2>1 DEF StrictSubsetOrdering
    <2> QED
      BY <1>2, <1>3, <2>2
  <1> QED
    BY <1>4

\* The type of a sequence of rows is the rows it has.
LEMMA RowsFacts ==
    ASSUME NEW rows, IsRows(rows)
    PROVE  Len(rows) \in Nat /\ DOMAIN rows = 1 .. Len(rows)
  BY DEF IsRows

\* add_event adds its row behind the others.
LEMMA AddRow ==
    ASSUME NEW rows, IsRows(rows), NEW row
    PROVE  LET new == Append(rows, row) IN
           /\ IsRows(new)
           /\ Len(new) = Len(rows) + 1 /\ DOMAIN new = 1 .. (Len(rows) + 1)
           /\ new[Len(rows) + 1] = row
           /\ \A i \in 1 .. Len(rows) : new[i] = rows[i]
  <1> DEFINE S == {rows[i] : i \in DOMAIN rows} \cup {row}
             new == Append(rows, row)
  <1>1. rows \in Seq(S) /\ row \in S
    BY DEF IsRows
  <1>2. /\ new \in Seq(S) /\ Len(new) = Len(rows) + 1 /\ DOMAIN new = 1 .. (Len(rows) + 1)
        /\ new[Len(rows) + 1] = row
        /\ \A i \in 1 .. Len(rows) : new[i] = rows[i]
    BY <1>1
  <1>3. IsRows(new)
    BY <1>2 DEF IsRows
  <1> QED
    BY <1>2, <1>3

\* UPDATE of one row.
LEMMA UpdateRow ==
    ASSUME NEW rows, IsRows(rows), NEW i \in DOMAIN rows, NEW row
    PROVE  LET new == [rows EXCEPT ![i] = row] IN
           /\ IsRows(new)
           /\ DOMAIN new = DOMAIN rows /\ new[i] = row
           /\ \A k \in DOMAIN rows \ {i} : new[k] = rows[k]
  <1> DEFINE S == {rows[k] : k \in DOMAIN rows} \cup {row}
             new == [rows EXCEPT ![i] = row]
  <1>1. rows \in Seq(S) /\ row \in S /\ i \in 1 .. Len(rows)
    BY DEF IsRows
  <1>2. DOMAIN new = DOMAIN rows /\ new[i] = row /\ \A k \in DOMAIN rows \ {i} : new[k] = rows[k]
    OBVIOUS
  <1> HIDE DEF S
  <1>3. new \in Seq(S)
    BY <1>1, ExceptSeq
  <1> HIDE DEF new
  <1>4. IsRows(new)
    BY <1>3 DEF IsRows
  <1> QED
    BY <1>2, <1>4 DEF new

\* The hash of a row names the hash before it, and is never "no hash".
LEMMA HashFacts ==
    ASSUME NEW data, NEW meta, NEW prev
    PROVE  LET hash == RecordHash(data, meta, prev) IN
           /\ hash # NoHash
           /\ hash[1] = data /\ hash[2] = meta /\ hash[3] = prev
  BY DEF RecordHash, NoHash

\* A row is linked by the hash before it, whatever else is in it.
LEMMA LinkedFacts ==
    ASSUME NEW rows, Chain(rows), NEW i \in DOMAIN rows
    PROVE  /\ i \in 1 .. Len(rows)
           /\ rows[i].record_hash # NoHash
           /\ rows[i].record_hash[1] = rows[i].data
           /\ rows[i].record_hash[3] = rows[i].prev_hash
           /\ rows[i].record_hash[3] = IF i = 1 THEN NoHash ELSE rows[i - 1].record_hash
  <1>1. rows[i].record_hash = RecordHash(rows[i].data, rows[i].record_hash[2], rows[i].prev_hash)
    BY DEF Chain, AsWritten
  <1>2. /\ rows[i].record_hash # NoHash
        /\ rows[i].record_hash[1] = rows[i].data
        /\ rows[i].record_hash[3] = rows[i].prev_hash
    BY <1>1, HashFacts
  <1>3. rows[i].prev_hash = IF i = 1 THEN NoHash ELSE rows[i - 1].record_hash
    BY DEF Chain, Linked
  <1>4. i \in 1 .. Len(rows)
    BY RowsFacts DEF Chain
  <1> QED
    BY <1>2, <1>3, <1>4

\* The hash the next row would get is not the hash of a row.
LEMMA NewHash ==
    ASSUME NEW rows, Chain(rows), NEW data, NEW meta, NEW j \in DOMAIN rows
    PROVE  rows[j].record_hash # RecordHash(data, meta, PrevHash(rows))
  <1> SUFFICES ASSUME rows[j].record_hash = RecordHash(data, meta, PrevHash(rows))
               PROVE  FALSE
    OBVIOUS
  <1>1. Len(rows) \in Nat /\ DOMAIN rows = 1 .. Len(rows) /\ j \in 1 .. Len(rows)
    BY RowsFacts DEF Chain
  <1>2. rows # <<>> /\ Len(rows) \in DOMAIN rows
    BY <1>1
  <1>3. rows[j].record_hash[3] = rows[Len(rows)].record_hash
    BY <1>2, HashFacts DEF PrevHash, LastHash
  <1>4. CASE j = 1
    BY <1>2, <1>3, <1>4, LinkedFacts
  <1>5. CASE j # 1
    <2>1. j - 1 \in DOMAIN rows /\ j - 1 # Len(rows)
      BY <1>1, <1>5
    <2>2. rows[j - 1].record_hash = rows[Len(rows)].record_hash
      BY <1>3, <1>5, LinkedFacts
    <2> QED
      BY <1>2, <2>1, <2>2 DEF Chain
  <1> QED
    BY <1>4, <1>5

-----------------------------------------------------------------------------
(* Chains *)

\* An empty table is a chain.
LEMMA EmptyChain == Chain(<<>>)
  BY DEF Chain, IsRows

\* add_event extends a chain to a chain.
LEMMA AppendChain ==
    ASSUME NEW rows, Chain(rows), NEW data, NEW meta
    PROVE  Chain(Append(rows, NewRow(rows, data, meta)))
  <1> DEFINE row == NewRow(rows, data, meta)
             new == Append(rows, row)
             n == Len(rows)
  <1>1. /\ n \in Nat /\ DOMAIN rows = 1 .. n
        /\ IsRows(rows)
    BY RowsFacts DEF Chain
  <1>2. /\ row.record_hash = RecordHash(data, meta, PrevHash(rows))
        /\ row.prev_hash = PrevHash(rows) /\ row.data = data /\ row.metadata = Stored(meta)
        /\ DOMAIN row = {"data", "metadata", "prev_hash", "record_hash"}
    BY DEF NewRow
  <1> HIDE DEF row
  <1>3. /\ IsRows(new)
        /\ DOMAIN new = 1 .. (n + 1) /\ new[n + 1] = row
        /\ \A i \in 1 .. n : new[i] = rows[i]
    BY <1>1, AddRow
  <1> HIDE DEF new
  <1>4. AsWritten(row)
    BY <1>2, HashFacts DEF AsWritten
  <1>5. Linked(new, n + 1)
    <2>1. CASE n = 0
      BY <1>1, <1>2, <1>3, <2>1 DEF Linked, PrevHash, LastHash
    <2>2. CASE n # 0
      <3>1. rows # <<>> /\ n \in 1 .. n /\ (n + 1) - 1 = n /\ n + 1 # 1
        BY <1>1, <2>2
      <3> QED
        BY <1>2, <1>3, <3>1 DEF Linked, PrevHash, LastHash
    <2> QED
      BY <2>1, <2>2
  <1>6. ASSUME NEW i \in 1 .. n
        PROVE  Linked(new, i) /\ AsWritten(new[i])
    <2>1. Linked(rows, i) /\ AsWritten(rows[i]) /\ (i = 1 \/ i - 1 \in 1 .. n)
      BY <1>1 DEF Chain
    <2> QED
      BY <1>3, <2>1 DEF Linked
  <1>7. ASSUME NEW i \in 1 .. (n + 1), NEW j \in 1 .. (n + 1),
               new[i].record_hash = new[j].record_hash
        PROVE  i = j
    <2>1. \A k \in 1 .. n : rows[k].record_hash # row.record_hash
      BY <1>1, <1>2, NewHash
    <2>2. CASE i \in 1 .. n /\ j \in 1 .. n
      BY <1>1, <1>3, <1>7, <2>2 DEF Chain
    <2>3. CASE i = n + 1 \/ j = n + 1
      BY <1>1, <1>3, <1>7, <2>1, <2>3
    <2> QED
      BY <1>1, <2>2, <2>3
  <1>8. \A i \in DOMAIN new : Linked(new, i) /\ AsWritten(new[i])
    BY <1>1, <1>3, <1>4, <1>5, <1>6
  <1> QED
    BY <1>3, <1>7, <1>8 DEF Chain, new, row

-----------------------------------------------------------------------------
(* verify_chain *)

\* It names the first broken row.
LEMMA BrokenIsNamed ==
    ASSUME NEW rows, IsRows(rows), BrokenRows(rows) # {}
    PROVE  VerifyChain(rows) \in BrokenRows(rows) /\ VerifyChain(rows) # 0
  <1>1. BrokenRows(rows) \subseteq Nat /\ 0 \notin BrokenRows(rows)
    BY RowsFacts DEF BrokenRows
  <1>2. PICK x \in BrokenRows(rows) : \A y \in BrokenRows(rows) : x <= y
    BY <1>1, LeastNatural
  <1>3. Min(BrokenRows(rows)) \in BrokenRows(rows)
    BY <1>2 DEF Min
  <1> QED
    BY <1>1, <1>3 DEF VerifyChain

\* A row that hashes to its record_hash no longer does when one field is another.
THEOREM ChangeIsFound ==
    ASSUME NEW rows, Chain(rows), NEW i \in DOMAIN rows,
           NEW new, IsRows(new), i \in DOMAIN new,
           new[i].record_hash = rows[i].record_hash,
           \/ new[i].data # rows[i].data
           \/ /\ new[i].metadata # rows[i].metadata
              /\ \E meta : new[i].metadata = Stored(meta)
    PROVE  VerifyChain(new) # 0
  <1>1. ~Rehashes(new, i)
    <2> SUFFICES ASSUME Rehashes(new, i) PROVE FALSE
      OBVIOUS
    <2>1. rows[i].record_hash[1] = new[i].data /\ rows[i].record_hash[2] = new[i].metadata
      BY HashFacts DEF Rehashes
    <2>2. rows[i].record_hash[1] = rows[i].data
      BY LinkedFacts
    <2>3. rows[i].metadata = Stored(new[i].metadata)
      BY <2>1 DEF Chain, AsWritten
    <2> QED
      BY <2>1, <2>2, <2>3 DEF Stored
  <1>2. i \in BrokenRows(new)
    BY <1>1 DEF BrokenRows
  <1> QED
    BY <1>2, BrokenIsNamed

\* DELETE of one row: the rows before and behind it.
LEMMA DeleteFacts ==
    ASSUME NEW rows, IsRows(rows), NEW i \in DOMAIN rows,
           i < Len(rows)
    PROVE  LET new == SubSeq(rows, 1, i - 1) \o SubSeq(rows, i + 1, Len(rows)) IN
           /\ IsRows(new)
           /\ Len(new) = Len(rows) - 1 /\ DOMAIN new = 1 .. (Len(rows) - 1)
           /\ \A k \in DOMAIN new : \E j \in DOMAIN rows : new[k] = rows[j]
           /\ \A k \in 1 .. (i - 1) : new[k] = rows[k]
           /\ new[i] = rows[i + 1]
  <1> DEFINE S == {rows[k] : k \in DOMAIN rows}
             front == SubSeq(rows, 1, i - 1)
             back == SubSeq(rows, i + 1, Len(rows))
             new == front \o back
  <1>1. /\ Len(rows) \in Nat /\ DOMAIN rows = 1 .. Len(rows) /\ i \in 1 .. Len(rows)
        /\ rows \in Seq(S)
    BY RowsFacts DEF IsRows
  <1>2. /\ front \in Seq(S) /\ Len(front) = i - 1 /\ \A k \in 1 .. (i - 1) : front[k] = rows[k]
        /\ back \in Seq(S) /\ Len(back) = Len(rows) - i /\ back[1] = rows[i + 1]
    <2>1. \A k \in 1 .. Len(rows) : rows[k] \in S
      BY <1>1
    <2> HIDE DEF S
    <2>2. /\ front \in Seq(S) /\ Len(front) = i - 1
          /\ \A k \in 1 .. (i - 1) : front[k] = rows[k]
      BY <1>1, <2>1
    <2>3. back \in Seq(S) /\ Len(back) = Len(rows) - i /\ back[1] = rows[i + 1]
      BY <1>1, <2>1
    <2> QED
      BY <2>2, <2>3
  <1> HIDE DEF front, back
  <1>3. /\ new \in Seq(S) /\ Len(new) = Len(front) + Len(back)
        /\ \A k \in 1 .. Len(front) + Len(back) :
              new[k] = IF k <= Len(front) THEN front[k] ELSE back[k - Len(front)]
    <2> HIDE DEF S
    <2>1. front \in Seq(S) /\ back \in Seq(S)
      BY <1>2
    <2> QED
      BY <2>1, ConcatProperties
  <1> HIDE DEF new
  <1>4. i \in 1 .. Len(front) + Len(back) /\ ~(i <= Len(front)) /\ i - Len(front) = 1
    BY <1>1, <1>2
  <1>5. \A k \in 1 .. (i - 1) : k \in 1 .. Len(front) + Len(back) /\ k <= Len(front)
    BY <1>1, <1>2
  <1>6. Len(new) = Len(rows) - 1
    BY <1>1, <1>2, <1>3
  <1>7. new[i] = rows[i + 1]
    BY <1>2, <1>3, <1>4
  <1>8. \A k \in 1 .. (i - 1) : new[k] = rows[k]
    BY <1>2, <1>3, <1>5
  <1>9. /\ DOMAIN new = 1 .. (Len(rows) - 1)
        /\ \A k \in DOMAIN new : new[k] \in S
    <2>1. new \in Seq(S)
      BY <1>3
    <2> HIDE DEF S
    <2>2. DOMAIN new = 1 .. Len(new) /\ \A k \in 1 .. Len(new) : new[k] \in S
      BY <2>1
    <2> QED
      BY <1>6, <2>2
  <1>10. IsRows(new)
    <2>1. new \in Seq(S)
      BY <1>3
    <2> HIDE DEF S
    <2> QED
      BY <2>1 DEF IsRows
  <1> QED
    BY <1>6, <1>7, <1>8, <1>9, <1>10 DEF new, front, back

\* Rows without one that had a successor: the successor is not linked.
LEMMA DeletedIsBroken ==
    ASSUME NEW rows, Chain(rows), NEW i \in DOMAIN rows, i < Len(rows)
    PROVE  LET new == SubSeq(rows, 1, i - 1) \o SubSeq(rows, i + 1, Len(rows)) IN
           IsRows(new) /\ i \in BrokenRows(new)
  <1> DEFINE new == SubSeq(rows, 1, i - 1) \o SubSeq(rows, i + 1, Len(rows))
  <1>1. /\ Len(rows) \in Nat /\ DOMAIN rows = 1 .. Len(rows) /\ i \in 1 .. Len(rows)
        /\ IsRows(rows)
    BY RowsFacts DEF Chain
  <1>2. /\ IsRows(new) /\ DOMAIN new = 1 .. (Len(rows) - 1)
        /\ \A k \in 1 .. (i - 1) : new[k] = rows[k]
        /\ new[i] = rows[i + 1]
    BY <1>1, DeleteFacts
  <1> HIDE DEF new
  <1>3. i \in DOMAIN new /\ i + 1 \in DOMAIN rows /\ (i + 1) - 1 = i /\ i + 1 # 1
    BY <1>1, <1>2
  <1>4. new[i].prev_hash = rows[i].record_hash
    BY <1>2, <1>3 DEF Chain, Linked
  <1>5. ~Linked(new, i)
    <2>1. CASE i = 1
      BY <1>4, <2>1, LinkedFacts DEF Linked
    <2>2. CASE i # 1
      <3>1. i - 1 \in 1 .. (i - 1) /\ i - 1 \in DOMAIN rows /\ i - 1 # i
        BY <1>1, <2>2
      <3>2. rows[i - 1].record_hash # rows[i].record_hash
        BY <3>1 DEF Chain
      <3> QED
        BY <1>2, <1>4, <2>2, <3>1, <3>2 DEF Linked
    <2> QED
      BY <2>1, <2>2
  <1>6. i \in BrokenRows(new)
    BY <1>3, <1>5 DEF BrokenRows
  <1> QED
    BY <1>2, <1>6 DEF new

\* So verify_chain finds the deletion.
THEOREM DeletionIsFound ==
    ASSUME NEW rows, Chain(rows), NEW i \in DOMAIN rows, i < Len(rows)
    PROVE  LET new == SubSeq(rows, 1, i - 1) \o SubSeq(rows, i + 1, Len(rows)) IN
           VerifyChain(new) # 0
  BY DeletedIsBroken, BrokenIsNamed

-----------------------------------------------------------------------------
(* Where it stops *)

\* A row that verify_chain would recompute to its hash: the metadata it was hashed
\* over came back from the table.
ReadBack(row) == row.record_hash[2] # EmptyMeta

\* Such a row of a chain is not broken.
LEMMA ReadBackRow ==
    ASSUME NEW rows, Chain(rows), NEW i \in DOMAIN rows, ReadBack(rows[i])
    PROVE  i \notin BrokenRows(rows)
  <1>1. Linked(rows, i) /\ AsWritten(rows[i])
    BY DEF Chain
  <1>2. rows[i].metadata = rows[i].record_hash[2]
    BY <1>1 DEF AsWritten, Stored, ReadBack
  <1>3. Rehashes(rows, i)
    BY <1>1, <1>2 DEF AsWritten, Rehashes
  <1> QED
    BY <1>1, <1>3 DEF BrokenRows

\* Whether a row is broken is decided by it and the row before it.
LEMMA SameFront ==
    ASSUME NEW rows, IsRows(rows), NEW new, IsRows(new),
           NEW i \in DOMAIN rows, i \in DOMAIN new,
           \A k \in 1 .. i : new[k] = rows[k]
    PROVE  i \in BrokenRows(new) <=> i \in BrokenRows(rows)
  <1>1. i \in 1 .. Len(rows) /\ Len(rows) \in Nat
    BY RowsFacts
  <1>2. i \in 1 .. i /\ (i # 1 => i - 1 \in 1 .. i)
    BY <1>1
  <1>3. new[i] = rows[i] /\ (i # 1 => new[i - 1] = rows[i - 1])
    BY <1>2
  <1> QED
    BY <1>3 DEF BrokenRows, Linked, Rehashes

\* A broken row behind rows that are not is the one that is named.
LEMMA FirstIsNamed ==
    ASSUME NEW rows, IsRows(rows), NEW i \in BrokenRows(rows),
           \A k \in 1 .. (i - 1) : k \notin BrokenRows(rows)
    PROVE  VerifyChain(rows) = i
  <1>1. DOMAIN rows = 1 .. Len(rows) /\ Len(rows) \in Nat /\ BrokenRows(rows) \subseteq DOMAIN rows
    BY RowsFacts DEF BrokenRows
  <1>2. \A k \in BrokenRows(rows) : i <= k
    BY <1>1
  <1>3. Min(BrokenRows(rows)) = i
    BY <1>1, <1>2 DEF Min
  <1> QED
    BY <1>3 DEF VerifyChain

\* Rows of a chain up to one that was touched are as they were: none is broken.
LEMMA FrontIsIntact ==
    ASSUME NEW rows, Chain(rows), NEW i \in DOMAIN rows,
           \A k \in 1 .. (i - 1) : ReadBack(rows[k]),
           NEW new, IsRows(new), i \in DOMAIN new,
           \A k \in 1 .. (i - 1) : new[k] = rows[k]
    PROVE  \A k \in 1 .. (i - 1) : k \notin BrokenRows(new)
  <1> TAKE k \in 1 .. (i - 1)
  <1>1. /\ DOMAIN rows = 1 .. Len(rows) /\ Len(rows) \in Nat /\ i \in 1 .. Len(rows)
        /\ DOMAIN new = 1 .. Len(new) /\ Len(new) \in Nat /\ i \in 1 .. Len(new)
        /\ IsRows(rows)
    BY RowsFacts DEF Chain
  <1>2. k \in DOMAIN rows /\ k \in DOMAIN new /\ 1 .. k \subseteq 1 .. (i - 1)
    BY <1>1
  <1>3. k \notin BrokenRows(rows)
    BY <1>2, ReadBackRow
  <1> QED
    BY <1>1, <1>2, <1>3, SameFront

\* verify_chain names the changed row itself, not an earlier or a later one, whatever
\* the rows behind it are, if no row in front was hashed over {}.
THEOREM ChangeIsLocated ==
    ASSUME NEW rows, Chain(rows), NEW i \in DOMAIN rows,
           \A k \in 1 .. (i - 1) : ReadBack(rows[k]),
           NEW new, IsRows(new), i \in DOMAIN new,
           \A k \in 1 .. (i - 1) : new[k] = rows[k],
           new[i].record_hash = rows[i].record_hash,
           \/ new[i].data # rows[i].data
           \/ new[i].prev_hash # rows[i].prev_hash
           \/ /\ new[i].metadata # rows[i].metadata
              /\ \E meta : new[i].metadata = Stored(meta)
    PROVE  VerifyChain(new) = i
  <1>1. i \in BrokenRows(new)
    <2> SUFFICES ASSUME Rehashes(new, i) PROVE FALSE
      BY DEF BrokenRows
    <2>1. /\ rows[i].record_hash[1] = new[i].data /\ rows[i].record_hash[2] = new[i].metadata
          /\ rows[i].record_hash[3] = new[i].prev_hash
      BY HashFacts DEF Rehashes
    <2>2. rows[i].record_hash[1] = rows[i].data /\ rows[i].record_hash[3] = rows[i].prev_hash
      BY LinkedFacts
    <2>3. rows[i].metadata = Stored(new[i].metadata)
      BY <2>1 DEF Chain, AsWritten
    <2> QED
      BY <2>1, <2>2, <2>3 DEF Stored
  <1>2. \A k \in 1 .. (i - 1) : k \notin BrokenRows(new)
    BY FrontIsIntact
  <1> QED
    BY <1>1, <1>2, FirstIsNamed

\* A row that was rewritten with a hash that fits it is found by its successor.
THEOREM RewriteIsLocated ==
    ASSUME NEW rows, Chain(rows), NEW i \in DOMAIN rows,
           \A k \in 1 .. (i - 1) : ReadBack(rows[k]),
           NEW new, IsRows(new), i \in DOMAIN new,
           \A k \in 1 .. (i - 1) : new[k] = rows[k],
           new[i].record_hash # rows[i].record_hash,
           i + 1 \in DOMAIN rows, i + 1 \in DOMAIN new, new[i + 1] = rows[i + 1]
    PROVE  VerifyChain(new) = IF i \in BrokenRows(new) THEN i ELSE i + 1
  <1>1. i \in Nat \ {0} /\ IsRows(rows)
    BY RowsFacts DEF Chain
  <1>2. \A k \in 1 .. (i - 1) : k \notin BrokenRows(new)
    BY FrontIsIntact
  <1>3. CASE i \in BrokenRows(new)
    BY <1>2, <1>3, FirstIsNamed
  <1>4. CASE i \notin BrokenRows(new)
    <2>1. i + 1 # 1 /\ (i + 1) - 1 = i
      BY <1>1
    <2>2. rows[i + 1].prev_hash = rows[i].record_hash
      BY <2>1 DEF Chain, Linked
    <2>3. i + 1 \in BrokenRows(new)
      BY <2>1, <2>2 DEF BrokenRows, Linked
    <2>4. \A k \in 1 .. i : k \notin BrokenRows(new)
      BY <1>1, <1>2, <1>4
    <2> QED
      BY <1>4, <2>1, <2>3, <2>4, FirstIsNamed
  <1> QED
    BY <1>3, <1>4

\* A deleted row is located too: verify_chain names the row that followed it.
THEOREM DeletionIsLocated ==
    ASSUME NEW rows, Chain(rows), NEW i \in DOMAIN rows, i < Len(rows),
           \A k \in 1 .. (i - 1) : ReadBack(rows[k])
    PROVE  LET new == SubSeq(rows, 1, i - 1) \o SubSeq(rows, i + 1, Len(rows)) IN
           VerifyChain(new) = i /\ new[i] = rows[i + 1]
  <1> DEFINE new == SubSeq(rows, 1, i - 1) \o SubSeq(rows, i + 1, Len(rows))
  <1>1. IsRows(rows)
    BY DEF Chain
  <1>2. /\ IsRows(new) /\ DOMAIN new = 1 .. (Len(rows) - 1)
        /\ \A k \in 1 .. (i - 1) : new[k] = rows[k]
        /\ new[i] = rows[i + 1]
    BY <1>1, DeleteFacts
  <1>3. i \in BrokenRows(new)
    BY DeletedIsBroken
  <1> HIDE DEF new
  <1>4. i \in DOMAIN new
    BY <1>3 DEF BrokenRows
  <1>5. \A k \in 1 .. (i - 1) : k \notin BrokenRows(new)
    BY <1>2, <1>4, FrontIsIntact
  <1>6. VerifyChain(new) = i
    BY <1>2, <1>3, <1>5, FirstIsNamed
  <1> QED
    BY <1>2, <1>6 DEF new

-----------------------------------------------------------------------------
(* What it cannot see *)

\* The front of a chain is a chain.
LEMMA FrontFacts ==
    ASSUME NEW rows, Chain(rows), NEW n \in 0 .. Len(rows)
    PROVE  LET front == SubSeq(rows, 1, n) IN
           /\ Chain(front) /\ DOMAIN front = 1 .. n
           /\ \A i \in 1 .. n : i \in DOMAIN rows /\ front[i] = rows[i]
  <1> DEFINE S == {rows[k] : k \in DOMAIN rows}
             front == SubSeq(rows, 1, n)
  <1>1. /\ rows \in Seq(S) /\ Len(rows) \in Nat /\ DOMAIN rows = 1 .. Len(rows)
        /\ \A k \in 1 .. Len(rows) : rows[k] \in S
    BY RowsFacts DEF Chain, IsRows
  <1> HIDE DEF S
  <1>2. /\ front \in Seq(S) /\ DOMAIN front = 1 .. n
        /\ \A i \in 1 .. n : i \in DOMAIN rows /\ front[i] = rows[i]
    BY <1>1
  <1> HIDE DEF front
  <1>3. IsRows(front)
    BY <1>2 DEF IsRows
  <1>4. \A i \in 1 .. n : Linked(front, i) /\ AsWritten(front[i])
    <2> TAKE i \in 1 .. n
    <2>1. Linked(rows, i) /\ AsWritten(rows[i]) /\ (i # 1 => i - 1 \in 1 .. n)
      BY <1>2 DEF Chain
    <2> QED
      BY <1>2, <2>1 DEF Linked
  <1>5. \A i, j \in 1 .. n : front[i].record_hash = front[j].record_hash => i = j
    BY <1>2 DEF Chain
  <1>6. Chain(front)
    BY <1>2, <1>3, <1>4, <1>5 DEF Chain
  <1> QED
    BY <1>2, <1>6 DEF front

\* A chain verifies if no row was hashed over {}.
LEMMA ChainVerifies ==
    ASSUME NEW rows, Chain(rows), \A i \in DOMAIN rows : ReadBack(rows[i])
    PROVE  VerifyChain(rows) = 0
  <1>1. BrokenRows(rows) = {}
    BY ReadBackRow DEF BrokenRows
  <1> QED
    BY <1>1 DEF VerifyChain

\* Any number of the newest rows can be gone, and what is left verifies: the chain has
\* no anchor outside the table.
THEOREM TruncationVerifies ==
    ASSUME NEW rows, Chain(rows), \A i \in DOMAIN rows : ReadBack(rows[i]),
           NEW n \in 0 .. Len(rows)
    PROVE  VerifyChain(SubSeq(rows, 1, n)) = 0
  <1> DEFINE front == SubSeq(rows, 1, n)
  <1>1. /\ Chain(front) /\ DOMAIN front = 1 .. n
        /\ \A i \in 1 .. n : i \in DOMAIN rows /\ front[i] = rows[i]
    BY FrontFacts
  <1> HIDE DEF front
  <1>2. \A i \in DOMAIN front : ReadBack(front[i])
    BY <1>1
  <1>3. VerifyChain(front) = 0
    BY <1>1, <1>2, ChainVerifies
  <1> QED
    BY <1>3 DEF front

=============================================================================
