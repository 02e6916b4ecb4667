-------------------------------- MODULE Iblt --------------------------------
(***************************************************************************)
(* The invertible Bloom lookup table: struct IbltVector of                 *)
(* src/auction/iblt.rs.  Entries are added to the table, the vector goes   *)
(* through a round and may come back as any other (decode_from_elements    *)
(* takes every vector of field elements), and recover peels it.            *)
(*                                                                         *)
(* A turn of recover's loop is a step.  `table` is what was decoded and    *)
(* `working` the copy that recover takes cells out of.  An entry carries   *)
(* one value here: the xi values of the code are treated alike, together.  *)
(***************************************************************************)
EXTENDS FieldVectors

CONSTANTS
  Gamma,        \* rows
  Delta,        \* buckets per row
  Packed,       \* 2^(8 PACK_BYTES): a key or a value is a number below it
  Values,       \* the values callers insert
  Buckets,      \* what chunk_index, a hash, may be: [Keys -> [Row -> Column]]
  MaxInserts,   \* bound on the entries of a table
  MaxAltered,   \* and of a table that is altered
  None

Keys    == 0 .. Packed - 1
Row     == 0 .. Gamma - 1
Column  == 0 .. Delta - 1
Cells   == Row \X Column
Entries == [key : Keys, value : Keys]
Tables  == [Cells -> [counter : Field, key : Field, value : Field]]
Errors  == {"PeelStalled", "InvalidPackedElement", "UnexpectedZeroCounter"}

ASSUME TableAssumption ==
  /\ Gamma \in Nat \ {0} /\ Delta \in Nat \ {0}
  /\ Packed \in 1 .. P /\ Values \subseteq Keys
  /\ Buckets \subseteq [Keys -> [Row -> Column]]
  /\ MaxInserts \in 0 .. P - 1      \* the counters do not wrap
  /\ MaxAltered \in Nat
  /\ None \notin Tables /\ None \notin Errors \cup {"Ok"}

VARIABLES
  chunk_index,   \* the hash
  inserted,      \* history: the entries inserted, in order
  poisoned,      \* whether the vector came back altered
  table,         \* [Cells -> counter, key, value]
  working,       \* recover's copy
  queue, head,   \* cells to look at
  recovered,     \* the entries peeled
  result         \* None, "Ok" or the error of recover

input == <<chunk_index, inserted, poisoned, table>>
vars  == <<input, working, queue, head, recovered, result>>

-----------------------------------------------------------------------------
(***************************************************************************)
(* Building a table.                                                       *)
(***************************************************************************)
Zero    == [counter |-> 0, key |-> 0, value |-> 0]

\* Variant for the mutation runs: every cell that is not empty.
IsPureOrMore(cell) == cell.counter # 0

IsPure(cell) == cell.counter = 1

CellsOf(key) == {<<row, chunk_index[key][row]>> : row \in Row}

Plus(cell, e) ==
  [counter |-> cell.counter + 1,
   key     |-> AddMod(cell.key, e.key),
   value   |-> AddMod(cell.value, e.value)]

WithEntry(t, e) ==
  [c \in Cells |-> IF c \in CellsOf(e.key) THEN Plus(t[c], e) ELSE t[c]]

Encoded(entries) == FoldLeft(WithEntry, [c \in Cells |-> Zero], entries)

Init ==
  /\ chunk_index \in Buckets
  /\ inserted = <<>> /\ poisoned = FALSE
  /\ table = [c \in Cells |-> Zero] /\ working = None
  /\ queue = <<>> /\ head = 1 /\ recovered = <<>> /\ result = None

\* insert.  Tables of several clients add up to the table of all entries.
insert(e) ==
  /\ working = None /\ ~poisoned
  /\ Len(inserted) < MaxInserts
  /\ inserted' = Append(inserted, e)
  /\ table'    = WithEntry(table, e)
  /\ UNCHANGED <<chunk_index, poisoned, working, queue, head, recovered, result>>

\* decode_from_elements of a vector that is no sum of tables: one cell differs.
decode_from_elements(c, cell) ==
  /\ working = None /\ ~poisoned
  /\ Len(inserted) <= MaxAltered
  /\ cell # table[c]
  /\ poisoned' = TRUE
  /\ table'    = [table EXCEPT ![c] = cell]
  /\ UNCHANGED <<chunk_index, inserted, working, queue, head, recovered, result>>

-----------------------------------------------------------------------------
(***************************************************************************)
(* recover.                                                                *)
(***************************************************************************)
RowMajor(c, d) == c[1] < d[1] \/ (c[1] = d[1] /\ c[2] < d[2])

\* The cells as the loops over rows and columns meet them.
InOrder(cells) ==
  CHOOSE s \in [1 .. Cardinality(cells) -> cells] :
    \A i, j \in DOMAIN s : i < j => RowMajor(s[i], s[j])

recover ==
  /\ working = None
  /\ working' = table
  /\ queue'   = InOrder({c \in Cells : IsPure(table[c])})
  /\ UNCHANGED <<input, head, recovered, result>>

Running == working # None /\ result = None

\* The cell at the head of the queue.
Turn == Running /\ head <= Len(queue)
At   == queue[head]
Cell == working[At]

\* Its key belongs in this cell.
AtHome == chunk_index[Cell.key][At[1]] = At[2]

\* Nothing to peel: the cell has changed since, or its key hashes elsewhere.
skip ==
  /\ Turn
  /\ ~IsPure(Cell) \/ (Cell.key < Packed /\ ~AtHome)
  /\ head' = head + 1
  /\ UNCHANGED <<input, working, queue, recovered, result>>

Fail(error) ==
  /\ result' = error
  /\ UNCHANGED <<input, working, queue, head, recovered>>

invalid_packed_element ==
  /\ Turn /\ IsPure(Cell)
  /\ \/ Cell.key >= Packed
     \/ Cell.key < Packed /\ AtHome /\ Cell.value >= Packed
  /\ Fail("InvalidPackedElement")

Peelable ==
  /\ Turn /\ IsPure(Cell)
  /\ Cell.key < Packed /\ AtHome /\ Cell.value < Packed

unexpected_zero_counter ==
  /\ Peelable
  /\ \E c \in CellsOf(Cell.key) : working[c].counter = 0
  /\ Fail("UnexpectedZeroCounter")

\* Variant for the mutation runs: the counter stays.
MinusUncounted(cell, e) ==
  [counter |-> cell.counter,
   key     |-> SubMod(cell.key, e.key),
   value   |-> SubMod(cell.value, e.value)]

\* Variant for the mutation runs: no wrap below zero.
MinusPlain(cell, e) ==
  [counter |-> cell.counter - 1,
   key     |-> cell.key - e.key,
   value   |-> cell.value - e.value]

Minus(cell, e) ==
  [counter |-> cell.counter - 1,
   key     |-> SubMod(cell.key, e.key),
   value   |-> SubMod(cell.value, e.value)]

WithoutEntry(t, e) ==
  [c \in Cells |-> IF c \in CellsOf(e.key) THEN Minus(t[c], e) ELSE t[c]]

\* Variant for the mutation runs: only the rows after that of the cell.
NewlyPureBelow(t, e) ==
  InOrder({c \in CellsOf(e.key) : IsPure(t[c]) /\ c[1] > At[1]})

NewlyPure(t, e) == InOrder({c \in CellsOf(e.key) : IsPure(t[c])})

peel ==
  LET e == [key |-> Cell.key, value |-> Cell.value]
      t == WithoutEntry(working, e)
  IN  /\ Peelable
      /\ \A c \in CellsOf(e.key) : working[c].counter # 0
      /\ recovered' = Append(recovered, e)
      /\ working'   = t
      /\ queue'     = queue \o NewlyPure(t, e)
      /\ head'      = head + 1
      /\ UNCHANGED <<input, result>>

\* Variant for the mutation runs: only the counters are looked at.
CountersAreZero == \A c \in Cells : working[c].counter = 0

AllZero == \A c \in Cells : working[c] = Zero

finish ==
  /\ Running /\ head > Len(queue)
  /\ result' = IF AllZero THEN "Ok" ELSE "PeelStalled"
  /\ UNCHANGED <<input, working, queue, head, recovered>>

Next ==
  \/ \E k \in Keys, v \in Values : insert([key |-> k, value |-> v])
  \/ \E c \in Cells, n, k, v \in Field :
       decode_from_elements(c, [counter |-> n, key |-> k, value |-> v])
  \/ recover \/ skip \/ invalid_packed_element \/ unexpected_zero_counter
  \/ peel \/ finish

Spec == Init /\ [][Next]_vars

-----------------------------------------------------------------------------
(***************************************************************************)
(* Properties.                                                             *)
(***************************************************************************)
\* All elements stay canonical: every component of every cell is in the field.
TypeOK ==
  /\ chunk_index \in [Keys -> [Row -> Column]]
  /\ inserted \in Seq(Entries) /\ poisoned \in BOOLEAN
  /\ table \in Tables /\ working \in Tables \cup {None}
  /\ queue \in Seq(Cells) /\ head \in 1 .. Len(queue) + 1
  /\ recovered \in Seq(Entries)
  /\ result \in {None, "Ok"} \cup Errors

\* Whatever vector it is given, recover returns Ok only for entries that make
\* up exactly this table: no residue is left unseen.
OkExplainsTable == result = "Ok" => Encoded(recovered) = table

\* The entries not peeled yet.
Left(e) ==
  Cardinality({i \in DOMAIN inserted : inserted[i] = e})
    - Cardinality({i \in DOMAIN recovered : recovered[i] = e})

\* A table that went through unaltered gives back the entries inserted, with
\* their multiplicity, or none; no other error is possible.
RecoversInserted ==
  ~poisoned =>
    /\ result \in {None, "Ok", "PeelStalled"}
    /\ \A e \in Entries : Left(e) >= 0
    /\ result = "Ok" => \A e \in Entries : Left(e) = 0

\* When peeling stalls there was no way on: each entry left meets another one
\* left in each of its cells.  So no order of the queue would have got further.
StallsOnlyOnCore ==
  result = "PeelStalled" /\ ~poisoned =>
    LET left == {e \in Entries : Left(e) > 0}
    IN  /\ left # {}
        /\ \A e \in left : \A c \in CellsOf(e.key) :
             Left(e) > 1 \/ \E d \in left : d # e /\ c \in CellsOf(d.key)

\* recover comes to an end on every table: an entry it peels uses up one count
\* of each row, and the queue grows by no more than a row's worth at a time.
PeelsWhatIsCounted ==
  /\ \A row \in Row :
       Len(recovered) <= MapThenSumSet(LAMBDA col : table[<<row, col>>].counter, Column)
  /\ Len(queue) <= Gamma * (Delta + Len(recovered))
=============================================================================
