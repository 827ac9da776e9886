----------------------------- MODULE RowSource -----------------------------
(***************************************************************************)
(* The rows of a data-driven load run.                                     *)
(*                                                                         *)
(* Workers share one source: a reader of the primary file, the dimensions  *)
(* its rows are joined with, and the state of the CROSS join of the row    *)
(* dealt last, each under a mutex of its own.  A call deals one row with   *)
(* its joined values, or one combination of a CROSS join; a worker that    *)
(* finds the file exhausted rewinds it and asks once more.  A dimension    *)
(* too large for memory is read through an index and a 2Q cache.           *)
(***************************************************************************)
EXTENDS TwoQCache, SequencesExt

CONSTANTS
    Callers,
    Dimension,      \* the first row of the dimension under each key, or NoValue
    Cases           \* the sources of a run, with the rows each caller asks for (a bound)

\* A row of the primary file: whether the filters keep it, its key (NoValue: it has
\* none) and, for every CROSS join, how many rows of that dimension match it.
Row == [kept : BOOLEAN, key : Keys \cup {NoValue}, matches : Seq(Nat)]

Source == [rows : Seq(Row), join : {"none", "inner", "left"}, indexed : BOOLEAN, crosses : Nat,
           asks : [Callers -> Nat]]

ASSUME RowAssumption ==
    /\ IsFiniteSet(Callers)
    /\ Dimension \in [Keys -> Values \cup {NoValue}]
    /\ Cases \subseteq Source
    /\ \A s \in Cases : \A i \in DOMAIN s.rows : Len(s.rows[i].matches) = s.crosses

VARIABLES
    source,         \* the source of this run
    cursor,         \* rows of the primary file already read
    cross,          \* cross_product_state: None is the empty set
    poisoned,       \* its mutex
    pc, row, found, \* of a caller: where it is, its row and the dimension row it has
    again,          \* it has rewound the file
    calls,          \* rows it has asked for
    rewinds,        \* history: how often the file was rewound
    dealt           \* history: what the calls returned, in order

callerVars == <<pc, row, found, again, calls>>
vars == <<source, cursor, cross, poisoned, pc, row, found, again, calls, rewinds, dealt, cacheVars>>

places == {"idle", "check", "read", "lookup", "cached", "joined", "combine", "rewind", "dead"}

Init ==
    /\ CacheInit
    /\ source \in Cases
    /\ cursor = 0 /\ cross = {} /\ poisoned = FALSE
    /\ pc = [c \in Callers |-> "idle"]
    /\ row = [c \in Callers |-> 0]
    /\ found = [c \in Callers |-> NoValue]
    /\ again = [c \in Callers |-> FALSE]
    /\ calls = [c \in Callers |-> 0]
    /\ rewinds = 0 /\ dealt = <<>>

Goto(c, place) == pc' = [pc EXCEPT ![c] = place]

\* A call returns: variables of a row (0: none) with a joined row and a combination.
Deal(c, r, joined, combination) ==
    /\ Goto(c, "idle")
    /\ dealt' = Append(dealt, [row |-> r, joined |-> joined, combination |-> combination])

\* An expect on the lock of a poisoned mutex, or an unwrap of None: the task panics.
Die(c) == Goto(c, "dead") /\ UNCHANGED dealt

-----------------------------------------------------------------------------
(* A worker's call                                                         *)

Call(c) ==
    /\ pc[c] = "idle" /\ calls[c] < source.asks[c]
    /\ Goto(c, "check")
    /\ calls' = [calls EXCEPT ![c] = @ + 1]
    /\ again' = [again EXCEPT ![c] = FALSE]
    /\ UNCHANGED <<source, cursor, cross, poisoned, row, found, rewinds, dealt, cacheVars>>

\* Is a CROSS join under way?  The lock is released before its next combination.
Check(c) ==
    /\ pc[c] = "check"
    /\ \/ poisoned /\ Die(c)
       \/ ~poisoned /\ cross # {} /\ Goto(c, "combine") /\ UNCHANGED dealt
       \/ ~poisoned /\ cross = {} /\ Goto(c, "read") /\ UNCHANGED dealt
    /\ UNCHANGED <<source, cursor, cross, poisoned, row, found, again, calls, rewinds, cacheVars>>

\* Variant: the row read last is read again.
FromCursor == {i \in DOMAIN source.rows : i >= cursor /\ source.rows[i].kept}

upcoming == {i \in DOMAIN source.rows : i > cursor /\ source.rows[i].kept}

\* The next row the filters keep, read under the lock of the reader.
Read(c) ==
    /\ pc[c] = "read"
    /\ \/ \E r \in upcoming :
            /\ \A i \in upcoming : r <= i
            /\ cursor' = r
            /\ row' = [row EXCEPT ![c] = r]
            /\ found' = [found EXCEPT ![c] = NoValue]
            /\ Goto(c, IF source.join = "none" \/ source.rows[r].key = NoValue THEN "joined" ELSE "lookup")
            /\ UNCHANGED dealt
       \/ /\ upcoming = {} /\ cursor' = Len(source.rows)
          /\ IF again[c] THEN Deal(c, 0, NoValue, <<>>) ELSE Goto(c, "rewind") /\ UNCHANGED dealt
          /\ UNCHANGED <<row, found>>
    /\ UNCHANGED <<source, cross, poisoned, again, calls, rewinds, cacheVars>>

\* The source is exhausted: rewind it and ask once more.
Rewind(c) ==
    /\ pc[c] = "rewind"
    /\ cursor' = 0 /\ rewinds' = rewinds + 1
    /\ again' = [again EXCEPT ![c] = TRUE]
    /\ Goto(c, "check")
    /\ UNCHANGED <<source, cross, poisoned, row, found, calls, dealt, cacheVars>>

-----------------------------------------------------------------------------
(* The joined dimension                                                    *)

key(c) == source.rows[row[c]].key

cache_locked == \E d \in Callers : pc[d] = "cached"

\* The row under the key: of the map in memory; of the cache, whose mutex is taken; or
\* of the index, and then put into the cache.
Lookup(c) ==
    /\ pc[c] = "lookup"
    /\ \/ /\ ~source.indexed
          /\ found' = [found EXCEPT ![c] = Dimension[key(c)]]
          /\ Goto(c, "joined") /\ UNCHANGED cacheVars
       \/ /\ source.indexed /\ ~cache_locked
          /\ Get(key(c)) /\ Goto(c, "cached") /\ UNCHANGED found
       \/ /\ source.indexed /\ ~cache_locked /\ Dimension[key(c)] = NoValue
          /\ Miss(key(c)) /\ Goto(c, "joined") /\ UNCHANGED found
       \/ /\ source.indexed /\ ~cache_locked /\ Dimension[key(c)] # NoValue
          /\ ~contains(key(c)) /\ Insert(key(c), Dimension[key(c)])
          /\ found' = [found EXCEPT ![c] = Dimension[key(c)]]
          /\ Goto(c, "cached")
    /\ UNCHANGED <<source, cursor, cross, poisoned, row, again, calls, rewinds, dealt>>

Evicts == Evict /\ UNCHANGED <<source, cursor, cross, poisoned, callerVars, rewinds, dealt>>

\* The cache answers and its mutex is released.
Cached(c) ==
    /\ pc[c] = "cached" /\ Return
    /\ found' = [found EXCEPT ![c] = IF wanted = {} THEN @ ELSE CHOOSE v \in returned : TRUE]
    /\ Goto(c, "joined")
    /\ UNCHANGED <<source, cursor, cross, poisoned, row, again, calls, rewinds, dealt>>

\* An INNER join skips the row it does not find.  A CROSS join starts its product.
Joined(c) ==
    /\ pc[c] = "joined"
    /\ \/ /\ source.join = "inner" /\ found[c] = NoValue
          /\ Goto(c, "read") /\ UNCHANGED <<dealt, cross>>
       \/ /\ source.join = "inner" => found[c] # NoValue
          /\ source.crosses = 0
          /\ Deal(c, row[c], IF source.join = "left" THEN found[c] ELSE NoValue, <<>>)
          /\ UNCHANGED cross
       \/ /\ source.join = "inner" => found[c] # NoValue
          /\ source.crosses > 0 /\ ~poisoned
          /\ cross' = {[row |-> row[c], indices |-> [j \in 1..source.crosses |-> 1]]}
          /\ Goto(c, "combine") /\ UNCHANGED dealt
       \/ source.crosses > 0 /\ poisoned /\ Die(c) /\ UNCHANGED cross
    /\ UNCHANGED <<source, cursor, poisoned, row, found, again, calls, rewinds, cacheVars>>

-----------------------------------------------------------------------------
(* The CROSS join                                                          *)

\* Variant: an index may grow past the last match.
OneTooFar(indices, matches) ==
    LET growing == {j \in DOMAIN indices : indices[j] <= matches[j]}
    IN  {[indices EXCEPT ![g] = @ + 1] : g \in {j \in growing : \A i \in growing : i <= j}}

\* The next combination: the last index that may grow does, and those after it restart.
advanced(indices, matches) ==
    LET growing == {j \in DOMAIN indices : indices[j] < matches[j]}
    IN  {[j \in DOMAIN indices |->
            IF j < g THEN indices[j] ELSE IF j = g THEN indices[j] + 1 ELSE 1] :
           g \in {j \in growing : \A i \in growing : i <= j}}

\* One combination under the lock; None there is a panic that poisons the mutex.
Combine(c) ==
    /\ pc[c] = "combine"
    /\ \/ poisoned /\ Die(c) /\ UNCHANGED <<cross, poisoned>>
       \/ ~poisoned /\ cross = {} /\ Die(c) /\ poisoned' = TRUE /\ UNCHANGED cross
       \/ /\ ~poisoned
          /\ \E s \in cross :
                /\ Deal(c, s.row, NoValue, s.indices)
                /\ cross' = {[s EXCEPT !.indices = i] :
                               i \in advanced(s.indices, source.rows[s.row].matches)}
          /\ UNCHANGED poisoned
    /\ UNCHANGED <<source, cursor, row, found, again, calls, rewinds, cacheVars>>

Step(c) ==
    \/ Call(c) \/ Check(c) \/ Read(c) \/ Rewind(c) \/ Lookup(c)
    \/ Cached(c) \/ Joined(c) \/ Combine(c)

\* The calls asked for are made, or their callers are gone.
Done ==
    /\ \A c \in Callers : pc[c] = "dead" \/ (pc[c] = "idle" /\ calls[c] = source.asks[c])
    /\ UNCHANGED vars

Next == (\E c \in Callers : Step(c)) \/ Evicts \/ Done

Spec ==
    /\ Init /\ [][Next]_vars
    /\ \A c \in Callers : WF_vars(Step(c))
    /\ WF_vars(Evicts)

-----------------------------------------------------------------------------
(* Properties                                                              *)

\* A dimension without a match counts as one.
width(r, j) == IF source.rows[r].matches[j] = 0 THEN 1 ELSE source.rows[r].matches[j]

\* The types; the indices of a CROSS join stay inside its matches, and the cache works
\* only for the caller that holds its mutex.
TypeOK ==
    /\ source \in Cases
    /\ cursor \in 0..Len(source.rows)
    /\ cross = {} \/ \E s \in cross :
                       /\ cross = {s} /\ s.row \in DOMAIN source.rows
                       /\ \A j \in 1..source.crosses : s.indices[j] \in 1..width(s.row, j)
    /\ poisoned \in BOOLEAN
    /\ pc \in [Callers -> places]
    /\ row \in [Callers -> 0..Len(source.rows)]
    /\ found \in [Callers -> Values \cup {NoValue}]
    /\ again \in [Callers -> BOOLEAN]
    /\ \A c \in Callers : calls[c] \in 0..source.asks[c]
    /\ busy => cache_locked

Looked(r) == IF source.rows[r].key = NoValue THEN NoValue ELSE Dimension[source.rows[r].key]

Fits(r) == source.rows[r].kept /\ (source.join = "inner" => Looked(r) # NoValue)

\* How many combinations there are of the first j dimensions of a row, and of all.
counts(r) ==
    LET count[j \in 0..source.crosses] == IF j = 0 THEN 1 ELSE count[j - 1] * width(r, j)
    IN  count

combinations(r) == counts(r)[source.crosses]

\* The combination number n of a row: its digits, the last the fastest; rests: what is
\* left of n without its last j.
rests(r, n) ==
    LET rest[j \in 0..source.crosses] ==
            IF j = 0 THEN n ELSE rest[j - 1] \div width(r, source.crosses - j + 1)
    IN  rest

Combination(r, n) ==
    [j \in 1..source.crosses |-> (rests(r, n)[source.crosses - j] % width(r, j)) + 1]

Item(r, n) ==
    [row |-> r, joined |-> IF source.join = "left" /\ source.crosses = 0 THEN Looked(r) ELSE NoValue,
     combination |-> Combination(r, n)]

\* The first n rows, and one pass over all: every row that fits, with every combination.
Rows[n \in 0..Len(source.rows)] ==
    IF n = 0 THEN <<>>
    ELSE Rows[n - 1] \o IF Fits(n) THEN [i \in 1..combinations(n) |-> Item(n, i - 1)] ELSE <<>>

Pass == Rows[Len(source.rows)]

Empty == [row |-> 0, joined |-> NoValue, combination |-> <<>>]

\* One caller is dealt the rows of the join in the order of the file, each combination
\* once, pass after pass, whatever the cache has evicted in between; it is dealt
\* nothing only by a source that has no row for it.
DealtInOrder ==
    Cardinality({c \in Callers : source.asks[c] > 0}) = 1 =>
        \A i \in DOMAIN dealt :
            dealt[i] = IF Pass = <<>> THEN Empty ELSE Pass[((i - 1) % Len(Pass)) + 1]

\* What a call deals of a row that no CROSS join multiplies.
Joint(r) == [row |-> r, joined |-> IF source.join = "left" THEN Looked(r) ELSE NoValue, combination |-> <<>>]

\* Several callers share one pass: until the file is rewound no row is dealt twice, and
\* no call returns a row that does not fit or a value that is not the joined one.
DealtOnce ==
    source.crosses = 0 =>
        /\ \A i \in DOMAIN dealt : dealt[i] = Empty \/ \E r \in DOMAIN source.rows : Fits(r) /\ dealt[i] = Joint(r)
        /\ rewinds = 0 => \A i, j \in DOMAIN dealt : dealt[i] = dealt[j] => i = j

\* Alone or together, callers are dealt the rows of the join.
RowsDealt == DealtInOrder /\ DealtOnce

\* Every call returns: no loop of the cache or of the reader keeps it, and its panics
\* are those of a poisoned CROSS join.
CallsReturn == \A c \in Callers : (pc[c] = "check") ~> (pc[c] \in {"idle", "dead"})

\* The module of the sources calls its unwraps and expects "audited safe"
\* (driven.rs:1): no caller panics.
NoPanic == \A c \in Callers : pc[c] # "dead"

=============================================================================
