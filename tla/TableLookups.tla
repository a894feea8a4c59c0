----------------------------- MODULE TableLookups -----------------------------
(***************************************************************************)
(* SQLiteLookup and PostgresLookup: messages enriched with the results of  *)
(* queries, which a cache of limited size keeps for a time to live.  The   *)
(* two classes have the same code around their drivers.                    *)
(*                                                                         *)
(* A message is [on, row, mutates, at, results]: the target key, the row   *)
(* that its columns ask a query field for, whether functions downstream    *)
(* change the enriched value in place, the time, and field -> result.      *)
(***************************************************************************)
EXTENDS Operation, SequencesExt

CONSTANTS
    Row            \* rows of the table; a target key is the row of its own

VARIABLES
    tables,        \* the contents of the table at each time: row -> 0 or 1
    cache          \* _cache: [field, on, since, value], least recently used first

lookupVars == <<tables, cache>>

\* What is left of a result that a function downstream has changed.
Changed == 2

\* The time, and time.time()
Now == Len(tables)

TableDefinition(d) ==
    /\ d.kind = "table" /\ d.cacheSize \in Nat \ {0}
    /\ d.fields \in Seq([name : STRING, ttl : Nat, query : BOOLEAN, rows : BOOLEAN])
    /\ \A i, j \in DOMAIN d.fields : d.fields[i].name = d.fields[j].name => i = j

Entry(entries, field, on) == {i \in DOMAIN entries :
    entries[i].field = field.name /\ entries[i].on = on}

\* Mutant: an entry is as fresh at the end of its time to live.
CachedPastTTL(entries, field, on) ==
    {i \in Entry(entries, field, on) : Now - entries[i].since <= field.ttl}

\* _get_from_cache(): the entry, unless its time to live has passed
Cached(entries, field, on) ==
    {i \in Entry(entries, field, on) : Now - entries[i].since < field.ttl}

\* Mutant: a hit does not make the entry the most recent one.
MovedNowhere(entries, i) == entries

\* move_to_end()
Moved(entries, i) == Append(RemoveAt(entries, i), entries[i])

\* The cache without the entry of a field for a target key, if it has one
Others(entries, field, on) ==
    LET there == Entry(entries, field, on)
    IN  IF there = {} THEN entries ELSE RemoveAt(entries, CHOOSE i \in there : TRUE)

\* _set_cache(): the entry goes to the end, and the oldest goes if there are too many
Stored(entries, field, on, value) ==
    LET entry == [field |-> field.name, on |-> on, since |-> Now, value |-> value]
        rest  == Others(entries, field, on)
    IN  IF Len(rest) >= definition.cacheSize THEN Append(Tail(rest), entry)
                                             ELSE Append(rest, entry)

\* build_query() and result(): a column field asks for the target key, a query field
\* for what the columns of the message say.
Queried(field, message) ==
    tables[Now][IF field.query THEN message.row ELSE message.on]

\* join() for one field.  The copy in the cache is shallow: a result that is a list of
\* rows shares them with the value, which functions downstream may change.
JoinField(state, field, message) ==
    LET hits    == Cached(state.entries, field, message.on)
        hit     == field.ttl > 0 /\ hits # {}
        index   == CHOOSE i \in hits : TRUE
        result  == IF hit THEN state.entries[index].value ELSE Queried(field, message)
        kept    == IF field.rows /\ message.mutates THEN Changed ELSE result
    IN  [entries |->
            IF field.ttl = 0 THEN state.entries
            ELSE IF hit
                 THEN Moved([state.entries EXCEPT ![index].value = kept], index)
                 ELSE Stored(state.entries, field, message.on, kept),
         results |-> Append(state.results,
            [field |-> field, value |-> result, queried |-> ~hit])]

\* join(): the cache and the results after each number of fields, one after the other
JoinedFields(message) ==
    LET after[i \in 0..Len(definition.fields)] ==
            IF i = 0 THEN [entries |-> cache, results |-> <<>>]
                     ELSE JoinField(after[i - 1], definition.fields[i], message)
    IN  after

\* A message is enriched.
JoinTable(on, row, mutates) ==
    LET after  == JoinedFields([on |-> on, row |-> row, mutates |-> mutates])
        joined == after[Len(definition.fields)]
    IN  /\ cache' = joined.entries
        /\ Arrives([on |-> on, row |-> row, at |-> Now, results |-> joined.results])
        /\ UNCHANGED <<definition, tables>>

\* Time passes, and somebody may have written to the table.
TableChanges ==
    \E rows \in {{}} \cup {{row} : row \in Row} :
        /\ tables' = Append(tables, [row \in Row |->
               IF row \in rows THEN 1 - tables[Now][row] ELSE tables[Now][row]])
        /\ UNCHANGED <<definition, arrived, cache>>

-----------------------------------------------------------------------------
TableLookup == definition.kind = "table"

\* A result is what a query for the same target key returned less than a time to live
\* before, also when the cache has dropped or renewed entries in between.  Rows of a
\* list are left out if functions downstream change them.
ResultsFresh ==
    TableLookup =>
        \A n \in Message : \A i \in DOMAIN definition.fields :
            LET field  == definition.fields[i]
                result == arrived[n].results[i].value
                source(m) ==
                    tables[arrived[m].at][IF field.query THEN arrived[m].row
                                                         ELSE arrived[m].on]
            IN  ~field.rows =>
                    \E m \in 1..n :
                        /\ arrived[m].on = arrived[n].on
                        /\ arrived[m].results[i].queried
                        /\ arrived[n].at - arrived[m].at < Max({1, field.ttl})
                        /\ result = source(m)

\* "The query is executed once per TTL for each unique target key": a field is queried
\* again for a key within its time to live only if so many other entries were used in
\* between that the cache is full of them.
QueriedOncePerTTL ==
    TableLookup =>
        \A n \in Message : \A i \in DOMAIN definition.fields :
            LET field    == definition.fields[i]
                earlier  == {m \in 1..n - 1 : arrived[m].on = arrived[n].on}
                last     == Max(earlier)
                \* cache keys used after the last use of this one
                cacheable == {j \in DOMAIN definition.fields :
                                 definition.fields[j].ttl > 0}
                between  == {<<definition.fields[p[2]].name, arrived[p[1]].on>> :
                                p \in {q \in (last..n) \X cacheable :
                                    \/ last < q[1] /\ q[1] < n
                                    \/ q[1] = last /\ q[2] > i
                                    \/ q[1] = n /\ q[2] < i}}
            IN  (/\ field.ttl > 0 /\ arrived[n].results[i].queried
                 /\ \E m \in earlier : /\ arrived[m].results[i].queried
                                       /\ arrived[n].at - arrived[m].at < field.ttl)
                => Cardinality(between) >= definition.cacheSize

\* The cache gives what a query gave within the time to live, and saves that query.
CachedRowsFresh == ResultsFresh /\ QueriedOncePerTTL

=============================================================================
