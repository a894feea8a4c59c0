---------------------------- MODULE WindowedStore -----------------------------
(***************************************************************************)
(* WindowedRocksDBPartitionTransaction: what a windowed store keeps for    *)
(* one message key, and the operations of the transaction on it.  All      *)
(* windows of a store have one duration, so a window is named by its start. *)
(*                                                                         *)
(* The model is the store as its transaction sees it: the merge of cached  *)
(* updates with the stored items in _get_items(), and the conversion of    *)
(* integers to keys that sort alike, are read as a map with integer keys.  *)
(***************************************************************************)
EXTENDS Integers, FiniteSets, FiniteSetsExt, Functions, TLC

\* A timestamp, or an id of a value, that the store does not have.
None == -1

EmptyState ==
    [windows       |-> <<>>,   \* start -> value, for the windows present
     values        |-> {},     \* the collection, as [id, counter]
     latest        |-> 0,      \* latest timestamp
     expired       |-> None,   \* start of the last window that expired
     deletedWindow |-> None,   \* start of the last window deleted for its age
     deletedValue  |-> None]   \* id of the last value deleted

\* The windows of new, over those of old.
Overlaid(new, old) ==
    [start \in DOMAIN new \cup DOMAIN old |->
        IF start \in DOMAIN new THEN new[start] ELSE old[start]]

\* update_window(), for the windows of one message
UpdateWindows(state, new, stamp) ==
    IF DOMAIN new = {} THEN state
    ELSE [state EXCEPT !.windows = Overlaid(new, @), !.latest = Max({@, stamp})]

\* delete_window(), for a set of windows
DropWindows(state, starts) ==
    [state EXCEPT !.windows = Restrict(@, DOMAIN @ \ starts)]

\* get_windows(): the windows that start after from, and not after to
WindowsBetween(state, from, to) ==
    {start \in DOMAIN state.windows : from < start /\ start <= to}

\* add_to_collection(): the counter tells values with one id apart; the value of
\* message number n gets counter n.
AddToCollection(state, id, counter) ==
    [state EXCEPT !.values = @ \cup {[id |-> id, counter |-> counter]}]

ValuesBetween(state, from, to) ==
    {value \in state.values : from <= value.id /\ value.id < to}

\* get_from_collection()
Collection(state, from, to) ==
    {value.counter : value \in ValuesBetween(state, from, to)}

\* delete_from_collection(): the largest id deleted is where the next call starts.
DeleteCollection(state, from, to) ==
    LET gone == ValuesBetween(state, from, to)
    IN  IF gone = {} THEN state
        ELSE [state EXCEPT !.values = @ \ gone,
                           !.deletedValue = Max({value.id : value \in gone})]

\* The windows that expire_windows() yields.
Expired(state, maxStart) == WindowsBetween(state, state.expired, maxStart)

\* Mutant: values are deleted only up to the first of the windows that expire.
ExpireWindowsToFirst(state, maxStart, delete, collect) ==
    LET starts == Expired(state, maxStart)
        marked == [state EXCEPT !.expired = Max(starts)]
        kept   == IF delete THEN DropWindows(marked, starts) ELSE marked
    IN  IF starts = {} THEN state
        ELSE IF delete /\ collect
             THEN DeleteCollection(kept, kept.deletedValue, Min(starts))
             ELSE kept

\* expire_windows(): what it leaves.
ExpireWindows(state, maxStart, delete, collect) ==
    LET starts == Expired(state, maxStart)
        marked == [state EXCEPT !.expired = Max(starts)]
        kept   == IF delete THEN DropWindows(marked, starts) ELSE marked
    IN  IF starts = {} THEN state
        ELSE IF delete /\ collect
             THEN DeleteCollection(kept, kept.deletedValue, Max(starts))
             ELSE kept

\* delete_windows()
DeleteWindows(state, maxStart, deleteValues) ==
    LET starts == WindowsBetween(state, state.deletedWindow, maxStart)
        kept   == IF starts \subseteq {0} THEN DropWindows(state, starts)
                  ELSE [DropWindows(state, starts) EXCEPT
                           !.deletedWindow = Max(starts)]
    IN  IF deleteValues THEN DeleteCollection(kept, kept.deletedValue, maxStart)
                        ELSE kept

\* windows_to_expire(): the ends that pass between two expirations of a partition
EndsToExpire(last, maxEnd, step) ==
    IF last = 0 THEN {maxEnd - (maxEnd % step)}
    ELSE {end \in last + 1..maxEnd : (end - last) % step = 0}

\* expire_all_windows(): the windows of one key that expire, given the end of the
\* last window that expired in the partition.  The first time, all that end by now.
ExpiredInPartition(state, last, maxEnd, step, duration) ==
    LET ends == EndsToExpire(last, maxEnd, step)
    IN  {start \in DOMAIN state.windows :
            IF last = 0 THEN start + duration <= Max(ends)
                        ELSE start + duration \in ends}

\* expire_all_windows(): what it leaves of one key.
ExpireInPartition(state, starts, collect) ==
    LET kept == DropWindows(state, starts)
    IN  IF starts # {} /\ collect
        THEN DeleteCollection(kept, kept.deletedValue, Max(starts))
        ELSE kept

=============================================================================
