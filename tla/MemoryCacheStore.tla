-------------------------- MODULE MemoryCacheStore --------------------------
(***************************************************************************)
(* caching/stores/MemoryCacheStore.ts: a Map in LRU order, an index from    *)
(* tags to keys, and a running sum of the sizes. A set that finds the store *)
(* full evicts one entry at a time, with an await after each, and places    *)
(* its entry afterwards; deletions of several keys await after each key.    *)
(* Other calls run in between.                                             *)
(*                                                                         *)
(* The clock is abstracted to whether an entry is live or expired.          *)
(***************************************************************************)
EXTENDS Integers, Sequences, SequencesExt, FiniteSets

CONSTANTS
    Keys, Tags,
    TagsOf,         \* [Keys -> SUBSET Tags], the default tags of the key's entity type
    Versions,       \* the values
    SizeOf,         \* [Versions -> Nat]
    MaxEntries,
    MaxUsage,       \* maxMemoryUsage
    Setters,        \* whatever calls set
    Sweepers,       \* whatever calls deleteMany
    Absent

ASSUME StoreAssumption ==
    /\ TagsOf \in [Keys -> SUBSET Tags] /\ SizeOf \in [Versions -> Nat]
    /\ MaxEntries \in Nat \ {0} /\ MaxUsage \in Nat \ {0}
    /\ Absent \notin Keys /\ Absent \notin Versions
    /\ Absent \notin [version : Versions, live : BOOLEAN]

VARIABLES
    store,      \* the Map, its order, memoryUsage and the tag index
    setting,    \* setter -> its set() that awaits evict()
    sweep       \* sweeper -> keys its deleteMany has still to delete

storeVars == <<store, setting, sweep>>

NoSet == [key |-> Absent, snapshot |-> <<>>, evicting |-> FALSE]

StoreInit ==
    /\ store = [entry |-> [k \in Keys |-> Absent], order |-> <<>>, usage |-> 0, tagged |-> [t \in Tags |-> {}]]
    /\ setting = [x \in Setters |-> NoSet]
    /\ sweep = [w \in Sweepers |-> {}]

(***************************************************************************)
(* The synchronous parts of get, set and delete                            *)
(***************************************************************************)
DeletedUntagged(s, k) ==  \* mutant
    IF s.entry[k] = Absent THEN s
    ELSE [s EXCEPT !.entry[k] = Absent, !.order = RemoveFirst(@, k), !.usage = @ - SizeOf[s.entry[k].version]]
Deleted(s, k) ==
    IF s.entry[k] = Absent THEN s
    ELSE [entry  |-> [s.entry EXCEPT ![k] = Absent],
          order  |-> RemoveFirst(s.order, k),
          usage  |-> s.usage - SizeOf[s.entry[k].version],
          tagged |-> [t \in Tags |-> s.tagged[t] \ {k}]]

\* The Map keeps the place of a key it has; the old entry is taken out of the
\* sum and of the index.
PlacedOnTop(s, k, v) ==  \* mutant
    [entry  |-> [s.entry EXCEPT ![k] = [version |-> v, live |-> TRUE]],
     order  |-> IF s.entry[k] = Absent THEN Append(s.order, k) ELSE s.order,
     usage  |-> s.usage + SizeOf[v],
     tagged |-> [t \in Tags |-> IF t \in TagsOf[k] THEN s.tagged[t] \cup {k} ELSE s.tagged[t] \ {k}]]
Placed(s, k, v) ==
    [entry  |-> [s.entry EXCEPT ![k] = [version |-> v, live |-> TRUE]],
     order  |-> IF s.entry[k] = Absent THEN Append(s.order, k) ELSE s.order,
     usage  |-> (IF s.entry[k] = Absent THEN s.usage ELSE s.usage - SizeOf[s.entry[k].version]) + SizeOf[v],
     tagged |-> [t \in Tags |-> IF t \in TagsOf[k] THEN s.tagged[t] \cup {k} ELSE s.tagged[t] \ {k}]]

Hit(k) == store.entry[k] # Absent /\ store.entry[k].live

Touched(s, k) == [s EXCEPT !.order = Append(RemoveFirst(s.order, k), k)]

Got(k) == IF Hit(k) THEN Touched(store, k) ELSE Deleted(store, k)

Full(s, v) == Len(s.order) >= MaxEntries \/ s.usage + SizeOf[v] > MaxUsage

\* evict goes on until four fifths of the memory would be used.
ToEvict(s, v) == Len(s.order) >= MaxEntries \/ 5 * (s.usage + SizeOf[v]) > 4 * MaxUsage

(***************************************************************************)
(* set: at once, or after evict(), over the keys as they were when it began *)
(***************************************************************************)
SetNow(x, k, v) ==
    /\ setting[x] = NoSet
    /\ ~Full(store, v)
    /\ store' = Placed(store, k, v)
    /\ UNCHANGED <<setting, sweep>>

\* The first entry is evicted before the first await.
SetEvicts(x, k, v) ==
    /\ setting[x] = NoSet
    /\ Full(store, v)
    /\ store' = IF store.order = <<>> THEN store ELSE Deleted(store, Head(store.order))
    /\ setting' = [setting EXCEPT ![x] =
          [key |-> k, evicting |-> Len(store.order) > 1,
           snapshot |-> IF store.order = <<>> THEN <<>> ELSE Tail(store.order)]]
    /\ UNCHANGED sweep

EvictNext(x, v) ==
    LET q == setting[x].snapshot
    IN  /\ setting[x].evicting
        /\ IF ToEvict(store, v)
           THEN /\ store' = Deleted(store, Head(q))
                /\ setting' = [setting EXCEPT ![x].snapshot = Tail(q), ![x].evicting = Len(q) > 1]
           ELSE /\ setting' = [setting EXCEPT ![x].snapshot = <<>>, ![x].evicting = FALSE]
                /\ UNCHANGED store
        /\ UNCHANGED sweep

SetAfterEviction(x, v) ==
    /\ setting[x].key # Absent /\ ~setting[x].evicting
    /\ store' = Placed(store, setting[x].key, v)
    /\ setting' = [setting EXCEPT ![x] = NoSet]
    /\ UNCHANGED sweep

(***************************************************************************)
(* deleteMany, for deletePattern, deleteByTags and cleanup: the first key   *)
(* at once, an await after each. clear.                                    *)
(***************************************************************************)
DeleteMany(w, ks) ==
    /\ sweep[w] = {}
    /\ IF ks = {} THEN UNCHANGED <<store, sweep>>
       ELSE \E k \in ks : store' = Deleted(store, k) /\ sweep' = [sweep EXCEPT ![w] = ks \ {k}]
    /\ UNCHANGED setting

DeleteNext(w) ==
    /\ \E k \in sweep[w] :
          /\ store' = Deleted(store, k)
          /\ sweep' = [sweep EXCEPT ![w] = @ \ {k}]
    /\ UNCHANGED setting

Expired == {k \in Keys : store.entry[k] # Absent /\ ~store.entry[k].live}

Clear ==
    /\ store.order # <<>>
    /\ store' = [store EXCEPT !.entry = [k \in Keys |-> Absent], !.order = <<>>, !.usage = 0,
                              !.tagged = [t \in Tags |-> {}]]
    /\ UNCHANGED <<setting, sweep>>

Expires(k) ==
    /\ Hit(k)
    /\ store' = [store EXCEPT !.entry[k].live = FALSE]
    /\ UNCHANGED <<setting, sweep>>

-----------------------------------------------------------------------------
Present == {k \in Keys : store.entry[k] # Absent}

StoreTypeOK ==
    /\ store.entry \in [Keys -> [version : Versions, live : BOOLEAN] \cup {Absent}]
    /\ store.order \in Seq(Keys) /\ store.usage \in Nat /\ store.tagged \in [Tags -> SUBSET Keys]
    /\ setting \in [Setters -> [key : Keys \cup {Absent}, snapshot : Seq(Keys), evicting : BOOLEAN]]
    /\ sweep \in [Sweepers -> SUBSET Keys]

\* What the stored entries take, unit by unit.
Units == UNION {{k} \X (1..SizeOf[store.entry[k].version]) : k \in Present}

\* The running sum is the size of what is stored: evictions, sweeps and sets
\* that overlap do not let it drift, which would evict for ever or never.
UsageExact == store.usage = Cardinality(Units)

\* The tag index and the order speak of the stored keys, all of them and once
\* each: an invalidation by tag misses none.
IndexExact ==
    /\ \A t \in Tags : store.tagged[t] = {k \in Present : t \in TagsOf[k]}
    /\ IsInjective(store.order) /\ ToSet(store.order) = Present
=============================================================================
