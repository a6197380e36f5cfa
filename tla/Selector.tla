------------------------------ MODULE Selector ------------------------------
(* A select group (selector/mod.rs), PUT /proxies/:name, and the part of cache.db
   (profile/mod.rs) that remembers its selection over reloads and crashes.

   The group has an optional list of its own, which never changes, and a provider
   whose list does, so that gathering the proxies is one step.  A reload builds a
   new cache store from the file and a new group; the flush task of the old store
   is not stopped, nor are requests that are being served.  A torn write of the
   file is in FakeIpFile. *)
EXTENDS Naturals, Sequences, Functions, SequencesExt

CONSTANTS
    Names,          \* names a request may ask for
    OwnLists,       \* lists of the group itself, <<>> if it only uses the provider
    ProviderLists,  \* lists the provider may hold
    Requests, Dials,
    MaxStores,      \* bound: cache stores, one more than the reloads and crashes
    NoName

ASSUME SelectorAssumption == NoName \notin Names /\ MaxStores \in Nat \ {0}

VARIABLES
    remember,     \* profile.store-selected
    own, list,    \* the proxies of the group's own provider and of the other one
    index,        \* current_selected_index
    store,        \* the cache store in use; older ones were replaced
    db,           \* [store |-> selected[group] in its Db]
    flushing,     \* stores whose flush task runs
    file,         \* selected[group] in cache.db
    at,           \* [request |-> "idle", "select", "persist" or "done"]
    name, gathered, using,   \* [request |-> its name, list and cache store]
    dialed,       \* [dial |-> the list it gathered, <<>> before that]
    wanted,       \* history: the name the index was set for, NoName if by default
    basis,        \* history: the list in which it was looked up
    tangled       \* history: selections overlapped, or one was dropped half-way

requestVars == <<at, name, gathered, using>>
vars == <<remember, own, list, index, store, db, flushing, file, requestVars,
          dialed, wanted, basis, tangled>>

Stores == 1 .. MaxStores

\* A type invariant: only stores that were made are flushed.
TypeOK ==
    /\ remember \in BOOLEAN /\ own \in OwnLists /\ list \in ProviderLists
    /\ index \in Nat /\ store \in Stores
    /\ db \in [Stores -> Names \cup {NoName}] /\ file \in Names \cup {NoName}
    /\ flushing \subseteq 1 .. store
    /\ at \in [Requests -> {"idle", "select", "persist", "done"}]
    /\ name \in [Requests -> Names \cup {NoName}] /\ using \in [Requests -> Stores]
    /\ DOMAIN dialed = Dials
    /\ wanted \in Names \cup {NoName} /\ tangled \in BOOLEAN

\* get_proxies_from_providers keeps the first proxy of each name.
get_proxies(a, b) ==
    FoldLeft(LAMBDA acc, p : IF p \in Range(acc) THEN acc ELSE Append(acc, p), <<>>, a \o b)

Position(s, n) == CHOOSE i \in DOMAIN s : s[i] = n /\ \A j \in 1 .. i - 1 : s[j] # n
FirstProvider(l) == IF own # <<>> THEN own ELSE l

\* Mutant: a selection that is restored is off by one.
NewIndexShifted(saved, l) ==
    IF saved \in Range(FirstProvider(l)) THEN Position(FirstProvider(l), saved) % Len(FirstProvider(l)) ELSE 0

\* selector::Handler::new looks the saved name up in the first provider alone.
NewIndex(saved, l) ==
    IF saved \in Range(FirstProvider(l)) THEN Position(FirstProvider(l), saved) - 1 ELSE 0

Init ==
    /\ remember \in BOOLEAN /\ own \in OwnLists /\ list \in ProviderLists
    /\ file \in Names \cup {NoName}
    /\ store = 1 /\ db = [s \in Stores |-> IF s = 1 THEN file ELSE NoName]
    /\ flushing = IF remember THEN {1} ELSE {}
    /\ index = IF remember THEN NewIndex(file, list) ELSE 0
    /\ wanted = IF remember /\ file \in Range(FirstProvider(list)) THEN file ELSE NoName
    /\ basis = get_proxies(own, list)
    /\ at = [r \in Requests |-> "idle"]
    /\ name = [r \in Requests |-> NoName]
    /\ gathered = [r \in Requests |-> <<>>]
    /\ using = [r \in Requests |-> 1]
    /\ dialed = [d \in Dials |-> <<>>]
    /\ tangled = FALSE

----------------------------------------------------------------------------
(* PUT /proxies/:name: update_proxy, Handler::select, set_selected *)

Gather(r) ==
    /\ at[r] = "idle"
    /\ \E n \in Names : name' = [name EXCEPT ![r] = n]
    /\ gathered' = [gathered EXCEPT ![r] = get_proxies(own, list)]
    /\ using' = [using EXCEPT ![r] = store]
    /\ at' = [at EXCEPT ![r] = "select"]
    /\ UNCHANGED <<remember, own, list, index, store, db, flushing, file, dialed, wanted, basis, tangled>>

\* The handler is over, and its locals with it.
Leave(r) ==
    /\ at' = [at EXCEPT ![r] = "done"]
    /\ name' = [name EXCEPT ![r] = NoName]
    /\ gathered' = [gathered EXCEPT ![r] = <<>>]
    /\ using' = [using EXCEPT ![r] = 1]

\* The name is in the list: its index is stored, in the group of that time.
Select(r) ==
    /\ at[r] = "select" /\ name[r] \in Range(gathered[r])
    /\ at' = [at EXCEPT ![r] = "persist"]
    /\ tangled' = (tangled \/ \E o \in Requests : at[o] = "persist" /\ using[o] = store)
    /\ IF using[r] = store
          THEN /\ index' = Position(gathered[r], name[r]) - 1
               /\ wanted' = name[r] /\ basis' = gathered[r]
          ELSE UNCHANGED <<index, wanted, basis>>
    /\ UNCHANGED <<remember, own, list, store, db, flushing, file, name, gathered, using, dialed>>

\* Mutant: a name that is not in the list is remembered all the same.
SelectFailsStores(r) ==
    /\ at[r] = "select" /\ name[r] \notin Range(gathered[r])
    /\ db' = IF remember THEN [db EXCEPT ![using[r]] = name[r]] ELSE db
    /\ Leave(r)
    /\ UNCHANGED <<remember, own, list, index, store, flushing, file, dialed, wanted, basis, tangled>>

\* It is not: 400, and nothing is remembered.
SelectFails(r) ==
    /\ at[r] = "select" /\ name[r] \notin Range(gathered[r])
    /\ Leave(r)
    /\ UNCHANGED <<remember, own, list, index, store, db, flushing, file, dialed, wanted, basis, tangled>>

Persist(r) ==
    /\ at[r] = "persist"
    /\ db' = IF remember THEN [db EXCEPT ![using[r]] = name[r]] ELSE db
    /\ Leave(r)
    /\ UNCHANGED <<remember, own, list, index, store, flushing, file, dialed, wanted, basis, tangled>>

\* The client goes away.
Cancel(r) ==
    /\ at[r] \in {"select", "persist"}
    /\ tangled' = (tangled \/ (at[r] = "persist" /\ using[r] = store))
    /\ Leave(r)
    /\ UNCHANGED <<remember, own, list, index, store, db, flushing, file, dialed, wanted, basis>>

----------------------------------------------------------------------------
(* cache.db *)

\* The task of ThreadSafeCacheFile::new that store s started.
Flush(s) ==
    /\ s \in flushing
    /\ file' = db[s]
    /\ UNCHANGED <<remember, own, list, index, store, db, flushing, requestVars, dialed, wanted, basis, tangled>>

\* create_components: a store reads the file and starts its task; then the group
\* is made from the store.  Dials that have begun end with the group they know.
Build(tasks) ==
    /\ store < MaxStores
    /\ store' = store + 1
    /\ db' = [db EXCEPT ![store + 1] = file]
    /\ flushing' = IF remember THEN tasks \cup {store + 1} ELSE {}
    /\ index' = IF remember THEN NewIndex(file, list) ELSE 0
    /\ wanted' = IF remember /\ file \in Range(FirstProvider(list)) THEN file ELSE NoName
    /\ basis' = get_proxies(own, list)
    /\ dialed' = [d \in Dials |-> <<>>]
    /\ tangled' = FALSE
    /\ UNCHANGED <<remember, own, list, file>>

Reload ==
    /\ Build(flushing)
    /\ UNCHANGED requestVars

\* The process dies and is started again.
Crash ==
    /\ Build({})
    /\ at' = [r \in Requests |-> "done"]
    /\ name' = [r \in Requests |-> NoName]
    /\ gathered' = [r \in Requests |-> <<>>]
    /\ using' = [r \in Requests |-> 1]

\* The provider of the group is updated.
Publish ==
    /\ list' \in ProviderLists \ {list}
    /\ UNCHANGED <<remember, own, index, store, db, flushing, file, requestVars, dialed, wanted, basis, tangled>>

----------------------------------------------------------------------------
(* Handler::selected_proxy *)

\* Two empty lists panic.
DialGather(d) ==
    /\ dialed[d] = <<>> /\ get_proxies(own, list) # <<>>
    /\ dialed' = [dialed EXCEPT ![d] = get_proxies(own, list)]
    /\ UNCHANGED <<remember, own, list, index, store, db, flushing, file, requestVars, wanted, basis, tangled>>

\* The proxy at the index, or the first one if the list has become too short.
selected_proxy(d) == dialed[d][IF index < Len(dialed[d]) THEN index + 1 ELSE 1]

\* The index is read and the dial goes on with selected_proxy(d).
DialPick(d) ==
    /\ dialed[d] # <<>>
    /\ dialed' = [dialed EXCEPT ![d] = <<>>]
    /\ UNCHANGED <<remember, own, list, index, store, db, flushing, file, requestVars, wanted, basis, tangled>>

Next ==
    \/ \E r \in Requests : Gather(r)
    \/ \E r \in Requests : Select(r)
    \/ \E r \in Requests : SelectFails(r)
    \/ \E r \in Requests : Persist(r)
    \/ \E r \in Requests : Cancel(r)
    \/ \E s \in Stores : Flush(s)
    \/ Reload
    \/ Crash
    \/ Publish
    \/ \E d \in Dials : DialGather(d)
    \/ \E d \in Dials : DialPick(d)

Spec == Init /\ [][Next]_vars

----------------------------------------------------------------------------
(* Properties *)

\* A dial goes to the proxy that was selected, by a request or by what cache.db
\* remembered, if it gathered the list in which that selection was looked up; a
\* restored selection is looked up in the first provider alone.
SelectionHonoured ==
    \A d \in Dials :
        dialed[d] # <<>> /\ dialed[d] = basis /\ wanted # NoName => selected_proxy(d) = wanted

\* What the cache store would restore is what dials use, unless two selections
\* overlapped or the client of one went away between its two halves.
StoredIsSelected ==
    /\ remember /\ ~tangled /\ wanted # NoName
    /\ \A r \in Requests : at[r] # "persist"
    => db[store] = wanted

\* "Store the `select` results in $CWD/cache.db": a selection that has reached the
\* file stays there until it is replaced by another.
SelectionStaysStored ==
    [][file = db[store] /\ store' = store /\ db' = db => file' = file]_vars

\* "in the case the selected proxy is not found(stale cache), return the first one":
\* a dial takes the selected proxy or the first one of its list.
SelectedOrFirst ==
    \A d \in Dials :
        dialed[d] # <<>> /\ wanted # NoName => selected_proxy(d) \in {wanted, dialed[d][1]}
=============================================================================
