---------------------------- MODULE ObjectRoutes -----------------------------
(***************************************************************************)
(* The object stores of one query: ObjectStoreRouteRegistry of             *)
(* src/engine/catalog.rs collects, per bucket, the stores of the tables    *)
(* the query names, each with the prefix of its table and with that        *)
(* table's credentials; PrefixRoutingObjectStore of src/engine.rs sends    *)
(* every operation on a path to one of them.  A path or a prefix is a      *)
(* sequence of characters, without a slash at either end.                  *)
(***************************************************************************)
EXTENDS RustStd

Slash == "/"

\* ObjectPath::from_url_path: a slash at either end is dropped, an empty segment
\* is an error.
ObjectPath(path) ==
    LET first == IF path # <<>> /\ Head(path) = Slash THEN 2 ELSE 1
        last == IF Len(path) > first /\ Last(path) = Slash THEN Len(path) - 1 ELSE Len(path)
        inner == SubSeq(path, first, last)
    IN IF \E i \in 1..(Len(inner) - 1) : inner[i] = Slash /\ inner[i + 1] = Slash
       THEN None ELSE inner

\* table_object_store_route: the bucket and the prefix of a table's location.
TableObjectStoreRoute(location) ==
    IF location.host = None \/ ObjectPath(location.path) = None THEN None
    ELSE [url |-> location.host, prefix |-> ObjectPath(location.path)]

ObjectStoreRoute(prefix, store) == [prefix |-> prefix, store |-> store]

\* record_store: the latest store of a prefix replaces the one before.
RecordStore(routes, prefix, store) ==
    Append(Retained(routes, {i \in DOMAIN routes : routes[i].prefix # prefix}),
           ObjectStoreRoute(prefix, store))

\* Faulty variant of PathHasPrefix: a comparison of strings, whatever follows.
StartsWithPrefix(path, prefix) == IsPrefix(prefix, path)

PathHasPrefix(path, prefix) ==
    \/ prefix = <<>>
    \/ path = prefix
    \/ IsStrictPrefix(prefix, path) /\ path[Len(prefix) + 1] = Slash

\* PrefixRoutingObjectStore::new: the longest prefixes come first.
PrefixRouting(routes) ==
    StableSort(routes, LAMBDA r, s : Len(r.prefix) > Len(s.prefix))

\* The store of the first route that satisfies Test; None: no route matched.
FirstRoute(routes, Test(_)) ==
    LET found == {i \in DOMAIN routes : Test(routes[i])}
    IN IF found = {} THEN None ELSE routes[Min(found)].store

\* route_store_for_location
StoreForLocation(routes, location) ==
    FirstRoute(routes, LAMBDA route : PathHasPrefix(location, route.prefix))

\* The store that is listed: the one of the prefix or, for a prefix above the
\* tables, the first one below it; without a prefix the first of all.
StoreForPrefix(routes, prefix) ==
    IF prefix = None THEN FirstRoute(routes, LAMBDA route : TRUE)
    ELSE LET store == StoreForLocation(routes, prefix)
         IN IF store # None THEN store
            ELSE FirstRoute(routes, LAMBDA route : PathHasPrefix(route.prefix, prefix))

\* copy_opts: the store that copies, None if there is none or there are two.
CopyStore(routes, from, to) ==
    LET source == StoreForLocation(routes, from)
    IN IF source = StoreForLocation(routes, to) THEN source ELSE None
=============================================================================
