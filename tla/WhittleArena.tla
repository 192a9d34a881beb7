---------------------------- MODULE WhittleArena ----------------------------
(***************************************************************************)
(* The Whittle engine (gz-engine-whittle, engine.rs): the arena of graphs, *)
(* one slot and one reference count per distinct hash, the arena of        *)
(* candidate handles over batches, and the two caches, as operators on one *)
(* engine value.  A handle is its slot index: release builds compile the   *)
(* generation check away, so a stale handle names whatever lives there now.*)
(*                                                                         *)
(* The rewriting rules are a table: what each candidate of a graph yields. *)
(* An operation that returns an EngineError leaves fault set.              *)
(***************************************************************************)
EXTENDS Naturals, Sequences, FiniteSets, TLC, SequencesExt

CONSTANTS Hash, None

Push(stack, x) == Append(stack, x)
Pop(stack) == Front(stack)

\* GraphArena: by_hash and hash_refs are keyed by hash, items by slot.
GraphArena ==
    [items |-> <<>>, free |-> <<>>,
     by_hash |-> [h \in Hash |-> None], hash_refs |-> [h \in Hash |-> 0]]
\* CandidateArena: a handle locates a record of a batch.
CandidateArena ==
    [handles |-> <<>>, free_handles |-> <<>>, batches |-> <<>>, free_batches |-> <<>>]
WhittleCaches ==
    [cached |-> [h \in Hash |-> None], transitions |-> [h \in Hash |-> <<>>]]

Live(slots, id) == id \in DOMAIN slots /\ slots[id] # None
Fault(e) == [e EXCEPT !.fault = TRUE]

-----------------------------------------------------------------------------
(* Graphs *)

insert(e, h) ==
    IF e.by_hash[h] # None
    THEN [engine |-> [e EXCEPT !.hash_refs[h] = @ + 1], id |-> e.by_hash[h]]
    ELSE LET reuse == e.free # <<>>
             id == IF reuse THEN Last(e.free) ELSE Len(e.items) + 1
         IN  [engine |-> [e EXCEPT !.items = IF reuse THEN [@ EXCEPT ![id] = h] ELSE Append(@, h),
                                   !.free = IF reuse THEN Pop(@) ELSE @,
                                   !.by_hash[h] = id,
                                   !.hash_refs[h] = @ + 1],
              id |-> id]

\* A hash no longer live is not retained: the caller rewrites again.
retain_hash(e, h) ==
    [engine |-> IF e.by_hash[h] = None THEN e ELSE [e EXCEPT !.hash_refs[h] = @ + 1],
     id |-> e.by_hash[h]]

DropCaches(e, h) == [e EXCEPT !.cached[h] = None, !.transitions[h] = <<>>]

\* One reference to a graph is dropped, with its caches when it was the last;
\* the last reference to the engine root cannot be.
release_protected(e, id) ==
    IF ~Live(e.items, id) THEN Fault(e)
    ELSE LET h == e.items[id]
         IN  IF e.hash_refs[h] > 1 THEN [e EXCEPT !.hash_refs[h] = @ - 1]
             ELSE IF id = e.root THEN Fault(e)
             ELSE DropCaches([e EXCEPT !.items[id] = None, !.free = Push(@, id),
                                       !.hash_refs[h] = 0, !.by_hash[h] = None], h)

-----------------------------------------------------------------------------
(* Candidates *)

insert_handle(e, location) ==
    LET reuse == e.free_handles # <<>>
        id == IF reuse THEN Last(e.free_handles) ELSE Len(e.handles) + 1
        slot == [location |-> location, refs |-> 1]
    IN  [engine |-> [e EXCEPT !.handles = IF reuse THEN [@ EXCEPT ![id] = slot] ELSE Append(@, slot),
                              !.free_handles = IF reuse THEN Pop(@) ELSE @],
         id |-> id]

\* A batch of n records of the graph h, with one handle for each.
insert_batch(e, h, n) ==
    LET reuse == e.free_batches # <<>>
        index == IF reuse THEN Last(e.free_batches) ELSE Len(e.batches) + 1
        batch == [graph_hash |-> h, live_handles |-> n, records |-> n]
        stored == [e EXCEPT !.batches = IF reuse THEN [@ EXCEPT ![index] = batch] ELSE Append(@, batch),
                            !.free_batches = IF reuse THEN Pop(@) ELSE @]
        Handle(acc, record) ==
            LET r == insert_handle(acc.engine, <<index, record>>)
            IN  [engine |-> r.engine, ids |-> Append(acc.ids, r.id)]
    IN  IF n = 0 THEN [engine |-> e, ids |-> <<>>]
        ELSE FoldLeft(Handle, [engine |-> stored, ids |-> <<>>], [i \in 1..n |-> i])

retain(e, c) ==
    IF ~Live(e.handles, c) THEN Fault(e) ELSE [e EXCEPT !.handles[c].refs = @ + 1]

\* The graph and the rewrite a live candidate handle stands for.
get(e, c) ==
    LET at == e.handles[c].location
    IN  [graph_hash |-> e.batches[at[1]].graph_hash, raw |-> at[2]]

\* One reference to a candidate is dropped; the last one frees the handle, the
\* batch when it was its last handle, and the caches of the graph.
release_candidate(e, c) ==
    IF ~Live(e.handles, c) THEN Fault(e)
    ELSE IF e.handles[c].refs > 1 THEN [e EXCEPT !.handles[c].refs = @ - 1]
    ELSE LET at == e.handles[c].location
             last == e.batches[at[1]].live_handles = 1
         IN  DropCaches([e EXCEPT !.handles[c] = None, !.free_handles = Push(@, c),
                                  !.batches[at[1]] = IF last THEN None
                                                     ELSE [@ EXCEPT !.live_handles = @ - 1],
                                  !.free_batches = IF last THEN Push(@, at[1]) ELSE @],
                        get(e, c).graph_hash)

-----------------------------------------------------------------------------
(* The engine interface *)

NewEngine(rules, caches, root) ==
    LET empty == [rules |-> rules, caches |-> caches, fault |-> FALSE, root |-> None]
                 @@ GraphArena @@ CandidateArena @@ WhittleCaches
        rooted == insert(empty, root)
    IN  [rooted.engine EXCEPT !.root = rooted.id]

Smaller(limit, n) == IF limit = None THEN n ELSE IF limit < n THEN limit ELSE n

\* A truncated list answers only requests for no more than it holds.
Served(cached, limit) ==
    cached # None /\ ~(cached.truncated /\ (limit = None \/ limit > Len(cached.ids)))

\* Every id returned carries a reference the caller must release.
enumerate_candidate_ids(e, graph, limit) ==
    LET h == e.items[graph]
        cached == e.cached[h]
        n == Smaller(limit, Len(e.rules[h]))
        ids == SubSeq(cached.ids, 1, Smaller(limit, Len(cached.ids)))
        fresh == insert_batch(e, h, n)
        entry == [ids |-> fresh.ids, truncated |-> limit # None /\ n = limit]
    IN  IF ~Live(e.items, graph) THEN [engine |-> Fault(e), ids |-> <<>>]
        ELSE IF e.caches /\ Served(cached, limit)
        THEN [engine |-> FoldLeft(retain, e, ids), ids |-> ids]
        ELSE [engine |-> IF e.caches THEN [fresh.engine EXCEPT !.cached[h] = entry]
                         ELSE fresh.engine,
              ids |-> fresh.ids]

\* The rewrite, from the transition cache when its result is still live.
\* Whittle rejects no candidate it enumerated.
apply(e, graph, candidate) ==
    LET h == e.items[graph]
        body == get(e, candidate)
        known == e.caches /\ body.raw \in DOMAIN e.transitions[h]
        kept == retain_hash(e, e.transitions[h][body.raw])
        made == insert(e, e.rules[h][body.raw])
        noted == [made.engine EXCEPT !.transitions[h] = (body.raw :> e.rules[h][body.raw]) @@ @]
        after == IF known /\ kept.id # None THEN kept
                 ELSE [engine |-> IF e.caches THEN noted ELSE made.engine, id |-> made.id]
    IN  IF \/ ~Live(e.items, graph) \/ ~Live(e.handles, candidate)
           \/ body.graph_hash # h
        THEN [engine |-> Fault(e), after |-> graph, after_hash |-> h, rejected |-> FALSE]
        ELSE [engine |-> after.engine, after |-> after.id,
              after_hash |-> after.engine.items[after.id], rejected |-> FALSE]

release(e, graphs, candidates) ==
    LET Each(Op(_, _), acc, x) == IF acc.fault THEN acc ELSE Op(acc, x)
    IN  FoldLeft(LAMBDA acc, g : Each(release_protected, acc, g),
                 FoldLeft(LAMBDA acc, c : Each(release_candidate, acc, c), e, candidates),
                 graphs)

\* The graphs of a generated root: the seed, then one for each prewalk step.
sample_with_created_graphs(e, walk) ==
    LET Insert(acc, h) == LET r == insert(acc.engine, h)
                          IN  [engine |-> r.engine, created |-> Append(acc.created, r.id)]
    IN  FoldLeft(Insert, [engine |-> e, created |-> <<>>], walk)

\* Only the last of them stays with the caller.
sample_root_into(e, walk) ==
    LET all == sample_with_created_graphs(e, walk)
    IN  [engine |-> release(all.engine, Front(all.created), <<>>), id |-> Last(all.created)]
=============================================================================
