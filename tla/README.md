# A TLA+ development of numu

numu is a Postgres-backed HTTP service (Rust, axum and sqlx, `src/crates/api`) that keeps typed
objects ("Cases" first of all), shares them through memberships, and moves Cases through a
workflow and a multi-role feature pipeline. Its correctness lives in the gaps between SQL
statements. Of the handlers modelled here only `coll_create`, `create_type` and the first login of
`upsert_identity` open a transaction; every other one reads, decides and writes in separate statements while other requests run. This
development models those handlers statement by statement, checks them with TLC on small instances,
and proves the central properties with TLAPS for every value of the constants.

## 1. Inventory

| Component | State | Operations that change it | Module |
|---|---|---|---|
| Feature-run orchestrator (`orchestrator.rs`) | `feature_runs`, `role_handoffs` | `start_run`, `record_handoff` | `FeatureRun` (abstract), `Orchestrator` |
| Generic object handlers (`objects.rs`, `db.rs`) | `entity_data`, the `cases` mirror, `events` | `coll_create`, `item_put`, `item_patch`, `item_delete` | `Objects` |
| Workflow and close gate (`workflow.rs`, `0008_cases_guard.sql`) | a workflow cache that never changes, `case_close_checks` | `validate`, `record_check`, the trigger | `Objects` |
| Reach resolver (`rbac.rs`, `caller.rs`) | none of its own: reads `memberships` and scope edges | pure | `Rbac` |
| Sharing (`members.rs`) | `memberships` | `add_member`, `set_member`, `remove_member` | `Members` |
| Field permissions (`field_perms.rs`) | floors that never change | pure | `Objects` (write gate) |
| Type registration (`types.rs`, `registry.rs`) | `type_definitions`, `type_fields`, the in-process snapshot | `create_type`, boot | `Registry` |
| Rate limiter (`ratelimit.rs`) | an in-memory map of windows | `allow`, called by `enforce` | `RateLimit` |
| Sessions, admin claim (`auth.rs`) | `sessions`, the actor rows of `entity_data` | `mint_session`, `dev_login`, `claim_admin`, `logout`, the `Caller` extractor | `Accounts` |
| OAuth login (`oauth.rs`) | `auth_identities`, a signed state cookie | `start`, `callback`, `complete_login`, `upsert_identity` | `Accounts` |
| Connectors (`connectors.rs`) | the run stamp in `entity_data` | `run_connector`, `stamp_run` | `Platform` |
| Relations (`relations.rs`) | `relations` | `create_relation`, `delete_relation`; `list_relations` reads in three steps | `Relations` |
| Outbound client (`http_client.rs`) | none | DNS and HTTP behind an address check | not modelled |
| Omnisearch, health, debug, ids, errors, configuration | none | read-only or wiring | not modelled |

How they interact: every object handler asks the reach resolver for the caller's rank, and the
resolver reads what sharing writes. The object handlers read the registry snapshot that type
registration swaps. The orchestrator asks for reach on its Case, and deleting the Case through the
object handlers unlinks the run. Every handler gets its `Caller` from a session, and the actor rows
that sessions, identities and the admin claim refer to are themselves written and deleted by the
object handlers; so are the connector rows that `stamp_run` writes. Relations ask the reach resolver
in both of its directions. All share one database; nothing but the snapshot, the workflow
cache and the limiter's map lives in the process.

What is hard, and what must hold:

- *Orchestrator.* The handler reads the run, counts handoffs and fails, inserts, then updates
  unconditionally. The chain of roles must stay in order, the run row must be explained by its
  history, the caps must trip neither early nor late.
- *Objects.* The data a PATCH merges into is read apart from the versioned UPDATE; the mirror, the
  close checks and the audit row are statements of their own. No update may be lost, the workflow
  may not be jumped, a mirror may not outlive or mix versions.
- *Sharing.* Guards (rank ceiling, cycle, last owner) run ahead of the write they guard. Nobody may
  gain a rank that nobody held, and the two directions of the resolver must agree.
- *Registration.* A snapshot is assembled from two queries while others commit. No half types, no
  names taken twice, no dangling refs, no registered type lost from sight.
- *Accounts.* A login is a chain of steps over two cookies, a provider and three tables, and a browser
  may run several at once. A login must stay with the browser that began it and with one actor per
  person; a claim's condition is evaluated before its write; the limiter's clock is read before its
  mutex is taken.
- *Engine writes.* `claim_admin` and `stamp_run` write rows that PUT and PATCH hold in their locals; the
  version is all that keeps them apart.
- *Relations.* Each end of an edge is gated on its own, statements before the edge is written, and by
  the two directions of the resolver. Edges may not dangle, and who lists or changes one must be who
  the ends allow.

`PROJECT.json` lists every hazard at its line with the properties that cover it, or says why none
does yet.

## 2. Modules and how they correspond to the code

In all modules a client has at most one request in flight, and `handler[c]` holds the local
variables of that request: `pc` names the SQL statement that comes next. A request that a handler
refuses before its first write changes nothing and is no step, so guards are the conjunction of the
handler's early returns. Checks that only read and whose result is used at once are merged into the
step they precede. A single SQL statement is atomic, foreign keys, cascades and triggers included.
`Abort` ends a handler before any of its statements: axum drops the future when the connection
goes away, and a failing statement returns early with `?`.

**FeatureRun** is what the pipeline promises, without handlers: a run walks `spec, test, code,
review, ops`, each handoff is one step, and the breaker closes the run at the `MaxRetries`-th fail of
a gate or at the `MaxHops`-th handoff.

**Orchestrator** is `record_handoff`: `BeginHandoff` (read, authority, active, role), `CountHops`,
`CountFails` (only for a fail), `InsertHandoff`, `UpdateRun`. `new_status` and `new_phase` are the
decision. `DeleteCase` is the `on delete set null` of `feature_runs.case_id`. One run is modelled:
runs share no state.

**Objects** is one Case. `row` is its `entity_data` row, `mirror` its `cases` row, `checks` the
passed close checks, `events` its audit rows. `BeginWrite` covers `item_put` and `item_patch` up to
the workflow check; then come one `ReadCheck` per close check, `UpdateRow` (`where version =
expected`), `UpsertMirror` with its foreign keys and the `cases_guard` trigger, and `RecordEvent`,
whose failure is only logged. `DeleteRef` is the deletion of an assignee or a project with its
`set null`. `hist`, `met` and `unfinished` are history variables that no guard reads. JSON data is a
function from the type's fields to values or `Null`; `build_create_data`, `build_put_data` and
`merge_patch` keep their names and differences.

**Rbac** has the two recursive queries as operators: `principals` as a least fixpoint, `scopes` with
its depth cap, `reachable_entity_ids` without one. **Members** extends it with the three sharing
handlers and the deletion of entities. `raced` and `stale` record whether another write came between
a handler's first query and its write.

**Registry** is `create_type`: `Begin` (validation against the snapshot), `Commit` (the
transaction; the unique constraints refuse or all rows appear), `load` twice (types, then the fields
of those types), `Store` (the swap and the 201). `Restart` is a boot.

**Relations** extends `Members`: `edges` is the table, `link[c]` the locals of a relation request.
`create_relation` is `BeginCreate` (the gate on the subject), `CheckObject`, `InsertEdge` (foreign keys
and the unique constraint); `list_relations` is `BeginListing`, `SelectRows`, `FilterRows`;
`delete_relation` is `BeginUnlink`, `CheckEdge`, `RemoveEdge`. `MembersStep` lets any step of the
sharing handlers happen in between, and a deletion takes the entity's edges along. `stale` records
that a membership, an entity or an edge changed since the request began.

**RateLimit** is `allow` under its mutex for a hit whose clock reading was `t`, which may be older than
`now`. `admitted`, `lag` and `lastHit` are history.

**Accounts** extends it with everything that decides who the caller is. `req[s]` is a request in
flight in slot `s`; a browser is a cookie jar and may have several. `Arrive` reads the clock, `Enforce`
counts the hit; then `DevLogin`, or `Route` with the extractor and `QueryAdmins`, `Promote` (the two
halves of the claim's UPDATE) or `Logout`. `Start` and `Callback` are the OAuth handlers, which
`lib.rs` merges outside the limiter; `LookUp`, `InsertIdentity` and `MintSession` follow. The provider
is external: its answer names any person. Sessions and flows are numbered in the order in which they
were made, so a token and a nonce are indices.

**Platform** extends `Accounts` with the writes of the object handlers to actor and connector rows
(`ReadRow`, `UpdateRow`, `DeleteItem`), with `item_get` and the copy a browser keeps under its ETag
(`Get`, `cache`), and with connector runs (`ReadConnector`, `StampRun`). It closes the composition: the
same rows carry the role the extractor reads, the identities' actors and the engine's stamps.

The `MC*` modules only give constants their values. Operators whose names end in a suffix, such as
`UpdateRow_AnyVersion`, are plausible wrong versions of the definition after them; each property is
known to fail on one of them.

## 3. What TLC checks

| Run | Shows |
|---|---|
| `orch_serial` | One handler at a time, none cut off: the statements implement `FeatureRun` (`ImplementsFeatureRun`), both caps are exact (`Breaker`), and a run that has used up its hops is closed (`CapClosesRun`). |
| `orch_concurrent` | Two racing handlers that may be cut off: `ChainOrder`, `RunJustified`, `NoPrematureEscalation` survive. |
| `objects` | A manager and a member race PUT, PATCH, DELETE and checks: `NoLostUpdate`, `StatusPathLegal`, `CloseNeedsChecks`, `MirrorIsAVersion`, `ParentIsProject`, `AuditAccounted`, and `FieldFloor`, which is what the code keeps of the field floors: a write changes a field above its caller's rank only as a PUT that leaves the field out and so resets it to its default. That exception contradicts the documents; `objects_floor` below shows it. |
| `members` | Two actors, two teams, a project, a Case and edges between them. Sharing: `NoEscalation`, `ListMatchesGate`, `TeamsAcyclic` unless handlers raced, `LastOwnerGuard` for a PATCH or DELETE that nothing overlapped. Relations: `EdgesSound` always; `ListingExact` and `LinkAuthority` for a request that nothing overtook. |
| `registry` | Three admins and restarts: `WholeTypes`, `UniqueNames`, `RefsKnown`, and `AnsweredIsLive` unless an outdated snapshot was stored. |
| `platform` | Seven mixes of requests, two in flight. The limiter: `TwiceTheLimit`, `OnlyFreshBeyondCap`. Logins: `LoginOwnFlow`, `OnePersonOneActor`, `NoOrphanActor`. The claim: `OneFirstAdmin` unless claims overlap. Rows the engine shares with the object handlers: `NamedFieldsOnly` and `ETagCurrent`, except where a claim was involved. |

Six runs check a sentence of the repository that the code does not keep; TLC's trace is the
evidence.

| Run | The sentence | What happens |
|---|---|---|
| `orch_closed` | `tests/orchestrator.rs`: "a closed run refuses further handoffs" | Two handlers read an active run; one closes it, the other's unconditional UPDATE reopens it. |
| `objects_mirror` | `HTTP.md`, `OBJECTS.md`: the version is mirrored on `cases` | The mirror upserts of two writes run in the opposite order of their UPDATEs. |
| `objects_floor` | `OBJECTS.md`: "only `owner`+ on the object may write"; `HTTP.md`: PUT and PATCH share the path with the per-field gate, after the data is assembled | The gate is asked about the keys of the payload. A member's PUT leaves out a field above its rank, and `build_put_data` resets it (`FloorKept`). |
| `objects_close` | `OBJECTS.md`: terminal entry is refused "until all pass" | A check is withdrawn between its SELECT and the UPDATE of `entity_data`. |
| `members_owner` | `RBAC.md`: "can't demote/remove the sole owner" | A POST on an existing member is an upsert without that guard. |
| `registry_live` | `types.rs`: "the type is live everywhere with no restart" | The registration that loaded first stores last. |

Bounds, and why they suffice:

- *Clients.* Two are enough for a read of one to straddle a write of the other, which is the shape of
  every hazard here. `Registry` has three, so that two registrations fall within one load. The theorems
  drop this bound.
- *`MaxHops`, `MaxRetries`.* Small, but larger than the shortest way around a loop, so both caps are
  reached separately. Under racing handlers `MaxRecorded` bounds the history, a handoff that is no
  pass counting twice: five passes still land a run, two fails trip the retry cap, and five passes of
  which two were recorded in the same phase trip the hop cap. `MaxAborts` bounds handlers cut off
  between INSERT and UPDATE.
- *`MaxVersion = 3`.* Create, two competing writes, and stale `If-Match` values for both.
- *`MaxWrites = 2`.* Two grants that invalidate each other's guards, with deletions in between.
  `MaxDepth = 2` is just the depth of the scope chain, so an off-by-one in the climb shows.
- *`linking`, `Mixed`, `MaxLinks`, `Linkable`.* A behaviour of `members` has either sharing requests
  alone, with the full set, or up to two relation requests together with Ann's grants of the second
  team to Bob, which open and close Bob's reach to an end of the edge.
- *`Workloads`.* Each behaviour of `platform` takes one mix: which requests, how many, until when, who is
  known and signed in. A mix holds the requests whose races one question is about; two questions that
  share no rows are not multiplied. `Window = 1`, `MaxHits = 2` and seven hits reach the bound of
  `TwiceTheLimit` exactly: with `Window` for `Window - lag`, TLC finds a hit that waited across another
  key's sweep. `Cap = 0` makes every hit after the first sweep; `StateTTL = 1` and `SessionTTL = 2`
  expire within the runs; `MaxWait = 1` lets a request wait for the mutex across one tick.
- The bodies in `MCObjects` contain, for each field, one that sets it and one that omits it;
  the bodies in `MCRegistry` collide in a prefix, in a type id, refer to each other, and dangle.

Deadlock is not checked except in `Registry`, where `Restart` is always possible: the bounds, and a
deleted Case or a closed run, are legitimate ends.

Fairness: only `CapClosesRun` needs any. `FairSpec` has weak fairness of `HandlerStep(c)`: a future
that is polled runs its next statement. It says nothing about clients sending requests, and `Abort`
stays possible except between INSERT and UPDATE (`MaxAborts = 0` in that run).

## 4. What TLAPS proves

All theorems hold for arbitrary constants that satisfy the named `ASSUME`s: any set of clients, any
caps, workflow, fields, payloads, specs.

**OrchestratorProofs.** `TypeCorrect`; then `HistoryInv`, which adds to the three properties what a
handler in flight may believe: the phase it read was earned by a recorded pass, its counts are never
above the truth, and what it is about to write to the run is already on record. `ChainOrderHolds`,
`RunJustifiedHolds` and `NoPrematureEscalationHolds` follow with any number of clients and aborts.
Under `Serial` (one client, no abort between INSERT and UPDATE) `SerialInv` says that the counts are
exact and at most one handoff is not yet applied; from it come `SerialBreaker`,
`SerialClosedIsFinal` and the refinement `SerialRefinement`. `Serial` is an assumption of those three
theorems and not of the system: `orch_closed` shows that it is needed.

**ObjectsProofs.** `TypeCorrect`: every stored version passed `validate_final`. `WriteInv` rests on
one observation: a handler whose version may still match the row has read the data of exactly that
version, because an `If-Match` value was issued before the read and versions only grow. This gives
`NoLostUpdateHolds`, `StatusPathLegalHolds` and `CloseNeedsChecksHolds`. `ColumnsInv` adds the mirror
and the reach edge (`MirrorIsAVersionHolds`, `ParentIsProjectHolds`); `AuditAccountedHolds` says
who owes each audit row. `GateInv` keeps what the field gate saw with the handler until its UPDATE, and
with `WriteInv` gives the action property `FieldFloorHolds`. `FieldFloorHolds` is the floor with the
exception of an omitted field in a PUT; the floor of the documents, `FloorKept`, does not hold.

**RegistryProofs.** `RegInv` relates what a load has read to what is committed: tables only grow, a
type is committed with its fields, and a load that is not stale holds the whole table. From it follow
`WholeTypesHolds`, `UniqueNamesHolds`, `RefsKnownHolds`, `AnsweredIsLiveHolds`.

**PlatformProofs** covers `Platform` with all of `Accounts`, for any browsers, people, actors,
connectors and any number of requests in flight. `TypeInv` adds to the types what a request's locals
are at each `pc`. Four invariants stand on it. `FlowInv`: a state cookie is of the browser that holds
it, and whoever is past the callback's checks has a login that passed them (`LoginOwnFlowHolds`).
`IdentityInv`: an identity points to a live actor, live sessions agree with the identities, and so does
a request about to mint if its actor still exists (`OnePersonOneActorHolds`, `NoOrphanActorHolds`).
`AdminInv`: as long as no claims overlap, a claim about to write has seen nobody
(`OneFirstAdminHolds`). `RowProgress` says once how any step may change a row: versions never fall, a
deleted row stays deleted, and at an unchanged version only `claim_admin` changes data; from it
`CopyInv` gives `ETagCurrentHolds`, and `DraftInv` (a draft whose version still matches differs from the
row only in the fields its request names) gives the action property `NamedFieldsOnlyHolds`.

**LimitProofs.** `TwiceTheLimit` is not inductive: nothing in it says where the current window began.
`KeyInv` splits the admitted hits of a key into those of its current window and the closed ones, bounds
the latter by the window's start plus the lag, and says that all but the last `MaxHits` of them are a
window old. `OnlyFreshBeyondCapHolds` is a property of one hit and its sweep.

**RbacProofs** is about the resolver's operators alone. The recursive functions are unfolded from the
existence of a solution on the naturals, and induction over the steps is done on sets of numbers with
the least element that `WFMin` gives, since an induction principle over predicates is out of the
prover's reach. `ReachIsRank`: for any memberships and any scope edges with a depth of at most
`MaxDepth` per entity, `reachable_entity_ids` is exactly what `HasRank` admits. `AddAcyclic`: an
acyclic nesting stays acyclic when the member added is no principal of the object, which is the guard
of `add_member`, and not the converse.

**MembersProofs.** `MembersInv` keeps with each handler what its guards saw, valid as long as nothing
overtook it: the rank it read, the member that is no principal, the owner who has company.
`TeamsAcyclicHolds` and the action property `LastOwnerGuardHolds` follow. `NoEscalationHolds` holds
whatever races: `RankInv` says that each membership, and each rank in a handler's locals, is covered by
some initial membership on the object or above it. `ListMatchesGateHolds` is `ReachIsRank` in every
reachable state, under `ShallowScopes`.

**RelationsProofs.** `RelationsImplementMembers` is a refinement with the identity mapping, so whatever
is proved of `Members` holds with relation requests beside it (`SharingUndisturbed`). `RelationsInv`
says that a request which nothing overtook would pass its gates again (`Informed`) and that each id names
one edge, in the table or in a request's locals (`Identified`); without the second part the DELETE by id
could take an edge other than the one that was gated. `EdgesSoundHolds`, `ListingExactHolds` (under
`ShallowScopes`) and the action property `LinkAuthorityHolds` follow.

The assumptions are the named `ASSUME`s, which TLC evaluates on the instances, and two hypotheses that
theorems carry themselves: `Serial`, above, and `ShallowScopes` (every scope chain is at most `MaxDepth`
long), without which the climb and the cascade really differ, as the hazard at `rbac.rs:39` records. The
initial tables are assumed to be what the database's constraints and the handlers' own guards keep:
`NestingAssumption` (no nested team contains itself), `InitialEdgesAssumption` (primary key, unique
constraint, no loops), `WorkloadsAssumption` (a signed-in actor is the dev user or has an identity).

Only model-checked: liveness (`CapClosesRun`), which the prover does not handle, and the six runs that
end in a counterexample. Every other property of a passing run is a theorem.

## 5. Assumptions and limits

- Each SQL statement is atomic and sees what is committed; Postgres is external and modelled only
  through how the code uses it.
- `If-Match` values are ETags the server has issued. A client that guesses a future version could
  straddle a write; `NoLostUpdate` does not claim anything about it.
- In `Objects` the caller's rank is constant: a revocation during a request is not modelled there.
- Audit rows are modelled for the object handlers. Those of the orchestrator, sharing, checks and
  registration are written last and read by no handler, and are left out.
- The event of a deletion carries the id of the entity just deleted, and `events.entity_id` references
  `entities`: the insert always fails and is only logged, so no deletion has an audit row, although
  `db.rs` says that `record_event` "writes the G3 audit row for every mutation". `RecordEvent` models the
  refused insert, and `AuditAccounted` speaks of live Cases only. One deletion by one caller shows it, so
  no run is spent on it.
- `Objects` models one Case, whose type has a mirror. Types without one take the same steps minus
  `UpsertMirror`.
- Scope edges in `Members` only disappear; creating and moving objects is left to `Objects`.
- The exceptions in `platform` are observations about the code, not conveniences: dropping any of them
  makes TLC find a counterexample. `contested` in `OneFirstAdmin`: the comment on `claim_admin` calls
  its UPDATE race-free, but under READ COMMITTED its `not exists` is evaluated on the statement's
  snapshot, and two claims write different rows. `late` in `NamedFieldsOnly` and the claimants in
  `ETagCurrent`: the claim does not bump the version, so a PATCH that straddles it takes it back, and a
  304 hides it. `lag` in `TwiceTheLimit`: a hit that
  waited for the mutex opens a window in the past.
- `start` and `callback` are not behind the limiter, although `lib.rs` speaks of a limit on `/auth`:
  `oauth::router()` is merged next to the limited routes.
- The callback's answer names `Set-Cookie` twice in one header array. Which of the two survives is
  axum's decision; `Answered` admits that the session cookie is lost. No property depends on it.
- Signed state cookies are the server's own, nonces, tokens and ids do not repeat, and the answer of a
  provider is genuine: HMAC, SHA-256, JWT verification and TLS are taken as what they are meant to be.
- `Abort` in `Accounts` also stands for the refusals in the middle of a handler (401, 409, 412, 422):
  all of them end the request and change nothing.
- Actors are made by logins in `Platform`. Any authenticated caller may also POST an actor, since `actor`
  is a root type whose creation needs no reach; that makes an actor without an identity, which
  `NoOrphanActor` is not about. Fields that no modelled step reads are left out of the rows.
- In `Platform` the ranks of actors on rows, other actors included, are a constant: `Rank[a][e]` is what
  `effective_rank` gives, and the field gate asks `owner` for `platform_role`. A copy that `Get` sends is
  kept whole, without the read filter, which depends on the rank and the field alone.
- `Relations` has one relation type, and leaves out the audit row and the re-read that follow an INSERT.
- Other read-only handlers (list, `HEAD`, `OPTIONS`, search, health) are not modelled: they keep
  nothing and nothing later depends on what they saw. The outbound client is I/O through libraries;
  errors, ids, request ids and configuration are formatting and wiring.

## 6. Plan

Done in this order: `FeatureRun` and `Orchestrator` with the refinement; `Objects`; `Rbac` and
`Members`; `Registry`; the three proof modules; `RateLimit`, `Accounts` and `Platform`; `Relations`;
`FieldFloor`, its proof and `FloorKept`; the proofs about the platform, the limiter, the resolver, sharing and
relations. What is left:

1. Conditional counterparts of the sentences that the six violating runs refute, in the manner of
   `SerialClosedIsFinal`: what restores `OwnerKept`, `MirrorCurrent`, `CloseGate` and `LiveEverywhere`
   when handlers do not overlap, and `FloorKept` when only PATCH is used.
2. A second look at proofs that repeat themselves: the per-step lemmas of `PlatformProofs` share most of
   their frame conditions.
