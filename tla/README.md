# A TLA+ model of ocidex

ocidex finds container images in registries and clusters, scans each one into an
SBOM, enriches the SBOM, matches it against a vulnerability database and serves the
result to the members of namespaces. This directory models the program in seven
state machines, one per kind of thing that goes on at once, and the reads as pure
operators that are evaluated on the databases those machines reach.

## 1. Inventory

| Part | State | Operations | Interacts with |
|---|---|---|---|
| scan job table and service (`db/queries/scan_jobs.sql`, `internal/service/job.go`) | one row per source and digest: state, attempts, worker, last attempt | upsert, claim by id, claim next, finish, fail or requeue, two sweep statements, retry, cancel, prune, refuse, drop | everybody below |
| worker (`internal/jobqueue/worker.go`) | hints channel, goroutines, contexts | hint, claim, run, fail, sweep, start, stop | table, NATS, processor |
| submitter, webhook, catalog walk (`internal/scanner`, `internal/api`) | digests known when the walk began | submit, walk, forced walk | table, NATS, registries |
| dispatcher and SBOM ingest (`internal/scanner/engine`, `internal/service/sbom.go`) | SBOMs, unique by digest; artifacts and their namespaces | scan, duplicate check, insert, link, publish, delete | table, event bus |
| event bus, enrichment submitter | handlers | synchronous publish, enqueue root enrichers | enrichment queue |
| enrichment queue and workers (`internal/worker/enrichment`, `internal/enrichment`) | one job per SBOM and enricher, results, sufficiency | claim, enrich, finish, enqueue dependents, recheck | SBOMs, NATS |
| provenance drift, re-verification | last result, held-back observation, caches | discover, verify, compare, hold back, confirm, recheck | enrichment results, registries |
| vulnerability matching (`internal/vuln`), leader election | advisory and mapping rows, stamps, advisory lock | open a build, match a page, write, stamp, clean up, lead | SBOMs |
| rollup refresher | watermark, last pass, six snapshot tables | poll, lock, build, swap, skip | SBOMs, reads |
| retention | policy, protected set | list, delete in batches | SBOMs, clusters, enrichment jobs |
| clusters: agent, inventory, image ingest | pods, workload rows, scan jobs of unknown images | list, push, prune, resolve, submit, refuse, drop failed jobs | scan queue, SBOMs, registries |
| search, diff, changelog, statistics, discovery, watches | none of their own | reads, scoped to the viewer's namespaces | everything above |
| namespaces, members, sources, registries, clusters | rows, capabilities of roles | create, update, move, delete, grant, remove | every request |
| accounts, sessions, API keys, sign-in | identities, roles, tokens, ceilings | sign in, link, unlink, mint, revoke, promote | every request |
| statistics cache, poller and walk delivery, backfills, tag window, NATS relay, secrets, operator, clients | see section 8 and `PROJECT.json` | | |

What is hard, and what makes each part correct:

* **Leases without fencing.** A running row is a lease, but finish and fail name only
  the row's id. Correct: one executor per row; a late worker never disturbs the next.
* **Retry budget.** Claims count attempts, three other statements compare them.
  Correct: never more than `MaxAttempts` claims for one submission.
* **Crashes and lost clean-up.** Correct: every submitted job reaches a terminal state.
* **Resubmission and deletes.** Correct: failed and tombstoned rows come back only when
  somebody asked for it; a tombstone is true, and a success has an SBOM.
* **Second executions of an enricher.** Job timeout and stuck threshold are equal there.
  Correct: a dependent is enqueued for every success, and only for successes.
* **Bad lookups.** Registries fail half way. Correct: a removed signature is reported,
  one bad answer is not.
* **Builds and stamps.** A pass is many statements. Correct: a stamp is true wherever
  the pass broke off, and old rows go only when nothing is stamped with their build.
* **Rollups built from several snapshots** by whichever replica holds the lock.
  Correct: they catch up with the last write.
* **Retention over running images.** Correct: nothing protected is deleted, whatever
  changed between listing and deleting.
* **Pushes out of order.** Correct: an inventory becomes what the agent sees, and every
  image it runs ends with an SBOM or a reason.
* **Scoping.** About seventy queries, each with its own joins. Correct: a viewer's answer
  depends on nothing hidden; pages that show one fact agree, whatever a query cuts and
  whatever a map yields first.
* **Authorization spread over middleware, handlers and a table.** Correct: they agree,
  also for requests that race a change of role, key, membership or namespace.

`PROJECT.json` lists the hazards with their lines and the properties that cover them.

## 2. Modules

| Module | Content |
|---|---|
| `ScanJobs` | the scan job table: one operator per writing statement of `scan_jobs.sql` |
| `ScanQueue` | submissions, walks, workers, sweeps, process lifecycle, time, operators; the properties |
| `JobLifecycle` | abstract specification: the legal moves of one job |
| `ScanQueueProofs` | the theorems about `ScanQueue` |
| `MCScanQueue`, `MCScanHistory` | instances; history variables for two promises made to operators |
| `EnrichJobs` | the enrichment job and result tables, the graph of enrichers |
| `EnrichmentQueue`, `MCEnrichment` | from a stored SBOM to its enrichments; instances |
| `Provenance` | what the provenance enricher makes of the layers it finds |
| `ProvenanceDrift`, `MCProvenanceDrift` | one SBOM rechecked over time; instances |
| `VulnStore` | how findings fold into rows and rows of several SBOMs merge |
| `VulnRefresher`, `MCVulnRefresher` | the vuln-worker: leader, builds, pages, stamps, clean-up; instance |
| `CatalogueReads`, `SearchReads`, `ClusterReads` | one operator per reading query, and the six rollup aggregates |
| `SearchService`, `SearchDiff`, `ClusterService` | the service methods over those queries; diffs and changelogs; images that run without an SBOM |
| `SearchAPI` | the read handlers: who is asking, what is refused, who answers |
| `InventoryAgent` | what the Kubernetes agent makes of the pods it lists |
| `Catalogue` | ingests, deletes, moves, visibility, the rollup refresher, the retention sweeper |
| `Clusters` | `Catalogue` beside clusters that push inventories and have images scanned |
| `CatalogueProperties`, `MCCatalogue` | what both promise; instance |
| `Authz` | roles, capabilities, ceilings, the checks built on them |
| `Routes` | the guards the router wires, and the contract `authclass.go` declares |
| `Access` | accounts, credentials, namespaces and members under concurrent requests |
| `Tenants`, `MCAccess` | sources, registries and clusters below namespaces; properties; instance |
| `TableWrites` | the insert that overwrites on conflict, of one row and of a statement's rows |
| `EnrichmentProofs`, `ProvenanceDriftProofs`, `VulnRefresherProofs`, `CatalogueProofs`, `ReadProofs`, `AgreementProofs`, `AccessProofs` | the theorems about the modules they extend |

`ScanQueue` extends `ScanJobs` and instantiates `JobLifecycle` with the state and
attempts columns as the refinement mapping. `EnrichmentQueue` and `ProvenanceDrift` share
`EnrichJobs`. `Clusters` composes the catalogue, the reads, the agent and the background
jobs; its scan is one step, which is `ScanQueue` in detail. `Tenants` extends `Access`,
`Access` extends `Routes` and `Authz`. Every proof module extends the module with the
properties it is about; `CatalogueProofs` extends `CatalogueProperties` and `ReadProofs`
extends that, `AgreementProofs` extends `ReadProofs`, and `AccessProofs` extends `Tenants`.

### Scan queue

* `jobs[<<source, digest>>]` is the row with that idempotency key (`ScanJobKey`), state
  `"absent"` if there is none. `age` counts ticks since `last_attempt_at`. `created` is
  the `created_at` order that `ClaimNextQueuedJob` follows.
* `hints[p]` is the channel of pod `p`. The publish may fail, the hint may go to a pod
  that dies, and a full channel drops it: in each case `PublishHint` leaves `hints`
  alone. A hint to a row that was deleted since is `NoJob`.
* `exec[w]` is a worker goroutine: idle, or at a step of `run` and the scan processor.
  `live` turns FALSE when the SBOM whose id it holds is deleted, `row` when its
  `scan_jobs` row is.
* `pod[p]` is `down`, `starting` (the startup sweep), `up` or `stopping`; `sweep[p]`
  marks the gap between the sweep's two statements.
* `walk[s]` is a catalog walk with the digests it skips. `sbom[d]` is the source a
  stored SBOM belongs to; the table's UNIQUE index makes this a function of the digest.
  `announced` holds the digests whose SBOM has its enrichment jobs.
* `erase` is a delete transaction between its two statements. Its tombstones become
  visible at commit, and until then an upsert or a finish of those rows waits
  (`Locked`). A finish that commits between the two statements is possible, as it is
  under READ COMMITTED.

Every database statement is one atomic step; everything between two statements
interleaves. A statement that fails before it commits is the error branch of its
action; `AnswerLost` adds commits whose caller sees an error. `ContextAlive` is the job
context: it ends at `JobTimeout` or when the pod stops. `FailOrRequeue` does not need
it, as the code passes a background context.

A scan, with everything `ProcessOne` does before ingest, is one step that succeeds, fails
or fails permanently. What is submitted is the constant `Catalog`. `RegistryWebhook`
stands for every unforced submission outside the modelled walk: push webhooks, cluster
ingest and a second walk of the same registry. One delete transaction at a time; all
digests of an instance belong to one artifact. `announced` is all or nothing here;
`EnrichmentQueue` also stops half way. There is one clock, where the code compares the
worker's with the database's. `Start`, `Finish`, `Fail` and `TimeoutJobs` of the job
service have no callers.

### Enrichment queue

A row per SBOM and enricher, and a result per SBOM and enricher. The submitter enqueues
root enrichers one at a time and stops at the first failure. A worker claims by hint (the
hint carries the SBOM's id, and claiming by id is not scoped to an enricher) or by poll,
reads the caller's and the stored fields, enriches, upserts the result, recomputes
`enrichment_sufficient`, finishes, and enqueues the dependents whose prerequisites all
succeeded. Each of these is a step; the job can be swept, repeated by another worker, or
its SBOM deleted, between any two. A `--once` run claims without hints. What an enricher
computes is abstracted to the fields sufficiency asks for. Every subject is a container,
so `Ingest` refuses an SBOM whose caller gave no version, architecture or build date
(`validateContainerRequired`).

### Provenance drift

`outside` is the registry and the owner's trust settings; `caches` the trust lookup and
the trusted root; `stored`, `pending` and `events` the result, the held-back observation
and the drift events. `Provenance` computes a signing status from the layers found, by
referrer or by tag, and the trust. A layer is its kind and signer, cryptography is
abstracted to whether the trust names that signer.

### Vulnerability matching

A replica tries the advisory lock, leads, opens the newest build, pages over the SBOMs
not stamped with it, and for each writes advisory rows, mappings and the stamp as
separate statements; a completed pass deletes what other builds wrote. `lock` may move
while the old leader runs on (`alone` turns FALSE). `VulnStore` is the pure part: severity
from labels and scores, aliases to a canonical id, the merge of a row two SBOMs judge
differently. What grype finds in a document is the constant `Findings`.

### Catalogue, clusters and reads

`db` is one record, the database; a document's content is the constant `Doc`. One operator
of `CatalogueReads`, `SearchReads` or `ClusterReads` is one query of
`internal/repository`; a list is the set of its rows. Methods of `SearchService`,
`SearchDiff` and `ClusterService` and handlers of `SearchAPI` keep their names. An answer
that may be "not found" is a set, empty for not found, and of several members where the code
does not fix the answer:

* the diff of two SBOMs, as neither the query nor Go's maps fix the order rows and keys
  come in;
* what uses and what an artifact contains, as the queries match by a purl's base, are cut
  at `relationLimit` rows (`Limited`: by the artifact's name, type and id; rows of one
  artifact have no order), and only then compared by the exact key. `componentKey` keeps
  the purl's base with the qualifiers in `identityQualifiers`; a qualifier is a record of
  name and value, a distro's value being the one left after its release is cut off;
* the changelog, as `selectArch` takes any architecture if none is asked for and none of
  the preferred five is there; `Changelogs` has one for each;
* the vulnerability of an id that is an alias of several.

Transactions run at READ COMMITTED and are split where another may commit in between: an
ingest reads its namespace before its transaction begins and runs its statements before
it commits; a retention batch is listed and then deleted; a refresh builds the tables one
by one and swaps them in; a push is sent, stamped and committed; the images of a gap are
resolved and then submitted one at a time. `Scenario` gives an initial database and the
kinds and numbers of writes and faults that may follow, so that one run asks each
question of a database small enough for it.

### Access and tenants

A request on connection `c` is authenticated, its grants are loaded, guards and handler
checks admit or refuse it, and its handler then reads and writes: each is a step, so what
a request read may be stale when it writes. `Routes` holds both sides of the contract,
the wiring of all 114 operations with their handlers' checks, and the declared rules;
`Access` executes the first. CSRF, rate limits and the validation of URLs and trust
settings are left out; an OAuth exchange is external, an identity arrives.

## 3. Runs

| Run | Instance | Shows |
|---|---|---|
| `lease` | one image, two pods with a goroutine each, hint channel of one; `MaxRun = StuckThreshold`; one fault, two requests | exclusive leases, true tombstones, guarded finish, terminal rows, backed successes, refinement of `JobLifecycle` |
| `live` | one image, two pods, `MaxRun > StuckThreshold`, answers lost; one fault; fair | the retry budget survives workers that lost their row, jobs settle, shutdown ends |
| `enrich` | one SBOM, two oci-metadata workers, one fault, one request; fair | the budget, dependents only after success and always after success, successes with results, jobs settle |
| `drift` | two images, two goroutines, key or keyless trust, one change, one fault; fair | a deleted image is missing, every downgrade leaves a trace, "unsigned" is confirmed first, a removal is reported, nothing stays held back |
| `vuln_refresh` | two replicas, two builds, two SBOMs that share a package, pages of one, one fault; fair | stamps are true, old builds go, every SBOM is matched |
| `catalogue` | fourteen scenarios, below; fair | keys, scoping, agreement of pages, links, retention, rollups, inventories, gaps |
| `access` | seven worlds, below | one owner stays, admission by the declared rule, planting by right, identities stay |
| `delete_race`, `forced_walk`, `sufficiency`, `false_alarm`, `moved_registry` | small versions of the above | counterexamples, section 6 |

**Bounds.** Ages stop one past the largest threshold, so time is unbounded. `MaxFaults`
bounds crashes, failing statements and lookups, `MaxOps` and `MaxChanges` what operators
and owners do; plain walks, retries and ticks are unbounded. Two attempts are the least
that tells a retry from an exhausted budget, two pods the least in which one can sweep the
other's row, two requests the least for a delete and a resubmission. Thresholds of one to
three ticks keep the order the deployed values have (9 min timeout, 15 min stuck, 24 h
stale). Two builds are the least in which a new one supersedes an old one, pages of one
SBOM put a step between any two.

*Scenarios of `catalogue`*: (1) three API writes, ingests, deletes, moves, members and
visibility, over a database with a public and a private namespace, a member, an upload
source and a walked registry; (2) two writes of every kind there; (3, 4) the sweeper over
uploads, beside deletes and reports, and over a walked registry, beside deletes, walks
and ingests; (5-7) the refreshers of two replicas without a fault, of two with one and of
one with any write and a fault; (8) a cluster that only reports; (9-11) one that ingests
a private image, with deletes and switches and a fault, and an index of two platforms,
with a delete or with a fault; (12) one whose registry changes while a user asks for
images; (13) one beside the sweeper; (14) three artifacts with six SBOMs, which hold one
another's package at several versions and for several architectures and lose them to two
deletes or switches of visibility. `RelationLimit` is 1 instead of 200, the least, so
that both relation queries are cut and uncut in turn. `budget.docs` names the documents
that may still arrive; reports and aggregates range over those and what is stored. The
documents hold a Go command and the image that ships it, packages with a source package,
a symbol-level match, two licenses, and packages with a version in their name, which are
the inputs on which the queries' joins and the diff's rules differ. The read properties
are evaluated on every quiet database.

*Worlds of `access`*: one request, every operation by eleven credentials on twelve
targets; three requests, two at a time, about members, about sign-ins and about
registries; two requests about sources, with sign-up closed, and with namespace creation
restricted. The connections are symmetric, and no property names one. A creation needs an
id that is left (`IdLeft`); a world has enough of them for its requests.

**Fairness.** Weak fairness of the clock, of each goroutine's poll and of each step of a
job it runs, of each pod's sweeps, of its restart and of the end of its shutdown; of the
submitter's next enqueue; of each drift worker; of a replica trying for the lock and of a
leader's next step, and strong fairness of its check for a new build, which an ingest or
a page can postpone but not for ever; of each running refresher (its clock, ticker and
pass); of the agent's ticker, each request's steps and the scanners. The Go scheduler,
the tickers, the job timeout and Kubernetes' restart of containers justify these. Hints,
walks, operators, other writes and faults have none: a job must settle with no hint ever
arriving.

**Deadlock** is checked in the scan queue runs. Elsewhere the bounded writes and faults
run out and nothing is left to do, which is the end the liveness properties describe.

## 4. What the properties say

* *Scan queue.* `SingleExecutor`, `FinishFromRunning`: leases are exclusive while
  goroutines are prompt. `AttemptBudget`: holds without that. `PrunedHasNoSBOM`,
  `SuccessHasSBOM`, `OnlyOperatorsRevive`: the columns tell the truth. `JobsSettle`,
  `ShutdownCompletes`. `ImplementsLifecycle`: the table is the abstract machine.
* *Enrichment.* `DependentHasPrerequisites` and `DependentsEnqueued` are the two halves of
  the dependency rule; the second leaves out a worker that dies or whose context ends
  between `FinishByID` and the enqueue, which loses the dependent (section 7).
* *Drift.* `DowngradeLeavesTrace` looks at single steps of the stored result,
  `RemovalReported` at what must follow a removal, `UnsignedConfirmed` at what must
  precede an "unsigned" event.
* *Vulnerabilities.* `StampedIsWritten` is asserted while one leader writes. With a second
  leader on an older build a crash between a mapping and its stamp can leave a stamped
  SBOM without its mapping until the next build.
* *Reads.* `ReadsScoped` compares every answer with the one from a database without what
  the viewer may not see. The artifact list's counts, an artifact's signing status,
  license summary and badge, watch counts, and the SBOM a workload's image matches range
  over everything by the code's design and are left out. `ReadsAgree` compares pages that
  show one fact by different queries, on refreshed rollups; diffs must add up for every
  order of rows and keys. Two of its parts state what the code promises and no more.
  *Contained and used*: whatever one page shows the other shows, unless that other one's
  query was cut (`UsagesCut`, `ContainsCut`). *Discovery*: the public count, which joins
  coarsely, is at least what the usage page lists and, unless that page was cut, exceeds it
  by exactly the artifacts that hold a package of the same purl base but another identity. Of a
  changelog without an architecture each page is a page of one architecture's log; only
  with one are the pages together the whole.
* *Catalogue.* `LinksFollowSBOMs` names its one exception, `lost` (section 7).
* *Access.* `AdmittedByRule` compares the executed checks with the declared contract for
  requests whose caller has not changed since authentication; the other three look at what
  stale requests may do.

Every property has a mutant: a small change of one definition, such as a dropped guard,
under which the property fails.

## 5. Proofs

Every theorem is about all values of the constants that satisfy the named assumptions
of the modules, which TLC evaluates on every instance. A theorem is `Spec => P` unless
the table says more; `P` is a property of a run where one is named like that. Each
argument is an inductive invariant, `IInv` or a part of it, which a run checked before it
was proved; then one lemma per statement or row operator, one frame lemma per group of
steps, and one case per action. `ReadProofs` and `AgreementProofs`
add to that what the queries answer.

| Module | Theorem | Property | What the invariant adds |
|---|---|---|---|
| `ScanQueueProofs` | `TypeCorrect` | `TypeOK` | nothing |
| | `RetryBudget` | `AttemptBudget` | `RowBudget` of one row, kept by every statement; a step changes a row only by statements (`NextJobStep`) |
| | `SuccessIsBacked` | `SuccessHasSBOM` | a goroutine at publish or finish with a live id has its SBOM stored |
| | `LeaseHeld` | `SingleExecutor`, if `Prompt` | a held row is no older than the time its goroutine has run |
| | `FinishIsGuarded`, `TerminalRowsStay`, `TombstonesAreTrue` | `FinishFromRunning`, `OnlyOperatorsRevive`, `PrunedHasNoSBOM`, if `Prompt` | the same |
| | `QueueImplementsLifecycle` | `ImplementsLifecycle`, if `Prompt` | the same, and `AttemptBudget` |
| `EnrichmentProofs` | `BudgetKept` | `EnrichBudget` | the budget of one row |
| | `PrerequisitesHold` | `DependentHasPrerequisites` | rows are of stored SBOMs, whose ids do not come back (`NeverBack`) |
| | `SuccessLeavesResult` | `SuccessHasResult` | a goroutine past its store left a result, if its SBOM still exists (`ResultLeft`), and runs its own partition |
| | `ChainComplete` | `DependentsEnqueued` | while a dependent is missing, a goroutine that will chain is on its prerequisite (`ChainHeld`) |
| `ProvenanceDriftProofs` | `OnlyDeletedIsMissing` | `MissingIsDeleted` | no row, event or goroutine's record calls a present image missing |
| | `UnsignedTwice` | `UnsignedConfirmed` | one run at a time; what was looked up is what was stored; a held-back observation is the last status stored before the run that judges it |
| | `DowngradeTraced` | `DowngradeLeavesTrace` | a fresh downgrade that no run is judging is held back |
| `VulnRefresherProofs` | `RecordedIsClean` | `OlderBuildsGone` | who leads holds the lock; nothing stored is newer than the leader's build; every SBOM an older build stamped is still ahead of the pass |
| | `StampIsTrue` | `StampedIsWritten` | what is written of the current document is in the store; merging rows of two SBOMs loses neither's severity, reference nor fix |
| `CatalogueProofs` | `TypeCorrect` | `TypeOK` | a time no SBOM is later than; one replica refreshes at a time |
| | `LinksComplete` | `LinksFollowSBOMs` | what an open ingest found, it has locked; the link it did not insert was there |
| | `NewestKept` | `SeriesKept` | the same as for `TypeOK`, for a newest SBOM to exist |
| `ReadProofs` | `NothingHiddenShown` | `ReadsScoped` | `IInv`: the foreign keys hold |
| `AgreementProofs` | `LinkedPagesAgree`, `StatisticsAgreed`, `DiscoveryAgreed`, `DiffsBalanced`, `ClusterPagesAgreed` | `PagesAgree`, `StatisticsAgree`, `DiscoveryAgrees`, `DiffsAddUp`, `ClusterPagesAgree`: parts of `ReadsAgree` | what is stored has its document, record and pods, is finite, and so is what an open ingest or a push brings (`Holding`) |
| `AccessProofs` | `OwnersStay` | `OwnerKept` | a write under way names no owner (`OwnersSafe`); ids are not reissued, so a grant for a deleted namespace meets no new one |
| | `NothingPlanted` | `PlantedByRight` | what admission showed of a request still holds of it (`Screened`); a registry on its way has an authorized target or one its request made (`Targets`) |
| | `IdentitiesStay` | `IdentityNeverMoves` | every identity, session and key is of an account that exists, and so is a sign-in under way |
| | `AdmissionAsDeclared` | `AdmittedByRule` | a request waiting for admission came by a route of the table (`Routable`); the rest is about the tables, by class of rule (`WiredAsDeclared`, `CapabilityGuards`, `ChecksAsDeclared`), and about what a guard asks (`CanAsDeclared`) |

`Prompt` says that a goroutine, its clean-up included, does not outlive the stuck
threshold, and that no committed statement is reported as an error. It is the condition
the comment at `scanTimeout` relies on, and nothing in the code checks it:
`SCANNER_STUCK_THRESHOLD` can be set below nine minutes. The age bound is why
`LeaseInv` is needed: `SingleExecutor` alone does not exclude that the next sweep takes
a row whose worker is alive. The drift theorems but the first are about `calm` histories,
in which statements succeed and runs do not overlap, as their properties are.

**What a viewer is shown.** `NothingHiddenShown` is about the answers section 4 says
`ReadsScoped` compares. The database without the rows of hidden namespaces is `Alike`, for
that viewer, to the one it was taken from: the same namespaces, sources, SBOMs, links,
rollup rows and owners are seen. Each query answers the same for databases that are alike
(one lemma per query), so does each service method, and so does each handler; a page
about something hidden is "not found" in both. What a service may answer in several
orders is the same set of answers.

**Pages that agree.** A rollup is refreshed when its tables hold the aggregates of the
base tables (`Fresh`), and `Refreshed(db)` is. Then a count and a list agree by one of
three arguments: both are the size of one set, reached over two joins (licenses, badges,
versions); a sum over groups is the size of what the groups partition, by the recursion
of the sum over subsets (`SumIs`, `PartitionSum`; totals per namespace, facets, coverage,
pods); or rows are paired. In a diff the pairs are a removed and an added package that
are one under a versioned name: they leave the difference of both sides alone, and no row
is in two of them (`Pairing`, `Balanced`), whichever pair is taken first. For relations
the joins are coarse: each finds every row the exact match keeps, and the discovery query
one more only if its purl has the artifact's base (`JoinsAgree`). So either page shows
only artifacts whose newest SBOM holds the package, and all of them if its rows are not
cut (`UsedBy`, `ContainedIn`), and the discovery count is over those and the ones of the
same base (`DiscoveryCounts`). On the cluster pages a workload is in exactly one match
state (`OneState`). These theorems say more than the run: they hold in every reachable
state, not only in quiet ones, and the one about clusters for whoever asks about whatever
cluster.

**Assumptions.** `EnrichmentQueueAssumption`, `ProvenanceDriftAssumption` and
`VulnRefresherAssumption` give the constants their types; the second half of
`VulnRefresherAssumption` says that a document's symbol sets are of those there are.
`ScenarioAssumption` says that a scenario starts from a database the schema admits, with
complete links, whose rows have the documents and records they refer to (`Stored`);
`WorldAssumption` that a world's tables refer to rows that exist, that roles are those
the `CHECK` of the users table admits, that no row's id is the unset one (`NoNs`), and that
requests come by a route there is and name accounts and identities of the instance.
What the reads need of the data is what `db/migrations` declare `NOT NULL`, primary or
foreign key: a document is of an artifact with a name and lists finitely many components
with a name and a type (`DocumentAssumption`, `ArtifactAssumption`), relation queries
return at least one row (`LimitAssumption`; the code's constant is 200), a feed's rows name
records (`FeedAssumption`), no account has the id of who is not signed in
(`UserAssumption`), and a cluster has an id and runs finitely many pods (`PodsAssumption`).

**What the proofs changed in the model.** In the catalogue, deleting a cluster takes the
key of its source row, so it waits for an open ingest of that source, and a scan that
succeeds waits for an open ingest of the same digest: both are locks the database takes,
both were missing, and `Ingests` was not inductive without them. A scan succeeds with a
document, which nothing said of a digest outside the instance. In access, a creation
needs an id that is left, where `FreshId` of none was unspecified. Choices whose
conditions overlapped are now tried in the code's order.

**Only model-checked.** All liveness properties: fairness is out of the prover's reach.
Of `ReadsAgree` two parts, which hold for an instance's documents and not for all of
them. `TreesAgree`: rows with one key and different versions are kept in any order, so an
SBOM with two versions of a package need not be unchanged from itself, and the tree falls
back to a name and group another package may share. `LogAgrees`: a limit of 0 is the page
of twenty, which is not the whole of a longer changelog, SBOMs of one `created_at` have
no order, and a page is of an arbitrary timeline where no architecture decides. The
refuted properties need a counterexample and no proof.

## 6. Where the code and its documents differ

1. `delete_race`: `DeleteSBOM` promises that a deleted digest is not scanned again. The
   tombstone is written only on a succeeded row, so an SBOM deleted before its job has
   finished is stored again by the job's retry.
2. `forced_walk`: a forced walk is documented to bring enrichment back for stored
   images. Ingest returns the stored SBOM before it publishes `SBOMIngested`, so no
   enrichment job is created. Since an event lost to a crash is not repeated either,
   such an SBOM stays without enrichment.
3. `sufficiency`: the documents say an SBOM is marked once version and architecture are
   present. Each enricher judges by its own data alone and the last one wins: a container
   SBOM whose caller declared version, architecture and build date is marked by its user
   result and loses the mark when oci-metadata finds no version label in the image. The
   other direction, a user result without an architecture after a complete image result,
   needs `?subjectType=container` over a BOM whose own component is no container, since a
   container's is mandatory; it is not in the model.
4. `false_alarm`: drift events are said to rest on positive evidence or on two looks. A
   failed trust lookup reads as "no trust configured", and a verified image drifts to
   signed at once.
5. `moved_registry`: a registry's name and visibility are said to reach the namespace only
   if it hangs from it. The update tests the shared id, which stays after a move.

## 7. Observations

Behaviours met while modelling that the model has and no run refutes.

* A link is lost when a registry move empties a namespace of an artifact while an ingest
  into that namespace, through another source, has found the link. An ingest whose source
  moves between the lookup of its namespace and its commit lands in the old one.
* The six rollups are built from six READ COMMITTED snapshots and may disagree until the
  next pass, where a comment calls them always consistent.
* The sweeper's delete tests the protected set again, but not the rank that made a
  version a candidate of the keep-last policy.
* Deleting a namespace leaves artifact rows without a link, which everybody may see.
* A member of a private namespace has a statistics scope that is never warmed.
* `UpdateRegistry` commits the edit before the move to another namespace is authorized;
  regenerating a webhook secret and updating a namespace write back fields read earlier.
* Two unlinks of different identities of one account can both pass the count.
* A namespace without an owner can be adopted while a request on the adopter's
  membership is under way; `OwnerKept` leaves such namespaces out.
* Overlapping pushes that commit out of order leave the union of both snapshots until
  the next push.
* `index_digest` is written by the insert alone: an index whose platforms were stored
  before stays in the gap and is submitted with every snapshot, as are digests that are no
  image. `GapSettles` leaves them out.
* The count of a cluster's vulnerabilities filters severity per record, its list by the
  worst record.
* A tombstone's key holds the attribution, so after a registry's patterns change a deleted
  SBOM's image may be scanned again under the cluster.
* `reconcileVersionedPackages` takes the first removed package of a base in map order, so
  two requests for one diff may differ, and its survivor guard counts the new side only;
  `docs/adr/0019-diff-identity-model.md` says otherwise of both. `ReadsAgree` holds for
  every outcome.
* The relation queries take 200 rows by purl base before the exact match, so with enough
  builds of one package either page may be shortened without a sign, and what contains an
  artifact and where it is used may then disagree.
* The discovery page's usage count skips the exact match, as its query says, and so may
  exceed the usage page it leads to, never the reverse.
* The changelog of an artifact all of whose architectures are outside the preferred five is
  of an arbitrary one, chosen anew per request: a reader who turns a page may be shown
  another timeline.
* The submitter's stop after a failed enqueue, and the enqueue of dependents after the
  finish, lose enrichment jobs for good.

## 8. Not modelled

* *Poller and walk delivery.* When a walk happens is up to time and JetStream. Both models
  let a walk of a source happen or not at any time, which includes every delay, loss and
  repetition, so a model of delivery would add no behaviour to them.
* *Registry scope and tag window.* A pure selection over a registry's tags; its result is a
  constant of `ScanQueue` and an input of `Catalogue`.
* *Statistics cache.* Which scopes are warmed is modelled, the map with its expiry is not: an
  entry is stale by up to its time to live, which no property asks about.
* *Backfills, extension manager, NATS relay.* One-off loops over rows, and start and stop
  ordering around best-effort messages.
* *Credentials' encryption, egress policy, audit, health, metrics, tracing.* Pure checks and
  I/O. A failing decryption and a denied egress are outcomes of the models' steps.
* *Operator reconcilers, frontend, CLI, MCP server, SDK.* Clients of the API. The
  inventory agent is modelled.
* *Inside the reads*: sort orders, cursors, text filters, the chip counts of the diff tree,
  license text; the numbers a page repeats from its rows. Of the caps on rows only the one
  on relations is modelled: 10000 candidates of a changelog, 10000 versions of an artifact,
  100 affected components of a vulnerability and the discovery page's short lists are not.

## 9. Plan

The system is modelled as planned, and every safety property of a passing run is proved
but two parts of `ReadsAgree`. What is left:

1. `TreesAgree` and `LogAgrees` under conditions on the documents and on the length of a
   changelog, which would have to be justified from what scanners produce.
2. The parts of section 8 whose order matters, delivery of walks first, if they come to
   hold state of their own.
