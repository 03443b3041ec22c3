# Highrable on Stellar: a formal model

Highrable is a marketplace for freelance work. A client's money waits in a
Soroban escrow contract until the client approves the work, an admin settles a
dispute, or the escrow is cancelled. A Convex database mirrors the contract and
holds everything the contract does not know (jobs, agreements, submissions,
disputes, messages); a Next.js application drives both from the browser and
from its own HTTP routes.

This directory models that system in TLA+. TLC checks the models on small
instances; TLAPS proves the same properties, but for two of liveness, for every
instance (section 4).
Source paths below are relative to the repository.

## 1. Inventory

### Contracts (`contracts/`)

| Part | State | Operations | What makes it correct |
|---|---|---|---|
| Escrow (`escrow/src/lib.rs`) | next id, the escrows, allow-list with a counter, platform admin, dispute admins | initialize, three ways to create, fund, assign, submit, approve and release, cancel, mark disputed, resolve, allow-list, dispute admins | holds what its open escrows are worth; each escrow is paid once, for one reason, to its parties; nobody judges their own case; money can always leave |
| Reputation (`reputation/src/lib.rs`) | the authorized contract, a record per escrow, totals per freelancer | initialize, record_completion | totals are the sums of the records; records are permanent; only the escrow contract writes |
| Registry (`registry/src/lib.rs`) | a registration per wallet | register | the first registration stays |

A contract call is atomic: an error anywhere, in a called contract too, reverts
everything. Interleaving happens between calls only.

### Backend (`packages/backend/convex/`)

A mutation is one serializable transaction. An action (`sync.ts`) is not: it
reads the chain, waits, and calls a mutation.

| Part | State | Hard behaviour |
|---|---|---|
| Escrow mirror (`escrows/`, `sync.ts`, `syncMutations.ts`) | one row per escrow, job status, reviews | written by the browser after a transaction and by the sync action with what it read earlier |
| Disputes (`disputes/`) | the case, its marking on chain | late and repeated marking callbacks of several pages; a party's status change without a guard |
| Admin (`admin/`) | assignment, settlement attempts, memberships and their operations | several admins, closed tabs, transactions of unknown fate |
| Cancellations (`cancellations/`) | the request, the answer to it and its on-chain step | answer, withdrawal, expiry, dispute and failure reports race |
| Milestones (`milestones/`) | milestones, offers to stay, an escrow each | one opens when the one before is paid, by rows that are recorded late |
| Work agreements (`work_agreements/`) | agreements, versions, acceptances, the lock | one party accepts what the other is revising or giving to someone else |
| Submissions and revisions (`work_submissions/`, `revisions/`) | submissions and their anchor, revision quota | anchoring by several pages, unknown outcomes, quota changes |
| Deadlines (`deadlines/`, `crons.ts`) | reminders | a scan every fifteen minutes |
| Jobs, applications, attachments, conversations, users, waitlist, reports | rows | no protocol between actors beyond the above |

### Web (`apps/web/`)

| Part | Hard behaviour |
|---|---|
| Settlement hook and route (`features/admin/hooks/use-admin-settlement.ts`, `app/api/admin/disputes/[disputeId]/resolve/route.ts`) | a wallet, a database and a ledger, with an await between any two steps |
| Membership page and routes (`features/admin/admin-admins-page.tsx`, `app/api/admin/admins/`) | the same for appointing and dismissing admins |
| Ledger verification (`core/admin/chain-verification.ts`) | expiry, a limited history, transactions made with another tool |
| Escrow, milestone, cancellation, marking and submission pages (`features/`) | the browser calls the ledger and writes the database afterwards; any page may be closed between the two |
| Gas relay (`app/api/stellar/gas/`), wallet authentication (`core/wallet/server/`), passkey accounts (`core/stellar/`) | retries by operation id; used nonces |

The hazards this code is exposed to are listed, each at its line, in
`PROJECT.json`; they are what the properties were chosen for.

### How the parts interact

The ledger never calls the database. A page signs, submits, polls, and then
tells the database what it saw; a mutation believes it, and at most checks the
rows. So every status exists twice or three times (contract, escrows row, job
or milestone), the copies are written by different actors at different times,
and each module below is about one such pair of a truth and its copies.

## 2. Modules

| Module | Role | Proofs |
|---|---|---|
| `Sums` | the sum of a function on `1..n`, as a recursive function | in `EscrowContractProofs` |
| `Reputation` | the reputation contract and what it promises by itself (`RepSpec`) | in `EscrowContractProofs` |
| `EscrowContract` | the escrow contract, the tokens it moves, and the reputation contract it calls; extends `Reputation` | `EscrowContractProofs` |
| `Custody` | abstract: what the escrow contract promises about each escrow; implemented by `EscrowContract` and by the ledger of the six other modules that have one | in the proof modules of those seven |
| `EscrowMirror` | one job, its escrow and the rows that mirror it: browser tabs, bookkeeping mutations, syncs | `EscrowMirrorProofs` |
| `AgreedTerms` | abstract: what an agreement promises the two parties | |
| `WorkAgreements` | hiring: agreements, selection, and the escrow created or assigned under them; implements `AgreedTerms` | `WorkAgreementsProofs` |
| `Delivery` | submissions, previews, revisions and the anchoring of the proof | `DeliveryProofs` |
| `Milestones` | a project of milestones in order, an escrow each | `MilestonesProofs` |
| `Cancellations` | a cancellation request from filing to its transaction | in `EscrowContractProofs` |
| `DisputeMarking` | opening a dispute and marking the escrow on the ledger | `DisputeMarkingProofs` |
| `Settlement` | the settlement of one dispute by the platform's admins: browser, route, database and ledger | `SettlementProofs` |
| `AdminMembership` | appointing and dismissing one dispute admin | `AdminMembershipProofs` |
| `MC...` | the instances for TLC | |

The modules cut the system along its protocols. What one module has in detail
another has as a single step: the settlement is one call and one mutation in
`EscrowMirror`, the removal of an admin one step in `Settlement`, the whole
life of the escrow after funding one status in `WorkAgreements`. Each header
says what it reduces.

The contract above all is seen by every module in a form of its own: a few
statuses, one escrow or several, with its parties or without. `Custody` is what
these forms have in common, over two variables, the stage of each escrow and
its freelancer. Each module maps its own ledger to them (`Keeping`, an
`INSTANCE Custody WITH ...`) and states that it implements `Custody`
(`KeepsCustody`). So a guard of the contract that such a view had dropped, one
that lets money out twice or a freelancer be replaced, would show. `Settlement`,
`DisputeMarking` and `Delivery` begin with an escrow that holds money already;
theirs is `Custody!Kept`, without the initial state. `Cancellations` sees only a
status and is compared with the contract directly (section 4).

Definitions named `...Again`, `...Anyway`, `...Any` and the like, marked "A
mutant" in their comment, are plausible bugs. No specification uses them: each
shows, put in place of the definition that follows it, that a property would
notice. `PROJECT.json` lists which.

### Reputation and EscrowContract

Every variable is a storage entry of the contract (`DataKey`), a balance kept
by a token contract, or the log of `DisputeResolvedEvent`. Every action is an
entry point; its guards are the checks of the code in the order-independent
form that a reverting call allows, so an error path is the negation of a
guard. `require_auth` is modelled by who the caller is: any wallet may call
anything with its own signature. `approve_and_release` contains the call of
`record_completion`: the escrow's step is also a step of `Reputation`. The
reputation contract's `initialize` needs no signature, so it may have been
initialized with any address. If that is a wallet, this wallet calls
`record_completion` itself (`RecordDirectly`), with what it likes (`Claims`),
for an escrow that was never released or does not exist.

A freelancer is any address but the client's, which is all that the code
refuses (`escrow/src/lib.rs:134` and `346`). It may be the contract's own: such
an escrow can be funded, cancelled and, as the client needs no one for it,
disputed; a resolution then pays the freelancer's share from the contract to
the contract, where it stays.

Left out: time-to-live extension; the content of hashes and timestamps, which
the contract stores and never reads; events other than the resolution, whose
amounts the properties need. `MaxEscrows` stands for the `u64` id, `CounterMax` and `EarnedMax` for
the widths of the totals.

### EscrowMirror

One micro-gig job. The variables are the contract's escrows (`chain`), calls
nobody waits for any more (`late`), the database rows (`rows`, `job`,
`freelancer`, `work`, `agreement`, `dispute`, `reputation`) and the browser tabs
(`tab`).

* A tab runs one action at a time (`runEscrowAction`): a press checks the rows
  as the guards of the buttons do (`ButtonShows`, `MayPress`), the call is sent,
  and after its confirmation one mutation after the other records it. A page
  can be closed at each of these steps; a call of unknown outcome stays in
  `late` and is taken in by the ledger, or expires.
* The mutations are steps of their own, with the checks the server makes:
  `updateEscrowStatus` writes any status over any other; it refuses funding
  without an accepted agreement and release during a dispute (`Blocked`).
* An escrow is created for the selected freelancer, or posted: created and
  funded with the job, before anybody is selected, and assigned afterwards
  (`RecordPosting`, `PressAssign`, `RecordAssignment`).
* Some handlers write the job without looking at its escrow: the selection and
  its abandonment, the proof and its preview (`HandIn`, `AcceptPreview`), the
  revisions (`RequestRevision`, `SubmitRevision`), the late assignment, and a
  cancellation without the ledger (`CancelOffLedger`). They are all here, with
  the guards they have. `JobStandsApart` lists where they leave the job in
  another status than its escrow, and `JobFollowsEscrow` says that nothing else
  does. `work` sums up the submissions of the job, of which there can be
  several: whether there is one that counts as proof, and one that is ready for
  the ledger; whether the job has previews is left open.
* `syncEscrowStatus` reads the ledger and applies what it read in a later step;
  so does `syncReputationRecord`. In between, anything can happen.
* The contract is seen from outside: a call is accepted in the statuses that
  the code of `EscrowContract` names, and leaves the next. `past` is the history
  of an escrow, kept by the model alone, for `MirrorNeverAhead`.

The live paths are those of the pages: the escrow panel creates, funds and
releases; the proof panel submits (`anchorSubmission`); the cancellation hook
cancels; the dispute dialog marks. The hook's own `submitWork`, `cancelEscrow`
and `markDisputed` are called by no page.

What the code does and the model therefore does: a client who selects a
freelancer while a posting is in flight gets a funded escrow that nobody is
assigned to and that no button assigns, since the job has its freelancer and
the escrow has none; it can only be cancelled.

Left out: milestones (`Milestones`); the approval that precedes a cancellation
on the ledger (`Cancellations`) and the single submissions and revision requests
(`Delivery`); the history rows of transactions, which no guard reads; a manual
retry of a recording, which repeats a step the model has.

### WorkAgreements and AgreedTerms

`WorkAgreements` has the job with the freelancer it selected, the agreements
and their version rows, and the escrow on the ledger and in its row, as far as
they depend on each other. Two paths lead to a commitment: the freelancer is
selected and the escrow created for him, or an open escrow is funded first and
the freelancer assigned to it. Contract calls and their recordings are steps of
their own; a recording may meet an agreement that was revised, abandoned or
accepted meanwhile. A text is a model value, the snapshot is the pair of text
and freelancer that is hashed.

`AgreedTerms` is what the parties are promised, over one variable, the deal
made under each agreement. `KeepsTheDeal` states that `WorkAgreements`
implements it, with the deal read off the accepted and locked rows.

Agreements of single milestones, which the same handlers keep beside a
milestone, and the wording of documents are left out.

### Delivery

The freelancer's pages draft, hand in, revise and anchor submissions; the
client asks for revisions and accepts previews; the contract takes one proof.
A page goes through the steps of `anchorSubmission`, each of which it may not
survive, and the transaction lands or is dropped whether or not it is watched.
Mutations without a caller in the pages (`setRevisionPolicy`,
`markRevisionSubmitted`, `markRevisionAccepted`, `cancelRevisionRequest`,
`cancelSubmissionDraft`) are public and modelled as callable. `accepted` is the
row's `acceptedAt`, which stays when a later step changes the status.

What the code does and the model therefore does: a submission whose anchoring
was confirmed but not recorded is called `anchor_failed` though the contract
holds it; an outcome still pending leaves "anchoring" for good; a draft made
while the escrow was funded can be submitted after it was closed, and sets the
job back to "submitted".

### Milestones

A project of milestones; the escrow, its row and the dispute of each; pages
that call and record. The status of a milestone is written by recordings,
syncs, settlements, cancellations and previews, and the project's status is
derived from the milestones in some of these handlers and not in others
(`PutAndDerive` where it is). Assignment of several at once is refused by the
code for two or more, since the second's predecessor cannot be paid. The
freelancer's answer to an offer does not look at the predecessor again, which
`WorkInOrder` shows to be harmless.

Amounts, deadlines, applications, edits of open milestones, agreements and
revisions are left out. Nobody calls the hook's own submit, cancel and mark;
those calls come from the proof panel, the cancellation hook and the dialog.

### Cancellations

One request, filed under the job or under its escrow, with the eligibility the
server computes from the work at that moment. Executing it is a run of the
client's page: `markCancelOnChainStarted`, the call, the recording. `lost` are
transactions nobody watches. `withdraw`, `expire` and `markApproved` have no
caller in the pages and are modelled as callable by either party.

What the code does: a page that closes after the start leaves the request
pending for good; an approval given before a freelancer was engaged stays
valid afterwards. Requests for milestones, evidence and notifications are left
out; so is the jobs row, which `EscrowMirror` has.

### DisputeMarking

Two disputes that may be opened of one escrow, one after the other, and pages
that mark the escrow for them: the dialog at once, the dispute's panel and an
admin's page after a failure. The escrow and its row are reduced to held,
disputed and closed. `shared` is kept by the model alone: disputes with a run
that was not one party's alone. No liveness is stated, since nothing
reconciles a marking whose page is gone: "marking" stays. The admin page's
catch block reports a failure with the hash of a transaction still pending, or
without one after a confirmed mark; a wrong hash can keep the right success
from being recorded.

### Settlement

One disputed escrow. The variables are the database rows (`dispute`,
`mirror`, `attempts`, `members`), the contract (`chain`, `chainAdmins`), the
ledger (`tx`, `forgotten`, `terms`), the browser tabs (`tab`), the recordings of
the parties still to come (`unrecorded`) and the requests being served (`jobs`).

* A press of *Resolve* makes an operation id, and the tab goes through
  starting, signing, recording, submitting. It can be closed at each of these,
  and the answer it waits for can be lost.
* A request of the route is a process of its own. It stops at every `await`,
  so any other step can come between; it may also never continue. The steps
  are those of `POST` for each `phase` of the body.
* A mutation is one step, split in the model into when it accepts
  (`...Accepted`) and what it writes (`Record...`).
* A signed transaction may be applied, fail because the escrow is no longer
  disputed or the admin was dismissed, or expire. The RPC server forgets old
  transactions, and after the expiry `NOT_FOUND` means the same to
  `verifyAdminChainOperation` whether the transaction expired or was
  forgotten.
* An admin can resolve the escrow with another tool; `reconcile_external`
  searches the ledger for that and records it.
* The escrow's row is not the settlement's alone. A tab of a party that funded,
  submitted or marked the escrow before the case may record it only now
  (`RecordLate`, over the statuses of `Unrecorded`): `updateEscrowStatus` writes
  over "disputed" too. From such a status a sync takes the row on, also to a
  final one (`Sync`). No mutation of the case looks back at what was lost so:
  a settlement is recorded only over "disputed".
* Cases are claimed, assigned, reassigned; admins are dismissed, in the
  database first and in the contract later; a party may cancel the case or
  open it again (`changeDisputeStatus` and `cancelDispute` are public
  mutations without a guard on the old status; no page calls them today).

Abstractions: the transaction of an operation is named like the operation,
since hashes do not collide; the four review statuses, which settlement treats
alike, are one, `active`; a wallet that is a party is refused by every handler
first, so admins are other wallets; the `submitted` status is never written by
the code and is absent; a tab keeps its wallet, since every continuation under
another one stops (`isCurrent`), which is `Abandon`. `members` only shrinks:
the appointment is in `AdminMembership`. `MaxRequests` bounds the requests of
one admin in flight.

### AdminMembership

One wallet that the owner appoints and dismisses. A page starts an operation,
has the wallet sign, records the signed transaction and only then submits it;
the recover route is a process that verifies the transaction, reads the
membership from the contract and completes the operation. Pages work on what
their list showed, which may be stale; requests nobody waits for arrive late;
transactions expire or are forgotten; the owner may change the contract with
another tool, once (`outside`). `submission_unknown` is in the table and never
written.

What the code does: an operation whose effect was undone with another tool
before it was completed is answered 409 for ever, and the wallet stays locked
for further operations (the `outside` of `SubmittedIsSettled`); a grant whose
transaction the RPC server forgot is marked failed though the contract knows
the admin (`Unreported`); a revocation declined at the wallet leaves the
access "revoking", which is the safe side.

## 3. Runs

| Run | Instance | Shows |
|---|---|---|
| `escrow` | 3 wallets and the contract's own address, 2 tokens, 2 escrows, amounts 20003 and 0, shares 0, 5000, 10000 and 10001, ratings 0, 4 and 5, limits 9 and 40006, made-up completions | every token is accounted for in the contract and in each wallet, one reason per release, fair and complete resolution, exact allow-list count, an exit for held money, the lifecycle, totals that agree with permanent records |
| `escrow_mirror` | two tabs of the client, one of the freelancer, one of an admin, two escrow ids, one late call | the rows are never ahead of the ledger, the job stands apart from its escrow only where a handler writes it alone, one escrow per job, one earned review, what a sync may do and repairs |
| `agreements` | two agreements, two texts, two freelancers, two versions | one active agreement, with the selected freelancer, all copies agree, `AgreedTerms` is implemented, proof under the own agreement |
| `delivery` | two pages, two submissions, two revision requests, limit 1 | only accepted work is anchored, what shows as anchored is on the ledger, one page at a time, the revision quota |
| `milestones` | two milestones, two escrows, two pages, two freelancers | order of work, offers kept, money only in the recorded escrow, a finished project holds none |
| `milestone_stuck` | one milestone, one page | violated: section 5 |
| `cancellations` | two pages, one request | nothing goes to the ledger over a refusal; a confirmed request is a cancelled escrow |
| `marking` | one party page, one admin page, two disputes, two transactions | a mark is proven and final, a retry by one party alone is safe |
| `marking_race` | two party pages, one dispute, two transactions | violated: section 5 |
| `settlement_roles` | owner and one admin, one operation, one request each, a late "submitted", with fairness | one attempt at a time, in the right hands; attempts are history; a settlement on the ledger is recorded in the end |
| `settlement_retries` | owner alone, two operations, two requests, a late "submitted" and a late "disputed" | records follow the chain, nothing unrecorded is submitted, failed attempts are dead, when late answers of one attempt meet the next |
| `membership` | one page, two recoveries at once, two operations, two transactions, one late request, with fairness | access follows the contract, a recorded operation is settled in the end |

### Why the bounds are enough

Two escrows in one token are the least in which one could be paid from the
other's money; a second token shows that balances are kept apart. The amount
20003 leaves a remainder both when divided by 10000 and when split in half, and
a wallet can fund one escrow but not two, so that a transfer also fails. Three
wallets give two parties and someone who is neither. Both ratings 4 and 5 are
valid, and two completions of one freelancer fit into the limits of the totals
with 4 and 5 but not with 5 and 5, so `record_completion` both adds up and
refuses, and takes the release down with it.

The races are between an actor and one other, mostly two pages of one party:
two pages, two submissions, two disputes, two operations, two milestones are
the least in which something late of one meets the other. In the settlement, two
operations and two requests are needed for a late answer of one attempt to meet
another; two wallets, owner and admin, cover the two branches of
`assertSettlementAttemptAccess`. The product of both is out of TLC's reach.

Six runs cut the product further with state constraints, each about trouble
that meets other trouble. The constraints are in the `MC` modules.

* `escrow` (`OneThingAtATime`): one dispute admin besides the platform admin,
  appointed where there is no allow-list; where the reputation contract obeys a
  wallet, one made-up completion, with one escrow beside it.
* `settlement_roles` and `settlement_retries` (`OneThingAtATime`): a recording
  of a party comes late in cases with one press of *Resolve*, where nobody is
  dismissed and no transaction forgotten. A late "funded" is left out, since it
  does what a late "submitted" does: the row is neither "disputed" nor final.
* `escrow_mirror` (`OneTrouble`): a second client tab, or a second escrow, only
  until there is work, and neither beside an admin nor beside a late
  transaction; no admin and no revision beside a late transaction; a posted
  escrow without late transactions once it is recorded, without a second tab
  once it is assigned, and without revisions.
* `delivery`: both pages are at work only while the escrow is neither closed
  nor in a dispute. `milestones`: only while the last milestone is not
  disputed, and only the first may have previews (`FirstPreviews`).
  `membership`: nothing late and only one request after a change with another
  tool (all `OneTrouble`).

The constraint of `membership` takes nothing from its liveness property, which
holds once such a change was made (`outside` is never reset). That of
`settlement_roles` leaves out a dismissal after a late recording: either the row
stays overwritten, which the property excepts, or a sync has set it to
"disputed" again, and then nothing is left of the recording but `unrecorded`,
which no handler reads. Every property but the two of liveness is proved without any
bound (section 4).

Deadlock is not checked where the system may stop: after every escrow is final
there need not be a call, and a settled case has nothing left to do.

### Fairness

Two runs assume any.

* `settlement_roles`: the owner's own requests run to their end (weak fairness
  of `OwnerStep`: a request the server accepted is answered), and while an
  attempt is pending the owner presses *Reconcile* again and again (strong
  fairness of `OwnerRetries`: the press is possible only when none of their
  requests is in flight). Nothing is assumed of the other admins, the parties,
  the tabs or the ledger. `SettlementIsRecorded` has three exceptions, all real:
  a party cancels the case meanwhile (section 5), the RPC server forgets the
  transaction before anybody asked, or a recording from before the dispute
  overwrites the row (section 5).
* `membership`: the requests run to their end, the time bounds of a signed
  transaction pass in the end (weak fairness of `Expire`), and the owner presses
  *Reconcile* again while the list offers it (strong fairness of `Recover`).
  Nothing is assumed of the pages, the wallet or the ledger.

That is the recovery that the pages offer and the documents prescribe. The
other modules state no liveness: where a page is lost between its call and its
recording, nothing in the code goes on by itself. What is stated instead is
what one repair does (`SyncRepairs`), that an exit exists
(`HeldFundsHaveAnExit`), and that someone is offered the next step
(`HeldWorkMovesOn`, which fails).

## 4. Proofs

`tlapm` checks all of them. They hold for every set of wallets, tokens, amounts,
shares, ratings, pages, agreements, submissions, milestones and escrows and
every bound, under the `ASSUME`s of the modules, all about the constants:
bounds, ids and shares are naturals, the roles do not overlap, and the stand-in
for "nothing" is nothing else. The type
invariants are proved and not among the runs' properties; so are
`AverageIsARating`, `PartiesAreDistinct` and the `KeepsCustody` of each module.
Each proof module follows one pattern: an inductive invariant in named parts, one lemma or step
per action, and the properties read off it.

* `Sums` is about functions on `1..n`, and the library's induction theorem
  takes an operator, which the installed provers cannot instantiate. So
  `EscrowContractProofs` begins with an induction principle of its own
  (`InductiveSet`: a set of naturals with 0 and closed under successor is `Nat`)
  and gets from it what is needed: a sum changes by exactly what one entry
  changes.
* The reputation contract (same module): `StatsMatchCompletions` is inductive
  with the types: a record adds its entry to the sum of one freelancer and leaves the others.
  The average follows from it: each rating is 1 to 5, so the sum of `n` of them
  lies between `n` and `5n`.
* `EscrowContractProofs`: `ReputationRefined` shows that each step of the
  composition is a step or a stutter of `RepSpec`, so that what is proved of
  the reputation contract holds of the composition. Balances stay naturals
  because a transfer checks them and the split is at most the whole
  (`SplitParts`). `EveryTokenIsAccountedFor` is about every address, the
  contract's own included (`BalancesAddUp`): what it has of a token is what it
  started with, less what the escrows it is the client of cost it and more what
  those it works on earned it, as the approvals and the resolutions tell; the
  contract has what it holds for its escrows besides. This is inductive together
  with the types. An escrow's earnings only change in the step that pays them
  (`EarnedStays`), so each entry point is brought under one of two lemmas, that
  of a new escrow and that of an updated one, and changes one summand of each
  address, by what it moves. `Solvency` is read off it: the contract's balance is
  at least what it holds, and exactly that unless it is itself the freelancer
  of an escrow in that token; then a resolution leaves the freelancer's share in
  the contract. Solvency alone would not notice a release that pays and records
  nothing, nor a refund sent to the wrong wallet. `HeldFundsHaveAnExit` says that the conditions of
  `cancel_escrow`, `mark_disputed` and `resolve_dispute` (`MayCancel`,
  `MayMarkDisputed`, `Resolvable`) are met while money is held. Each of these
  actions is its condition and one assignment per variable, so it can be taken
  exactly then. `MoneyHasAnExit` follows from what the state keeps
  (`ExitsAreOpen`): held money is covered, the contract initialized, and from
  the submission on there is a freelancer; and from the split, which neither
  loses nor invents a unit (`FreelancerPart`).
  `SplitIsFloor` shows that the split in two parts is the floor of the whole.
  `ReleasedForOneReason` and `ResolutionIsFairAndComplete` are inductive only
  together (`Traces`): an escrow is released either with the completion record
  of its approval (`Approved`) or with a resolution, and what was resolved is
  final. Where the reputation contract obeys a wallet, a completion says nothing
  of any escrow; but then it refuses the escrow contract's call, so nothing is
  approved, and which of the two it obeys never changes. `PartiesAreDistinct` and
  `AllowlistCountIsExact` are inductive with the types.
* `Cancellations` (same module, as its specification `CancelSpec` is about one
  status of the contract): first that it sees the contract rightly. The contract
  moves the status of an escrow only as the ledger of `Cancellations` may move
  (`ContractMovesAsAssumed`), and that ledger moves in no other way
  (`LedgerMovesAsContract`). Then `CancelInv`: what a page has seen at each step
  of its run (`RunOK`). A run signs only after it has seen an answer, and
  `RequestsLast` says what every handler keeps, above all that an answer once
  given stays, although statuses are set back by late reports; a run records
  only after it has seen the escrow cancelled, which is final.
* `EscrowMirrorProofs`: the inductive invariant `MirrorInv` adds to the
  properties what a tab has learnt by the time it writes (`Knows`): one that
  records has seen its call on the ledger, one that applies a sync has read a
  status the escrow has had. That lasts (`KnowledgeLasts`), since no step takes
  anything from an escrow's past nor removes a row (`Grows`). For `JobFollowsEscrow`
  each handler that writes the job alone is shown to leave one of the cases of
  `JobStandsApart`, and each other one to leave that case or to write both.
  That needs what the job can be without an escrow (`NoEscrowYet`), and that
  nothing is submitted on the ledger before proof was handed in
  (`ProofComesFirst`), since a cancellation without the ledger would otherwise
  meet an escrow in review. `SyncRepairs`
  needs besides that the current status is the furthest of the past, and that
  the server's ranks agree with the lifecycle where a sync may write
  (`RanksAgree`).
* `WorkAgreementsProofs`: the acceptance does not look at the selection. What
  makes it safe is that the agreement in play and the selection only change
  together: `AgreementsOK` says what the agreements and their versions are to
  each other and to the selected freelancer, `SelectionOK` that nobody is
  selected for an open job, nor for a posted escrow whose assignment is not
  recorded yet. Each step is one of `AgreedTerms` or a stutter; with the
  invariant that is `DealIsKept`.
* `DisputeMarkingProofs`: what a page knows about its transaction at each step
  (`PageOK`), and that a marked escrow is not held any more (`LedgerOK`), so a
  second transaction cannot mark it again. In a dispute that is not `shared`
  (`AloneOK`), one page runs at a time, the mark tells that it does, and nothing
  was sent before it signs.
* `DeliveryProofs`: before the work is funded nothing was handed in
  (`Untouched`), so the policy no longer changes when something is; the status
  "anchoring" is a lock held by one page; a page that records a success has
  seen its submission on the ledger (`PageOK`, `LedgerOK`); and whatever is past
  its review, or was ever sent, was accepted (`AcceptedOK`). The quota is
  inductive beside that, by counting the requests.
* `MilestonesProofs`: a released escrow stays released, and a page that records
  a call has seen it (`LedgerOK`, `PageOK`); so although statuses go forth and
  back, a milestone that says released was told so by the ledger
  (`MilestoneOK`), and the next one takes somebody, or is offered, only then
  (`WorkInOrder`, `OffersInOrder`). `RowsOK` ties each row to the escrow created
  for its milestone and that milestone's freelancer, which `MoneyIsRecorded`
  needs, as a page only moves the escrow of a row. `CompletedHoldsNothing` is
  about the project's status, which some handlers derive and others leave as it
  was. It holds because what it is derived from lasts: a milestone with an
  escrow that is released or cancelled is closed on the ledger, or its dispute
  was withdrawn (`CancelledOK`, `MilestoneOK`); a closed escrow stays closed
  (`ClosedLasts`); and a row never gets an escrow without the status being
  derived again (`FinishedOK`). `PastOK`, `MarksOK` and `StatusOK` tie a row
  that says "disputed" to a dispute, since in that status a cancellation passes
  off the ledger.
* `AdminMembershipProofs`: only the transaction recorded in an operation is
  ever sent; while it may still be applied the operation is open, and only one
  operation is (`OneActive`); a request about to complete knows the ledger's
  last word on it. So nothing applied is overtaken (`Shown`, `Revoking`,
  `Backed`).
* `SettlementProofs`: a request of the route stops at every `await`, and by the time it goes on,
  the rows and the ledger may have moved. `RequestsOK` says for each phase and each step of the
  route what the request still knows then: one about to record a success has seen that transaction
  succeed with the terms of its attempt; one about to record a failure has no hash, or that of a
  transaction that is dead. `RequestLasts` shows that this stays true whatever the others do,
  because a hash once recorded is never exchanged (`AttemptsLast`) and the ledger's last word on a
  transaction is its last (`LedgerLasts`). The mutations are brought under two shapes, an attempt
  that is opened and one that is advanced (`RowsStep`), and every property is shown for the shapes:
  `RecordsFollowTheChain` because the escrow is settled by one transaction and no other can succeed
  after it (`LedgerOK`, `SettledStays`), and because a row that was overwritten by a late recording
  gets a final status only from a sync that has read it on the ledger, `FailedAttemptsAreDead`
  because the hash of a failed attempt is of a dead transaction, and without a hash nothing is
  submitted (`AttemptsOK`, `TabOK`, `NothingUnrecordedIsSubmitted`),
  `PendingAttemptIsUniqueAndAssigned` because no handler assigns a case while an attempt is pending
  (`OneActive`).

* `Custody`: in each of the seven modules, every step of the ledger is a step of
  `Custody` or a stutter (`ContractKeepsCustody`, `MirrorKeepsCustody`,
  `AgreementsKeepCustody`, `MilestonesKeepCustody`, `MarkingKeepsCustody`,
  `DeliveryKeepsCustody`, `SettlementKeepsCustody`). For the most part the
  invariant that the properties needed is enough: in `Settlement`, for
  instance, that the escrow is settled by one transaction. Two modules need
  more. In `WorkAgreements` the escrow is closed in a step that looks at its
  row, so a row that is open has to show an escrow that is open
  (`OpenRowIsOpen`). In `Milestones` an escrow that can be disputed names a
  freelancer because the page that creates it was pressed when its milestone
  had one, and no milestone loses hers (`NamedOK`).

Model-checked only: `SettlementIsRecorded` and `SubmittedIsSettled`, since
liveness under fairness is out of this prover's reach. Every other property of
the passing runs is proved.

## 5. Where documents and code differ

Two disagreements are runs, each with a counterexample:

* `marking_race`. `markDisputeOnChainStarted` lets a second page join a marking
  that is under way. When that page's wallet declines, the dispute says
  `mark_failed` without a hash, the panel offers a retry "before a transaction
  hash was recorded" (`dispute-marking-status.tsx:76`), and the first page's
  transaction is on its way. The deliverable's review
  (`docs/instawards/Highrable-Instawards-Deliverable-1-Implementation-Review.md:81`)
  says that retry is disabled then. The contract keeps a second transaction
  from doing harm; the first page's success is refused or overwritten until
  someone retries.
* `milestone_stuck`. With the default policy, handing in a preview sets the
  milestone to "submitted" while its escrow stays "funded"
  (`work_submissions/mutations.ts:264`). The panel shows the proof, the
  cancellation and the dispute only where both agree
  (`milestone-action-panel.tsx:244` and `272`), so nobody is offered anything
  while the money is held.

Others were met while modelling. They are part of the models, and a property
excepts or surrounds them where it says so:

* `docs/highrable-implementation-inventory.md:101` says that `mark_disputed`
  moves the escrow into a terminal state. It was, until `resolve_dispute`
  (`contracts/escrow/src/lib.rs:530`).
* `docs/highrable-implementation-inventory.md:325` says that the parent job's
  status is recalculated from milestone states. Previews, revisions and
  cancellations without the ledger do not.
* The deliverable's review, line 119, says that after verified success the
  database finalizes the records. When a party has set the case to cancelled
  while the settlement was in flight, `recordDisputeResolutionSucceeded` refuses
  from then on, and the mirror stays disputed though the escrow is paid out
  (exception in `SettlementIsRecorded`).
* `disputes/helpers.ts:526` and `dispute-action-guard-notice.tsx:6` say that
  release and cancellation are paused while an escrow is disputed. The guard of
  the release button (`escrow-action-guards.ts:135`) and `approveAndRelease` do
  not look at the dispute; until it is marked on the ledger the release goes
  through there, and only its recording is refused.
* `cancellations/mutations.ts:410` reports work "cancelled before escrow
  funding". `isWorkStarted` (`cancellations/helpers.ts:412`) leaves out
  "disputed", so after a marked dispute is withdrawn (`changeDisputeStatus` or
  `cancelDispute`, which no page calls) work without proof is cancelled without
  the ledger while the money is held (exception in `CompletedHoldsNothing`).
* The same line 119: a recording from before the dispute, which
  `updateEscrowStatus` (`escrows/mutations.ts:191`) accepts over "disputed",
  blocks the settlement's record, and a sync then settles the row without it
  (`syncMutations.ts:30`). The case and its attempt stay open for good
  (exceptions in `RecordsFollowTheChain` and `SettlementIsRecorded`).
* The escrow contract accepts its own address as the freelancer
  (`contracts/escrow/src/lib.rs:134` and `346`). A resolution that awards it a
  share marks the escrow released and leaves that money in the contract, from
  where no call takes it (excepted in `Solvency`, accounted for in
  `BalancesAddUp`).
* `contracts/reputation/src/lib.rs:65`: whoever calls `initialize` first decides
  who may record completions. A deployment that leaves this to a stranger gets
  records no release stands behind, and cannot approve any work
  (`ReleasedForOneReason` is about the completions of approvals).
* The job's status is not always its escrow's: proof, previews, revisions and a
  late assignment write the job alone (`work_submissions/mutations.ts:255`,
  `revisions/helpers.ts:416`, `escrows/mutations.ts:176`). `JobStandsApart`
  lists the cases.
* `work_agreements/mutations.ts:969` says that an accepted agreement cannot be
  cancelled after the escrow is funded. The guard reads the rows: it passes
  between the funding on the ledger and its recording, and for a disputed job.

## 6. Not modelled

* The map covers the protocols, which are a small part of the code: most of
  the 90 000 lines are pages, forms, queries, validation, formatting, tests and
  content rows, whose correctness is not a matter of states and steps. A model
  of them would restate their assignments. The parts of the protocol modules
  that are left out (notifications, events, evidence, wording, authorization by
  wallet string) are read by no guard of another handler.
* Components without a module: the transactions ledger and content rows (no
  guard reads them), wallet authentication (signed tokens, the used nonces are
  the only state), passkey accounts (third-party wallet software), build and
  deployment.
* Components that could have one: `Deadlines`, `GasRelay`, the registry. See
  the plan.
* Hazards without a property, with reasons in `PROJECT.json`: a settlement no
  attempt knows and a search cannot find (`chain-verification.ts:321`), the
  truncated payout figures (`admin/mutations.ts:131`), and the relay's timeout
  (`gas/submit/route.ts:56`).

## 7. Plan

In order of value:

1. `PayoutRecord`: the payout figures that the database stores against the
   contract's split.
2. `Deadlines`: a reminder is sent at most once and not after the work is
   delivered, with the scan racing changes of the deadline. `GasRelay`: a retry
   of a sponsored submission by operation id. `Registry` with the client that
   registers and the mirror in `convex/registry`.
