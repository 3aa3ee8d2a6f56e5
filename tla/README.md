# Party Mix: a TLA+ model of the mixer

These modules model `partymixrust`, a mixer built on Shielded CSV: a node that
scans a chain for nullifiers, publishers that aggregate nullifiers for the
chain, a custodial pool with an off-chain ledger, the predicates by which
payments are proved, and the HTTP API's sessions. They are translated from the
Rust source under `src/partymixrust/src/`; documents and comments serve only as
claims to compare the code with.

Model-check with `tlc -config X.cfg M` (the module of each configuration is
listed under *Runs*), check proofs with `tlapm M.tla`.

## The system

| Part | Source | State | Operations |
|---|---|---|---|
| Node | `mixer_node.rs` | nullifier accumulator, chain height; owns a wallet | `process_block`, `handle_reorg`, `accept_payment`, `current_nav` |
| Wallet | `wallet_state.rs` | liabilities, unspent coins, pool accounts, nullifier store, NAV history | setters used by all the others |
| Pool manager | `pool.rs` | none (a copy of the configuration) | `create_pool_account`, `credit_deposit`, `reserve_withdrawal`, `check_solvency` |
| Deposit handler | `deposit_handler.rs` | none | `receive_deposit`, `consolidate_into_pool` |
| Withdrawal handler | `withdrawal_handler.rs` | none; requests are handed to the caller | `queue_withdrawal`, `process_single_withdrawal`, `process_batched_withdrawals` |
| Payment predicates | `shielded_csv/protocol.rs` | none: they say which data may get a proof | `payment_init`, `payment_finalize`, `payment_finalize_fee`, `compliance_predicate` |
| Primitives | `shielded_csv/primitives.rs` | accumulator stubs | `append_set`, `remove_set`, verifiers that answer yes |
| Publisher | `publisher.rs` | pending nullifiers | `submit_nullifier`, `build_aggregate_nullifier`, `clear_pending` |
| Crypto backends | `crypto/` | none | traits, and mocks that check nothing |
| HTTP API | `api/` | sessions behind a lock | `create_session`, `metrics`; `health`; deposit and withdrawal answer 501 |
| Communication, extensibility | `communication.rs`, `extensibility.rs` | none | payload types, hooks nothing calls |

How they interact. A handler method borrows the node (`&MixerNode`) and a
wallet (`&mut WalletState`) in one call. The node owns the wallet it was
created with, so the two cannot be one object: there are **two wallets**, which
start as copies of one state and then part. `process_block` and `handle_reorg`
change the node's, the handlers and the pool manager change the other. The
duplicate check of a deposit reads the node's `unspent_coins`, the coin goes to
the other wallet's. `tests/integration.rs` builds the objects in this way.
The accumulator values (NAVs) connect the parts: the node records one per
block, a coin is bound to one, a deposit is accepted if its NAV is in the
node's history, and a payment predicate compares them to tell chains apart.
A publisher shares nothing with the node: what it aggregates reaches the node
in a block, if at all. The API holds no reference to any other part; its tasks
share one map of sessions.

What is hard here. Outside the API nothing runs concurrently within a call, and
nothing is persisted or retried by the code itself: no background task, no
scheduler. The difficulty is in *sequences* of calls that the two small tests
of the repository never make: reorgs between blocks, between a payment's steps
and around a delivery; keys published twice, by one publisher or by two;
nullifiers submitted between the building of an aggregate and the clearing of
what it holds; deposits and deliveries of coins with one on-chain id; requests processed twice; operations that
fail half-way; saturating and wrapping sums; and payers who choose what they
prove. The API's handlers are asynchronous tasks that wait for one lock and can
be dropped when a client goes away, at that wait or with an answer that is not
written yet. `PROJECT.json` lists these hazards at their lines with the
properties that would catch them, or why none does.

What makes each part correct:

* node: the store, the sets accumulated and the NAV history agree with the best
  chain, after any blocks and reorgs;
* ledger: no coin is lost or counted twice, nobody is credited without a coin
  or withdraws more than was credited, reservations are exact, the pool covers
  the liabilities;
* pool: exactly one primary account once there is one;
* withdrawals: what is delivered was reserved, is funded, and is acceptable to
  the recipient;
* payments: value is conserved, a coin and an account state are spent once on
  every chain, a reorg undoes a payment as a whole;
* publishers: nobody is credited with a fee below its floor, an accepted
  nullifier is not dropped before it was aggregated;
* API: concurrent creations lose no session and make no other, a session stays,
  every request ends.

## The modules

`MixerNode` is the node with its wallet's nullifier store and NAV history.
One action per operation: `ProcessBlock` (the digest's `expect` comes first:
`DigestPanics` or `RecordBlock`), `HandleReorg` and `HandleReorgTooDeep` (the
refused call; the chain has reorganised all the same). The loop over a block is defined by sets and positions
(`Publications`, `FirstPosition`, `NewKeys`, `LocIndex`), which is what the
proofs reason about. A NAV is the number of times the hash was iterated:
`append_set` of the stub hashes the value and ignores the set. The variables
`board`, `orphaned` and `refused` are history: the chain the node was shown.
The chain is an assumption about the environment: blocks come in height order
and only connected blocks are disconnected.

`ScanLoop` is the same loop as the code runs it, two folds that carry the store,
the counter `loc` and the keys pushed, and states that both agree
(`ScanAgreesWithLoop`) for every block from every reachable store. It is the
bridge from the code's loop to the definitions the theorems are about, and is a
theorem itself.

`Mixer` composes the node with the handlers' wallet, the pool manager and both
handlers. `CreatePoolAccount`, `ReceiveDeposit`, `ConsolidateIntoPool`,
`QueueWithdrawal`, `ProcessSingleWithdrawal`, `ProcessBatchedWithdrawals` are
one method each with every call it makes; `NodeStep` is a step of `MixerNode`.
The two sums that `check_solvency` compares are taken modulo `MaxAmount + 1`, as
a release build takes them; `SumsFit` is the condition under which they are the
sums.
A method that returns an error before it changed anything is a stutter and has
no action; one that fails after it changed something does
(`ConsolidateIntoPool` without a primary account). The node's own
`unspent_coins` never change and are the constant `NodeCoins`. `deposits`,
`consumed` and `deliveries` are history.

`Payment` models the predicates as the derivation of proofs: an edge label
(account state, coin, output of `payment_init`) is in the state when it has a
proof, and a step is one use of `compliance_predicate`. Payers choose coins,
lists of new coins, fees, NAVs and the next key freely. The accumulators are
constant operators, the verdicts of their verifiers. A NAV is the sequence of
the sets appended to it, one per block, so the set `navs` is a tree whose
branches are the chains before and after reorgs. A block carries any number of
nullifiers, of different keys; all get one location, as `process_block` gives
them, so that the on-chain ids of coins from one block may be equal. Addresses
are the accounts they commit to, hashes are what is hashed.

The openings of a `payment_init` input (`acct_comm_rands`) are the coins it has
one for: `Owns` is the `zip` that stops at the shorter list, so a coin without
an opening is used by whoever names it. Nothing but the payer stops this, and
`CoinSpentOnce` is stated for inputs that open every coin (`AddressesOpened`).

`Custody` is the abstract specification of the ledger: value received is
credited, what is set aside for withdrawals is covered by the credit, and only
what was withdrawn is delivered. It knows no wallet, pool, chain or handler.
`Mixer` instantiates it (`ImplementsCustody`): its credits and reservations are
the liabilities of the handlers' wallet, its receipts are `deposits`, its
withdrawals the requests, and its delivered withdrawals the requests with a
delivery. Node steps, pool accounts and consolidation are stutters; a batch is
one delivery of all its requests.

`Publisher` puts the publishers beside a node. `SubmitNullifier`,
`BuildAggregateNullifier` and `ClearPending` are separate steps, as the three
methods are separate calls of an operator: building leaves what is pending
pending, clearing clears whatever is there. An aggregate that was built is in
flight from then on: `Mine` processes any block of such aggregates, of any
publisher, again and again, and reorgs take blocks away. Signatures of
nullifiers are left out, because nothing looks at one: `aggregate` has one
implementation, which answers with a fixed signature. Whether that verifies is
a constant of the node. `submitted`, `built` and `overtaken` are history.

`Api` is the tasks of `create_session` and `metrics` over the lock of tokio,
which is external: first come, first served, a writer alone, readers together.
A task waits (`CreateSession`, `GetMetrics`), is given the lock (`Grant`), runs
to its return (`InsertCreated`, `SumMetrics`: one step, since the guard is held
and there is no other await), and axum writes its answer (`Respond`).
`Disconnect` drops it before any of these steps. `answered` and `lost` are
history: the sessions that clients were told of, and those whose answer was
lost when its client went away after the insertion.

`Registry` is the abstract specification of the API: requests become pending,
take effect in one step each, and are then answered or forgotten. It knows no
lock, queue or task. `Api` instantiates it (`ApiImplementsRegistry`): what is
pending is the requests of the tasks that are not idle, and those whose handler
has run are done. A task that is given the lock is a stutter; the insertion
records a session, the response answers it; metrics that were answered and a
task that was dropped are forgotten.

`MCMixerNode`, `MCMixer`, `MCPayment`, `MCPublisher`, `MCApi` choose the
constants. The verifiers of `MCPayment` (`Set*`, `Seq*`) are values of constants
and no code: they do what the traits in `crypto/accumulators.rs` are named for,
while the stubs of `primitives.rs` and the mocks of `mock.rs`, the only
implementations there are, look at the values not at all.

`MixerNodeProofs`, `MixerProofs`, `LedgerProofs`, `PaymentProofs`, `CoinProofs`,
`PublisherProofs`, `ApiProofs` hold the proofs: `LedgerProofs` goes on from
`MixerProofs` with what is about sums of amounts, `CoinProofs` from
`PaymentProofs` with what is about coins. `SumTheorems` is about the library's
`SumFunction` and knows nothing of the mixer.

A definition whose comment begins with "Mutant:" is not part of the model: it
is a faulty variant of the definition that follows it, kept to show that the
properties notice the fault.

## Runs

Passing runs:

| Configuration | Module | Shows |
|---|---|---|
| `node.cfg` | `MCMixerNode` | `HistoryWindow`, `FirstPublicationWins`, `FeeToFirstPublisher`, `AccumulatedOnce`, `KvLocatesBlock`, `KvFromBlocks`, `DepthTracksChain`, `ScanAgreesWithLoop`, types |
| `mixer.cfg` | `MCMixer` | the ledger (`CoinsAccounted`, `CreditBacked`, `NoOverdraft`, `ReservationsExact`, `SolvencyKept`), the pool (`AtMostOnePrimary`, `PrimaryPersists`), withdrawals (`FirstDeliveryAccepted`, `DeliveredWithinReserved`, `DeliveriesBacked`), and that all of it together implements `Custody` |
| `payment.cfg` | `MCPayment` | `CoinSpentOnce`, `CoinIdUnique`, `OneOutcome`, `FeeFollowsOutcome`, types and widths |
| `publisher.cfg` | `MCPublisher` | `FeeFloorKept`, `LostOnlyIfOvertaken`, types |
| `api.cfg` | `MCApi` | `SessionsAccounted`, `SessionsPersist`, `EveryRequestEnds`, and that the tasks implement `Registry`; types |

Several of these hold with a proviso, which is part of the formula and is a
thing the code leaves to somebody else or does wrong. `CreditBacked` speaks of
behaviours in which no coin was deposited twice (`CoinCreditedOnce`, which
`mixer_twice` shows violated), `DeliveredWithinReserved` of those in which no
request was processed twice (`ProcessedOnce`), `DeliveriesBacked` of those with
neither; `SolvencyKept` leaves out consolidation and sums that overflow;
`AccumulatedOnce` and `FeeToFirstPublisher` leave out the keys a disconnected
block recorded (`node_purge`); `CoinSpentOnce` asks for `HistoryOnChain` and
`AddressesOpened`.

The node, mixer and publisher runs other than `node_digest` use
`DigestLen = 32`: they are about the code with a digest that `secp256k1`
accepts, without which no block is processed and no aggregate is built. What
remains with the 26 bytes of the code is proved: `GenesisOnlyHolds`,
`MixerGenesisOnly` and `NothingAggregatedHolds`. Likewise `payment.cfg` is about
the predicates with accumulators that verify something, and the theorem
`NothingMovesHolds` says what remains with the stubs: nothing is ever paid.

Runs that end in a violation, each of one property that a document or a
comment of the repository states (the findings in `PROJECT.json` quote it):

| Configuration | Property | What the code does |
|---|---|---|
| `node_digest.cfg` | `DigestIsValid` | panics on every block |
| `node_history.cfg` | `HistoryOnBestChain` | a reorg drops the old NAVs and keeps the disconnected ones |
| `node_purge.cfg` | `RepublishedAccumulated` | a key of a disconnected block stays in the store, and a block that publishes it again does not accumulate it |
| `node_locations.cfg` | `LocationsDistinct` | the counter is cut off the location |
| `mixer_twice.cfg` | `CoinCreditedOnce` | the duplicate check reads the wrong wallet |
| `mixer_coin_lost.cfg` | `FailedConsolidationKeepsCoin` | the coin is gone when the consolidation fails |
| `payment_fee.cfg` | `ValueConserved` | the payer is credited with the fee |

The model also shows behaviour for which no run is kept, because it is what
the code plainly does or marks as undone; it is modelled as it is, not
repaired:

* a reorg does not set back `chain_height`, which nothing reads;
* consolidation credits the coin to no pool account, and deliveries cost the
  pool nothing: `SolvencyKept` names the steps that may break coverage;
* `deposit_confirmations` is read nowhere;
* a request can be processed again, and twice in one batch:
  `DeliveredWithinReserved` bounds what is delivered by what was set aside while
  no request was (`ProcessedOnce`), which is the caller's duty;
* all delivered coins have one on-chain id, so a recipient who holds one takes
  the next for a duplicate, though `ARCHITECTURE.md:168` has the user accept
  and spend them: `FirstDeliveryAccepted` says which are accepted;
* `clear_pending` drops nullifiers that came after the aggregate was built:
  `LostOnlyIfOvertaken` names this as the only way for one to be dropped that is
  in no aggregate. One that is in an aggregate is cleared too, whether the
  aggregate is ever mined or verifies;
* nobody verifies the signature of a nullifier: not `submit_nullifier`, not the
  one implementation of `aggregate`, and `agg_verify` of `primitives.rs` always
  says yes;
* a session whose client went away before it was told of it stays in the map
  (`lost`), and nothing removes it;
* a coin without an opening has no check of its address (the `zip`);
* the no-op path of `payment_finalize` does not check the NAV of the previous
  state against the chain, so an account state may reach a chain it is not of.
  `CoinSpentOnce` is stated for owners whose states have their history on the
  chain (`HistoryOnChain`).

Bounds, and why they are enough:

* `MaxBlocks` (blocks processed): four, with three keys and five blocks. Four
  blocks allow two blocks, a reorg of one or both, and two blocks again; the
  five blocks repeat keys in each of the four ways the loop distinguishes.
  A reorg deeper than the history needs three (two reorgs).
* `MaxAmount` stands for `u64::MAX`: 4 in `Mixer`, with coins of 2 and 3, so
  that two deposits of one user saturate and the sums of the solvency check
  wrap; 2 in `Payment`, so that a balance and a coin wrap.
* `MaxDeposits`, `MaxRequests`, `MaxDeliveries`: two of each, in one run, since
  the properties relate at most two of a kind; a batch holds two. With one
  block there is one reorg, before or after any of them: what a NAV can be to a
  delivery is the genesis value, a new one or a disconnected one.
* `MaxPayments`, `MaxNavs`, `MaxSpent`: two payments, one coin each, and four
  NAVs (the root, two blocks on one side and one on the other, or three in
  line). Each payment property is about two payments, which one block may carry
  together; a block may also be empty. The coins of such a block do share
  on-chain ids in the run.
* `FeeAcct`, the accounts publishers name: one, in `payment.cfg` that of the
  payer, who may then spend what it earned. The theorems are for any.
* `Openings`, the number of openings an input has: 1 (every coin opened).
  `CoinSpentOnce` is about inputs that open every coin, and the theorem
  `OneOutcomeHolds` is for any number.
* `Publisher`: two publishers with floors 1 and 2, so that one nullifier is
  above the floor of both and one of a single publisher; two keys, one of which
  comes with either fee; two pending and three different submissions, so
  that something can be submitted between building and clearing, and to both;
  two aggregates and two blocks of at most one aggregate, so that aggregates
  compete and one is mined twice, with a reorg between.
* `Api`: three clients, since two readers are enough to hold the lock without
  a gap and the third is the writer; two sessions, so that one may be
  overwritten; two hashes, so that they may belong to one user or to two.
* Users, commitments and account ids: two, the number the properties compare.

No symmetry is used: the keys and the accounts of the instances play different
parts, and symmetry is not sound for liveness. Deadlock checking is on in every
run; no state is one, because a reorg of no blocks, a repeated derivation and a
request for metrics are always possible.

Fairness is stated for `Api` only, whose runtime justifies it: weak fairness of
`Grant`, since tokio hands a free lock to the first in line, and of
`InsertCreated` or `SumMetrics` and of `Respond`, since the runtime polls a task
that was woken, the handlers have no other await, and axum writes what they
returned. Nothing is assumed of clients: they need not ask, nor stay.
`EveryRequestEnds` is what follows. All other steps are calls by somebody
outside, and nothing in the code says that they are ever made.

## What is proved

For all values of the constants that satisfy the assumptions named in the
modules (finite key set, blocks of fewer than 2^24 keys, well-typed coins,
initial withdrawals that do not exceed the credits):

* `MixerNodeProofs`. `NodeTypeCorrect`; `HistoryWindowHolds` (inductive with
  the types: a block extends the window at its end, a reorg shortens it at its
  front); `DepthTracksChainHolds`; `FirstPublicationWinsHolds`;
  `GenesisOnlyHolds`; and `StoreAgreesWithChain`, the conjunction of
  `KvFromBlocks`, `KvLocatesBlock`, `AccumulatedOnce` and
  `FeeToFirstPublisher`, each of which is a theorem by its own name. No conjunct is inductive by itself: that a key is
  accumulated once rests on the store holding every key of the board, and the
  fee rests on no earlier block having carried the key. `StoreInv` is
  the conjunction that is. The lemmas below it are about the positions in a
  block: a key has a first position (by well-foundedness of the natural
  numbers), and the counter stays below 2^24 (finite sets).
  `ScanAgreesWithLoopHolds`: for every block, from every reachable store, the
  loop of `process_block` leaves the store that `RecordNullifiers` describes,
  pushes each new key once, and the counter is at `Loc` when it does. The loop
  invariant is `Scanned`: what was looked at so far is stored, in the order in
  which it was first met. `KeyLoop` and `AggregateLoop` are the rules for the two
  loops.
* `MixerProofs`. `MixerImplementsNode`: a behaviour of the mixer is one of the
  node, so each theorem of the node holds of the mixer. `NoOverdraftHolds` by
  `LedgerInv`, which adds the ranges that make saturation harmless;
  `AtMostOnePrimaryHolds` and `PrimaryPersistsHolds` by `PoolInv`;
  `MixerTypeCorrect` by `MixerInv`; and `FirstDeliveryAcceptedHolds`, which
  combines `MixerInv` with the node's `HistoryWindow` (the current NAV is the
  last of the window) and with the one on-chain id all delivered coins have.
  `MixerImplementsCustody`: initial states map to initial states and each action
  to a step of `Custody` or a stutter. It rests on `MixerInv` with `LedgerInv`:
  a debit that saturated would not be covered, and a delivery of a request
  that was never queued would have nothing to map to.
* `PaymentProofs`. `NothingMovesHolds`, assuming only that
  `VerifyDistinctElement` always answers yes, which the stub does. The
  invariant adds that the outputs of `payment_init` are empty.
  `OneOutcomeHolds`: two payments from one account state on one chain have the
  same transaction, and both are no-ops or neither is. It assumes of the
  accumulators `SoundMembership`, `SoundPrefix` and `SoundDistinct`: that their
  verifiers accept only what is in a set of, a prefix of, or different at a
  place from the sequence of sets a NAV stands for. The verifiers of `payment.cfg` satisfy
  these. The invariant follows each proved state back to
  the `payment_init` output and the NAV it was finalized with. The spent
  accumulators of the two states are not compared: a transaction does not commit
  to it, and an account state that reached the chain from one left behind may
  carry another. `PaymentTypeHolds`, for both builds and any verifiers, by
  `PaymentTypeInv`: a new balance keeps its width because the sum
  it is taken from wraps and what is taken off is checked, a coin because it is on
  a list whose sum `payment_init` checks.
* `CoinProofs`, on the assumptions of `OneOutcomeHolds` and `OldCoinsApart`
  (hashes do not collide: coins that exist from the start have different ids and
  are of no transaction of the model). `CoinIdUniqueHolds` rests on `TraceInv`,
  which knows of every coin the payment, the position in its list and the NAV
  it was made with, or that it is the fee coin of one. Two coins with one id are
  then of one transaction; of its list the positions after the first differ in
  their index, because `payment_init` compares neighbours; and the NAV decides
  whether payment or no-op made them. `FeeFollowsOutcomeHolds` combines this
  with `OneOutcome`, and is not a consequence of any hash, since none covers the
  fee. `CoinSpentOnceHolds` needs `SoundNonMembership` besides: the spent
  accumulator a payment is accepted with held none of its coins. Its invariant,
  `LineageInv`, is about sequences: every payment finalized is the last of a
  *lineage* that begins with a newly opened account, in which each payment is of
  the state the one before left, and the coins of those that were no no-ops are
  in the spent accumulator of the last. Two lineages of one account on one chain
  agree as far as both reach (`LineagesAgree`, by `OneOutcome` at each place), so
  of two payments that spend a coin one is in the lineage of the other
  (`SpentBefore`), whose spent accumulator would refuse it. An owner may open an
  account again and again, which begins a lineage anew, and wins nothing by it.
  It is a theorem about behaviours that satisfy `HistoryOnChain` and
  `AddressesOpened`, which nothing in the code enforces.
  The verifiers of `payment.cfg` satisfy the four assumptions, by definition, as
  its one old coin does `OldCoinsApart`; the stubs of `primitives.rs` satisfy
  none, and of these `NothingMovesHolds` says what remains.
* `LedgerProofs`. `CoinsAccountedHolds`: a deposit adds an occurrence to both
  sides, and a consolidation moves one, because `remove_unspent_coin` takes one
  place out of the sequence and no other. `CreditBackedHolds`, from a wallet
  that is backed when it is copied (`InitiallyBacked`, true of the instance and
  of the empty wallet a node is built with) and as long as no coin is deposited
  twice: a deposit adds a coin that was not received before, whose amount is at
  least what the credits, which saturate, grow by. The coins are counted as a set,
  so a coin that came twice would be worth one.
  `ReservationsExactHolds`: the sums do not saturate, because a request is
  refused unless the total is available; its invariant adds that no entry leaves
  the ledger. `DeliveredWithinReservedHolds`, by `DeliveryInv` (the amount of a
  delivery is that of its request): as long as no request is processed twice,
  deliveries index requests one to one, and each costs less than it reserved.
  `DeliveriesBackedHolds` is what these say together: with both provisos, all
  that is delivered is covered by the worth of the different coins received. It
  follows from the others and `NoOverdraft`, by sorting the deliveries by user
  (`SumByClass`). It says nothing of where those coins are, since a delivery
  takes none.
  `SolvencyKeptHolds`, for the sums `check_solvency` takes modulo `2^64`, as far
  as they fit before and after: every step but a consolidation keeps a solvent pool solvent.
  All rest on `FiniteInv`, that the wallet's maps are finite, without which a sum
  over them is nothing.
* `SumTheorems`. The library takes the terms of a sum in an order nobody knows:
  `SumRemove` says that any term may be taken out first, `SumReindex` that it
  does not matter what the terms are indexed by; `SumByClass` that sums of
  parts bound the sum of all; `SumAdd`, `SumChange` and `SumMonotonic` are what the ledger's steps need.
* `PublisherProofs`. `PublisherImplementsNode`: a publisher's blocks are blocks.
  `PublisherTypeCorrect`; `FeeFloorKeptHolds`, by invariants that say of which
  submissions an aggregate is made, together with what the node's store holds of
  the blocks it was shown;
  `LostOnlyIfOvertakenHolds`, which needs that the first `built` of what is
  pending is in an aggregate; `NothingAggregatedHolds`.
* `ApiProofs`. `ApiTypeCorrect`, `SessionsAccountedHolds` and
  `SessionsPersistHolds`, for any number of clients, by `ApiInv`, which adds that
  the ids of the creations under way are different, and unused until they are
  inserted (`IdsFresh`): without it an insertion could overwrite a session, and
  the answer one client loses could be another's.
  `ApiImplementsRegistryHolds` follows from the same invariant: an insertion
  finds its id in nobody's hands, so it is one step of `Registry`, as is a
  response, and being given the lock is a stutter.

Every invariant and action property of the passing runs is thus proved.
Model-checked only: `EveryRequestEnds`, because liveness under fairness is beyond
the prover; and the seven findings, which are counterexamples.

Sums and folds are recursive functions of the library, and the prover has no
rule of induction that it could apply to a statement about one. Where a proof
needs induction it is done in first-order terms: the set of numbers for which a
statement holds contains 0 and the successors of its elements, so it is all of
them (`NatInductionOnSet`, from the least number outside it). That a recursion
has a solution at all is proved in the same way (`SumsExist`, `TurnsExist`).

## Not modelled

* Communication and extensibility: payload types and hooks that nothing calls,
  without state or control of their own. No code sends, receives or retries a
  message, so there is no delivery to lose or reorder.
* Crash and restart: nothing is persisted and nothing reads a state back; a
  restart is `Init`.
* The mock accumulators of `crypto/mock.rs`, which nothing uses, and of
  `MockNisshac` all but `aggregate`.
* The API's `health` and its endpoints that answer 501: they read and change no
  shared state (`chain_height` is never written).
* The local inputs the handlers build for `payment_init` and then discard;
  their proofs, which only a prover that checks nothing makes. They are not
  inputs the predicates accept (a hazard in `PROJECT.json`).
* The configuration a caller passes to `process_batched_withdrawals` beside the
  handler's own: the model has one.
* `sig_comm` in the store: the same constant for every nullifier.
* Randomness of hashes, audit log, timestamps, ids of deposits and withdrawals,
  statuses (never changed after creation).
* `issuance`, which always fails; coins in `Payment` exist from the start.

## Plan

Done, in this order: `MixerNode` with its runs and proofs, as everything else
reads it; `Mixer`; `Payment`; `Publisher`; `Api`; `Custody` and its refinement;
`Registry` and its refinement; openings in `Payment`; `OneOutcome`; sums, and the ledger's invariants; the types
and coins of `Payment`; the loop of `process_block`. To come:

1. Conservation in `Payment`, as far as it holds: `payment_fee` shows that the
   accounts and coins of a chain may become worth more than the old coins, by
   the fee that is credited twice; with `OverflowChecks` it should be by no more
   than the fees of the publications that counted.
2. The inputs and edges the handlers build, as steps of `Payment`, to state
   which of them `compliance_predicate` accepts.
3. What delivery costs the pool, once the code funds it.
