# TLA+ models of Sting-Flashbots

Sting-Flashbots shows that a block builder leaks the bundles it is sent. A
searcher, whose key lives in an SGX enclave, sends the builder a *sting* bundle.
If the builder gives the bundle's transactions away, somebody who saw them can
put an *evidence* transaction into the same block: its signature nonce commits
to the signature of the sting transaction. The enclave checks both
transactions against the block and signs the block's number and hash; with that
signature a bounty contract pays out.

Three kinds of checks are made here: TLC model-checks every module on small
instances (the runs), TLAPS proves the safety properties of all parts but the
arithmetic of signatures and commitments for every value of the constants, and
each property has a mutant of the code that TLC finds.
`PROJECT.json` lists runs, mutants, hazards, theorems and the source lines of
every definition.

## The system and its parts

| part | state | operations | interacts with | hard behaviour |
|---|---|---|---|---|
| bounty contract (`chain/solidity/Honeypot.sol`) | owner, bounty, claimed, per enclave: requested, approved, stored report | constructor, submitEnclave, approveEnclave, collectBounty | called by anybody; `blockhash` of the chain | calls in any order, review and approval are separate steps, 256-block window |
| searcher scripts (`searcher/src/run.sh`, `setup_bounty.py`, `make_evidence.py`) | files: contract address, sting bundle, stinger data, verify data, leaked files | ten commands in sequence, `set -e` | JSON-RPC to the builder's node, shared directory | the chain moves between any two RPC calls, timeouts, restarts on old files |
| enclave programs (`searcher/src/enclave/*.py`) | signing key, sting transaction | key, quote, sting bundle, verify and sign | files, JSON-RPC | the block is read three times |
| builder bundle pool (`builder/geth/txpool.go`, MevBundles part) | `mevBundles`, `pool.mu`, files of SUBV_DIR | AddMevBundle(s), subversionService, MevBundles, fetch/resolve goroutines | RPC threads, block building, bundle database | lock, partial writes, pruning out of order, channels |
| pool goroutines (`txpool.go`) | scheduler variables, done channels, head events, `pool.mu` | loop, addTxs, requestReset, requestPromoteExecutables, queueTxEvent, scheduleReorgLoop, runReorg, Stop | chain head feed, callers, tx feed | merged requests, lock held while sending, shutdown |
| pool contents (`txpool.go`) | pending, queue, virtual nonces, lookup, price heaps, local senders, private set, change counter | validate, add, promote, demote, truncate, reset with reinjection, remove, evict, set the price floor, expire private hashes | the goroutines above | nonces reset before lists are repaired, events that wait for a later run, reinjection that is partly refused, limits, failing resets |
| inclusion proofs (`enclave/lib/mkp/proveth.py`) | the trie under construction, the stack of nodes | generate, verify | JSON-RPC, trie library | one RPC per transaction while the chain moves; odd, even and short paths, one-transaction blocks |
| flashbots client (`enclave/lib/flashbots`, `utils.py`) | nonces handed out in a bundle, target block | connect, generate, sign, simulate, send, wait, receipts | JSON-RPC | nonces read one by one, dictionaries written in place, polls that miss blocks |
| ECDSA with a chosen nonce (`enclave/lib/ecdsa`) | accounts, a class flag | create, sign and recover transactions and messages | commitments | nonces above the group order, zero r or s, low s and parity, chain identifier in v |
| commitments (`enclave/lib/commitment`) | random points drawn at import | field and group arithmetic, encodings, assertions at import | ECDSA nonce | addition of equal, opposite and tangent points, two square roots |
| RLPReader, RA-TLS, extension fields, old proof tool, deployment | | | | see "What is not modelled" |

What makes each part correct: the contract pays once, and only for a reviewed
and attested enclave; the scripts end, report success only when paid, and never
mix two runs up; a paid bounty means there was a leak and there is evidence on
the chain; the pool neither loses nor keeps bundles and leaks before it offers;
the goroutines never wait in a circle, serve every request by a run started
after it, and follow the chain without gaps; the pool's lists and its lookup
agree, pending transactions can be executed in order, limits hold after every
run, private transactions stay private; a verified proof is about the canonical
block; a bundle's nonces fit together; a signature recovers to its signer and
uses the nonce it was given; verification accepts the honest opening of a
commitment and no other nonce.

## Modules

* `HoneypotOps`: the contract as guards and updates of a storage record. A call
  whose guard is false reverts. An IAS signature is genuine or not, a report
  names an enclave, is empty, or is some other text. ECDSA recovery is ideal.
* `Honeypot`: the contract as a machine. Any account calls `Submit` and
  `Collect` with any arguments; `Review` is the administrator's reading and
  checking of the stored data (`approve_enclave`), `Approve` the execution of
  the transaction it sent, which may be much later. `SgxQuote` and `Attest` are
  the enclave. `MCHoneypot` instantiates it; `HoneypotProofs` has the theorems.
* `StingAbs`: what the sting promises per run: idle, stung, leaked, committed
  (evidence on the chain), attested, paid, in this order.
* `Sting`: `run.sh` end to end. `pc` is the position in the script and inside
  its programs, split at every RPC call whose answer can change; `file` are the
  files that survive a command, `loc` the variables of the running program.
  `chain` is a sequence of blocks that carry the contract state behind them, so
  that `Reorg` undoes contract calls; `Mine` adds any block the mempool and the
  bundles allow. `AddMevBundle` is the builder's handler, `Timeout`, `Crash` and
  `Restart` are what happens to a script. Every run deploys its own contract and
  makes its own key; both are named by the run's number. `MCSting` instantiates;
  `StingProofs` has the theorems: for any chain, until a reorganisation, and that
  `Sting` implements `StingAbs`.
* `MevBundlePool`: the bundle pool at the grain of its lock and channels.
  Adding threads hold `mu` from `Lock` over one `LeakNext` per transaction to
  `AppendBundles`; `MevBundles` is one step under the lock and starts a fetching
  (`Query`, `SendErr`, `SendLub`) and a resolving goroutine (`ResolveNone`,
  `RecvErr`, `RecvLub`). `MCMevBundlePool`, `MevBundlePoolProofs`.
* `ReorgLoop`: the pool's goroutines. A send on an unbuffered channel and its
  receive are one joint action; `select` is a disjunction. The pool's contents
  are the set of accounts with queued transactions, of which a run promotes or
  drops any part. A reset either takes the pool's state (`stateHead`) to its new
  head or returns early and leaves it; `lastReset` is the head the last reset was
  asked for, and the scheduler goes on from there in both cases.
  `MCReorgLoop`, `ReorgLoopProofs`.
* `TxPool`: what the pool holds. Every critical section under `pool.mu` is one
  step: the three ways to add a transaction (`AddLocal`, `AddRemote`,
  `AddPrivateRemote`), a background run without (`RunPromote`) and with a reset
  (`RunReset`, and `RunResetFails` for the early returns of `reset`), the
  eviction tick, `SetGasPrice` and the expiry of private hashes. The parts of
  `runReorg` (promote, demote, truncate) are operators on the record `pool` and
  keep the names of the Go functions. Loops whose iterations do not affect each
  other (one per account or nonce) are set expressions; the rounds of
  `truncatePending`, which lower the largest accounts together, are the one level
  they end at, and `truncateQueue` takes the accounts in an order that is left
  open. A run serves any part of the waiting
  requests and events, since later ones arrive after its launch. A transaction
  is sender, nonce, price and gas; a chain is the set of transactions it executed.
  A reset goes to any head, the pool's own chain included (a block without
  transactions), brings any balances and gas limit, and reinjects the discarded
  transactions or none (the reorganisation is too deep or a `setHead`).
  `lookup` is the set `all` with its local part; `list`, `pricedList` and
  `noncer` are other files of the Go package and external; which transactions
  `Discard` picks is left open. `env` is the
  surroundings and `pool.config`, chosen once. `MCTxPool` has four of them;
  `TxPoolProofs` has the theorems.
* `FiniteField`, `Secp256k1`: prime fields (Euclid's algorithm, inverses,
  square-and-multiply), the group law, square roots, points as byte strings,
  random points and the commitment. `Raised` is a Python call that raises.
* `CurveGroup`: the import of `secp256k1.py`, which draws three random points
  and asserts the group laws on them before any enclave program begins.
* `Ecdsa`, `Signing`: `ecdsa.py`, `datatypes.py`, `signing.py` and the signing
  half of `account.py`; `eth_keys`' jacobian module, hashing and HMAC are
  external. `Account`: a process that makes accounts, signs and recovers.
* `StingNonce`: the numbers behind `create_stinger.py`, `make_evidence.py` and
  `verify_evidence.py`: import, sting signature, commitment, the commitment as a
  nonce, and verification with the file `make_evidence.py` wrote or one with
  another opening or key. What is signed again there is the dictionary
  `proveth.py` makes of the transaction on the chain, not the one that was signed
  first. (`Sting` has the order and the failures of the same programs.) `MCStingNonce`,
  `StingNonceProofs`.
* `TxProof`: `proveth.py`. The block and each transaction are read one by one,
  the trie is built and walked, the proof checked node by node. A node is the
  set of what is below it and stands for its hash. The blob may name any index
  below 256, whichever the proof was made for. `MCTxProof`, `TxProofProofs`.
* `BundleClient`: `get_web3`, `generate_signed_txs`, `send_bundle` of `utils.py`
  over `flashbots.py`; each read of the chain is a step, and so blocks arrive also
  while `refill_ether` waits for its receipt. The builder may leave out a bundle
  that executes (`declined`), and a gas estimate may fail. `MCBundleClient`,
  `BundleClientProofs`.

## Runs

| run | shows | bounds |
|---|---|---|
| `honeypot` | one payment, reviewed data is approved data, claims rest on attested keys, approval is final | 2 accounts, 2 enclaves, 4 blocks with a window of 2 (in it, out of it and the current block all occur), 2 signatures |
| `sting_run` | a bounty means evidence; done means paid; the evidence bundle has consecutive nonces; every run ends; refinement of `StingAbs` | one run, target 5 blocks ahead as in the code, window 2 and 4 blocks after the target (a claim can be too late), failing writes, timeouts, an exit before each transaction (a gas estimate of 10000000 or more), gas below and above the bounty |
| `sting_restart` | leftovers of a run (files, requests in flight, mempool) do not confuse the next; a claim exists only on a chain with the signed block | two runs, stops while a bundle is in flight, target 1 ahead, one reorganisation of one block anywhere |
| `sting_sign_race` | expected violation, see Findings | one run, one reorganisation of up to 2 blocks |
| `mev_bundle_pool` | the pool is exact, leaks precede offers, returned versions are current, calls resolve, goroutines end | 2 adding threads, a call with any of 2 numbers and 2 times, so that a bundle is too early, due and outdated; two versions of a cancellable bundle and a batch of two plain ones; failing writes and queries |
| `reorg_loop` | one run at a time, contiguous resets, callers served; calls return, Stop ends, every head is served: the pool's state reaches it or its reset returned early | a waiting and a private caller, 2 blocks (requests merge during a run), a maintenance tick, any 3 of them (`MaxEvents`), and Stop |
| `tx_pool` | lookup exact, pending executable, limits restored, pending kept from future transactions, locals kept, private ones unannounced | four surroundings: one account with 3 nonces at 2 prices and 4 branches; two accounts and 4 slots; five transactions that may be local; a private transaction with a replacement. 2 to 4 slots are full after a few steps; gas limits of 1 and 2 with transactions that ask for 1 and 2 in the last two |
| `tx_pool_leak` | expected violation, see Findings | the private surroundings |
| `account` | signatures verify, recover, and use the chosen nonce | curve of order 31, keys and nonces below, at and above it, 3 chains, all kinds of transactions and messages, 2 accounts |
| `sting_nonce` | the import never fails; honest evidence is accepted and nothing else | the same curve, all triples of points, all 49 openings, 2 keys, 6 sting nonces |
| `tx_proof` | what verifies is in the block; which own proofs verify | blocks of 1, 2, 3, 16, 17, 18, 128, 129, 130 and 146 transactions (where the encoding of an index or the shape of the trie changes), every index asked for, one past the end too, delivered under any index from 0 to 255, and 4 blocks that replace each other |
| `bundle_client` | receipts are missing only for a stated reason; waiting ends | 3 accounts, 3 generated transactions and 6 kinds of tails, target 2 ahead, 6 blocks |

The curve of `account` and `sting_nonce` is y^2 = x^3 + 7 modulo 43 with 31
points: like secp256k1 it has the same equation, prime order below a prime that
is 3 modulo 4. Coordinates are two bytes of 8 values in `account` and of 7 in
`sting_nonce`, so commitments, coordinates and hashes exceed the order and the
field; with 7 some commitments are multiples of the order, where r is zero. The hashes are arithmetic
stand-ins chosen to reach values above, below and equal to the order.

Deadlock checking is off where the system may stop: a run of the script ends,
bounded calls are used up. The bounds on blocks (`MaxHead`, `MaxSetup`,
`Slack`, `MaxBlock`), runs, reorganisations, entries, versions, events and ticks
only cut behaviours short.

**Fairness.** `Sting`: the scripts go on (a process that can run runs), blocks
come, the builder answers its requests, and a receipt or request that does not
come times out (web3's defaults); waiting for the target block has no timeout
and ends because blocks come. No fairness for reorganisations, crashes or restarts.
`MevBundlePool`: goroutines run and a thread holding the lock goes on; nothing
forces calls or new versions. `ReorgLoop`: weak fairness of every goroutine;
nothing forces calls, blocks, ticks or `Stop`, nor a reset to succeed. Weak fairness is enough: no
assumption on the order in which Go hands out locks or picks select cases.
`BundleClient`: the client goes on and blocks come. `TxPool`, `TxProof`,
`Account` and `StingNonce` state safety only.

## Findings

`verify_evidence.py` checks each proof against the hash of the target block it
reads for that proof (`assert block_hash == keccak(rlp.encode(header))`,
`proveth.py:403`), then reads the block once more (line 30) and signs that
hash, which it compares with neither. Run `sting_sign_race` shows a
reorganisation between the reads: the enclave signs a block it has seen no proof
for. Under the same bounds `BountyImpliesEvidence` fails too: the bounty is paid
for a block without evidence. It takes a reorganisation: the theorems
`SignedVerified` and `BountyEvidenced` show both properties for every state that
no reorganisation precedes, and `ClaimStands` what remains afterwards.

`AddPrivateRemote` "does not broadcast these transactions to any peers"
(`txpool.go:1166`), and they are tracked "so they don't get leaked to the public
mempool" (`txpool.go:1222`). Run `tx_pool_leak`: a private transaction replaces
a pending one, which queues an event, while a run with a reset waits for the
lock. That run finds the nonce used, drops the transaction and with it its entry
in `privateTxs` (`txpool.go:1842`). The next run without a reset announces the
event, as the filter no longer knows the hash. What does hold is
`PrivateUntilOvertaken`: it takes a block that used the nonce.

Three deviations that the properties of `tx_pool` make room for:

* `PendingExecutable` excepts accounts that got back only some of the
  transactions of an abandoned branch. `demoteUnexecutables` looks for a gap only
  in front of the list, so if reinjection accepts nonce 0, refuses 1 (overdraft,
  price floor, full pool) and 2 was pending all along, pending keeps a
  transaction behind a gap and `Nonce()` points past it.
* `reset` sets the virtual nonces back before promotion. A transaction that
  follows a pending one and is served by a run that also resets is not promoted,
  and nothing asks for it again until its sender or the head moves.
* A local transaction that replaces a pending one returns from `add` before the
  lines that put its sender on the list of locals; `LocalsNotDropped` speaks of
  senders on that list.

In `proveth.py`, `decode_compact` is handed the RLP encoding of the key, which
differs from the key when that has more than one byte: the proof of a block's
only transaction, and of the last one of 129, does not verify
(`OwnProofsVerify` states exactly when proofs do).

## Proofs

`HoneypotProofs`, for any accounts, enclaves, bounty, window and bounds, from
`ConstantsOK` and `MachineConstantsOK`:
`TypeCorrect`, `PaidOnce`, `ReviewedApproved`, `ClaimAttested`, `FinalApproval`.
`ApprovedIsReviewed` is not inductive. The inductive invariant `IInv` adds that
owner and bounty are the deployed ones (`Fixed`), that data is stored only with
a request that ends only in an approval, and an approved enclave has no open
request (`DataHasRequest`), that stored genuine reports were issued
(`DataIsIssued`), and that what was reviewed is a genuine report of the right
enclave, is still what the contract stores, and precedes every approval sent
(`ReviewHolds`). `BountyPaidOnce` needs only `Fixed`. The preservation proof has
one step per action.

`MevBundlePoolProofs`, for any threads, calls, bundles, numbers and times, from
`BundlesOK`: `TypeCorrect`, `PoolIsExact`, `LeakPrecedesOffer`. The invariant
`IInv` adds that arrival numbers are not reused and that entries know how many
calls preceded them (`ArrivalsOK`), that everything behind an adding thread's
loop position is written (`LeakProgress`), and the leak property for every
bundle ever added (`LeakedBeforeAdded`). `CancellableIsCurrent` needs a second
invariant, `CInv`, about the goroutines of a call: arrival numbers identify
entries (`Numbered`), candidates are entries that were added, and what the query
answered is, on its way through the channel too, no older than the database was
when the call began (`CallsFresh`).

`ReorgLoopProofs`, for any callers, heads and events, from `ReorgLoopConstants`:
`TypeCorrect`, `RunsExclusive`, `ResetsFollowChain`, `CallsServed`. None of the
last three is inductive. That runs do not overlap rests on the done channels:
they are numbered, `curDone` is the last one given to a run and no later one is
closed (`Channels`), and the run there is has `curDone` and has not closed it
(`RunIsCurrent`). That resets are contiguous is a chain through three places: the
active run starts where the last reset was to end, the pending request where that run will
end, and `loop`'s `head` where the pending request will end (`HeadChain`). Between
a request and the scheduler's reply the head lags, and for that only one
goroutine may be waiting for the reply (`OneReply`). `Served` says for each call
where its request and its event are: still in the queue, in the round of
`nextDone`, in the run whose channel it holds, or done.

`StingProofs`, for any number of runs, any delays, window, gas and
reorganisations, from `StingConstants`: `PollFindsSting`, `EvidenceOfRun`,
`ClaimStands`. The invariant has a part for the chain (`ChainInv`: hashes grow
along the chain, collect transactions carry signed proofs, every claim in every
block stands on the block its proof names) and one for the scripts (`ScriptInv`:
which file or variable holds what of the running run at which command, what
bundles look like, and that the builder has written the sting before it answers).
Claims have to be stated for every block and not only the last one, since a
reorganisation makes an older block the last. What a block does is `ExecAll`, a
recursive function over its transactions; induction over its steps is done once,
over a set of numbers with a least element (`SetInduction`, `ExecAllEffect`), and
everything else uses the effect: a contract appears only by its deployment, and is
claimed only by a collect transaction whose proof holds.

Also there: `BountyEvidenced`, `DonePaid` and `SignedVerified` have
the form `[](reorgs = 0 => ...)`; after a reorganisation they are false
(Findings). `EInv` follows the evidence through the programs: leaked files were
logged at a height the chain has reached (`LeakPast`), the leak precedes the
target once the evidence bundle is sent (`LeakKnown`), receipts and proofs are
about blocks still there, and what was verified stays verified until it is
signed (`Receipts`), signatures are for evidence (`Evidenced`), and a contract
is deployed once (`DeployOnce`), so a claim stays (`Paid`). `BundleExecutable`
is about the first run without reorganisations: a bundle an earlier run left
behind may still be mined between the two readings of the nonce, and then the
evidence does not follow the sting. Its invariant `NInv`: the nonce moves only
at the target block of this run's bundles.

`StingImplemented`: `Spec /\ [](reorgs = 0)`
implements `StingAbs`. A run's stage is the last milestone it has reached (sting
sent, leaked, evidence on the chain, signed, paid). With `FromBundles` (stings
and evidence on the chain came in bundles, an evidence bundle follows its leak)
each milestone implies the one before; then every step is shown to reach at most
one kind of milestone, which is a step of `StingAbs`, or to stutter.

`TxPoolProofs`, for any transactions, chains, balances and limits, from
`TxPoolAssumption`: `TypeCorrect`, `LookupIsExact`, `PendingIsExecutable`,
`PrivateTransactionsStayPrivate`, `FutureNeverChurns`, `LimitsRestored`,
`LocalsAreKept`. Each operator on the pool has a contract that says what it
preserves and what it may change (`Absorbed` for adding, `Trimmed` for
truncation, `Ended` for the end of a run, `ResetDone` for a reset); the lemmas
prove the contracts once and the steps use nothing else.

* `TypeInv` has the types, that pending and queue are disjoint and make up the
  lookup, and that no two transactions share sender and nonce.
* `PrivateInv`: every private transaction that is in the pool or in a waiting
  event is still known as private, or public, or overtaken. Events have to be in
  it since they outlive the transaction's entry in the pool.
* `ExecInv`: the pending nonces of an account begin at the state's nonce
  (`Sound`), and unless a reinjection was partly refused they have no gap and end
  before the virtual nonce (`Whole`); nothing is older than the state. In a reset
  the virtual nonces are forgotten first, so the three parts are re-established
  from the reinjected, promoted and demoted lists and not preserved.
* `LimitsRestored`: capping a list leaves at most the cap; `truncatePending` ends
  at a level at which pending fits or at `AccountSlots`; if `truncateQueue` leaves
  a remote account anything, the first such account in its order shows that all
  that is left fits.

`BundleClientProofs`, for any accounts, senders, tails and blocks, from
`BundleClientAssumption`: `TypeCorrect`, `ReceiptsExplained`. `BInv` says of each
program point what nonces are there: a sender's turn in the rounds of
`generate_signed_txs` is the number of its items before (`Rounds`), a nonce
handed out is the chain's count plus that number unless another transaction of
the sender landed (`Fitting`), the dictionary of `sign_bundle` holds the next one
(`Dictionary`), what is signed is the front of the bundle (`SignedFront`), and at
the target the bundle is included or there is a reason (`IncludedAtTarget`; the
builder's refusal is one, so nothing is assumed of the builder).

`TxProofProofs`, for any blocks of fewer than 256 transactions, from
`TxProofAssumption`: `VerificationSound` and `OwnProofsAccepted`. Soundness has
`VInv`: the node verification looks for is exactly what the block's trie has
below the part of the path walked so far. Keys of a block are prefix-free
(`PrefixFree`), so a leaf whose key is the rest of the path is the transaction at
that index. Completeness has `CInv`: while nodes are collected they are a `Trail`
of nodes from the root down the path of the index, and verification goes down the
same trail, from the node it looks for to the leaf. At each node it must decode
the key, which `decode_compact` does exactly for keys of at most one nibble
(`DecodeFacts`); that all keys on the way are that short except for the only
transaction of a block and the last one of 129 is a fact about the shape of these
tries (`ShortPaths`, `LongPaths`).

`StingNonceProofs`, for any curve, hashes, keys and nonces:
`HonestEvidenceAccepted`. The invariant says that the evidence on the chain is
what signing its own body with the commitment as nonce yields (`SignedWithCommit`);
no arithmetic is needed, only that both programs compute the same, and that the
two dictionaries, with and without a sender, are signed alike (`SignedAlike`).

Only model-checked:

* liveness (`RunEnds`, `CallsResolve`, `FetchersEnd`, `CallsReturn`, `StopEnds`,
  `HeadsServed`, `BundleSettles`): fairness is out of the prover's reach;
* `RecoversSigner`, `ChosenNonceUsed`, `CurveConsistent`, `AcceptedIsCommitted`:
  they rest on square-and-multiply loops, which need induction over data, and on
  the group law, which is nonlinear arithmetic modulo a symbolic prime; the
  provers do neither.

## What is not modelled

* Hash functions and HMAC are ideal or stand-ins; RLP decoding in the contract
  (`RLPReader.sol`) is a vendored library.
* `ra_tls.py` and `geth_init.cpp` are glue to gramine's RA-TLS library without a
  state of their own; the optional coincurve backend is disabled; encrypted key
  files and mnemonics belong to external libraries.
* Extension fields (`polynomial.py`, `finitefield.py`) are used by nothing: the
  commitments compute modulo primes. `elliptic-generalized.py` is not valid
  Python 3, `proveth_original.py` and `headers.py` are not imported.
* Of the flashbots client, statistics, cancellation and private transactions are
  formatting of requests no script makes; the response class of a private
  transaction calls `Web3.sha3`, which the installed web3 does not have.
* The pool's journal file and heartbeats (eviction may hit any account), the
  wait for the builder's certificate, contract compilation, deployment files.
* In `TxPool`: the loop control of `truncatePending` (its result is there) and the
  comparison of a reorganisation's depth with 64 (both outcomes are). In
  `TxProof`: blobs that name an index of 256 or more.
* Private order flow in `Sting` is one transaction per bundle; refills of
  accounts are time passing before the nonce is read.

## Plan

What would say most next is a composition of `ReorgLoop` and `TxPool`, in which
the scheduler of the one decides which requests a run of the other serves.
