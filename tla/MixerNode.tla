----------------------------- MODULE MixerNode -----------------------------
(***************************************************************************)
(* The node of the mixer (mixer_node.rs) with the part of its wallet       *)
(* (wallet_state.rs) and of the accumulator stub (primitives.rs) that it   *)
(* drives: scanning blocks for aggregate nullifiers, handling reorgs, and  *)
(* the check of an incoming payment.                                       *)
(*                                                                         *)
(* Abstractions.  Keys, signatures and commitments are members of small    *)
(* sets.  A nullifier accumulator value (NAV) is [0u8; 32] hashed some     *)
(* number of times (append_set hashes the value and ignores the set), so   *)
(* it is the number of hashings, on the assumption that the iterated hash  *)
(* does not cycle.  sig_comm is left out: commit_retrieve returns the same *)
(* value for every nullifier.                                              *)
(*                                                                         *)
(* The chain is the environment.  `board' is the best chain as the node    *)
(* was shown it: blocks arrive in height order, and only blocks that were  *)
(* connected are disconnected.                                             *)
(***************************************************************************)
EXTENDS Integers, Sequences, FiniteSets

CONSTANTS
  PublicKey,     \* nullifier public keys
  Commitment,    \* addresses and fee-account commitments
  Signature,     \* aggregate signatures
  VerifiedSig,   \* those Signature::agg_verify accepts (the stub: all)
  Block,         \* the blocks the chain may carry
  DigestLen,     \* length of the byte string given to from_digest_slice
  MaxBlocks      \* bound: blocks processed in a behaviour

VARIABLES
  nullifier_kv,             \* published key -> where, and who gets the fee
  nullifier_accum,          \* the ToSAccM: [value, depth]
  nullifier_accum_history,  \* NAVs a payment may be bound to
  chain_height,
  panicked,                 \* some process_block call has panicked
  \* history variables: the chain, not the node
  board,                    \* best chain: [block, set, nav] per height
  orphaned,                 \* keys recorded by a block later disconnected
  refused                   \* blocks disconnected by refused reorg calls

nodeVars == <<nullifier_kv, nullifier_accum, nullifier_accum_history,
              chain_height, panicked, board, orphaned, refused>>

AggregateNullifier == [pks           : Seq(PublicKey),
                       sig           : Signature,
                       fee_acct_comm : Commitment]

ASSUME BlockAssumption == Block \subseteq Seq(AggregateNullifier)
ASSUME SigAssumption == VerifiedSig \subseteq Signature
ASSUME LenAssumption == DigestLen \in Nat
ASSUME BoundAssumption == MaxBlocks \in Nat
\* A key is 32 bytes.
ASSUME KeyAssumption == IsFiniteSet(PublicKey)

ToSAccValue == Nat
KvEntry == [blockchain_loc : Nat, fee_acct_comm : Commitment]

-----------------------------------------------------------------------------
(* process_block: what one block adds to the key-value store.              *)

\* secp256k1's Message::from_digest_slice takes 32 bytes and nothing else.
FromDigestSlice(len) == len = 32

\* Mutant: the verdict is ignored.
AggVerifyIgnored(agg) == TRUE

AggVerify(agg) == agg.sig \in VerifiedSig

\* Positions <<i, j>> of the keys the loop over the block looks at: key j
\* of aggregate i, invalid aggregates being skipped.
Publications(b) ==
  UNION { {i} \X DOMAIN b[i].pks : i \in {x \in DOMAIN b : AggVerify(b[x])} }

PkAt(b, p) == b[p[1]].pks[p[2]]

Before(p, q) == p[1] < q[1] \/ (p[1] = q[1] /\ p[2] < q[2])

\* Mutant: published keys, duplicates included.
AllKeys(kv, b) == { PkAt(b, p) : p \in Publications(b) }

\* Keys not yet in the store; a key that is there is ignored.
NewKeys(kv, b) == { PkAt(b, p) : p \in Publications(b) } \ DOMAIN kv

\* A nullifier takes 64 bytes of a block (ARCHITECTURE.md:42), so no block
\* carries 2^24 of them and the counter stays below the next height.
ASSUME BlockSizeAssumption ==
  \A b \in Block :
    Cardinality({ PkAt(b, p) : p \in Publications(b) }) <= 2^24

\* Where the loop meets pk for the first time; after that it is a duplicate.
FirstPosition(b, pk) ==
  CHOOSE p \in Publications(b) :
    /\ PkAt(b, p) = pk
    /\ \A q \in Publications(b) : Before(q, p) => PkAt(b, q) # pk

\* Mutant: the counter also counts duplicates.
LocIndexOfAll(kv, b, pk) ==
  Cardinality({ p \in Publications(b) : Before(p, FirstPosition(b, pk)) })

\* The loop counter when pk is met: the new keys met before it.
LocIndex(kv, b, pk) ==
  Cardinality({ k \in NewKeys(kv, b) :
                  Before(FirstPosition(b, k), FirstPosition(b, pk)) })

Loc(kv, b, h, pk) == h * 2^24 + LocIndex(kv, b, pk)

\* Mutant: to_be_bytes()[..7].
BlockchainLocSevenBytes(loc) == loc \div 2^8

\* to_be_bytes()[..6]: the six high-order of eight bytes.
BlockchainLoc(loc) == loc \div 2^16

\* Mutant: the entry of a duplicate is overwritten.
RecordLatest(kv, b, h) ==
  [ pk \in DOMAIN kv \cup AllKeys(kv, b) |->
      IF pk \in AllKeys(kv, b)
      THEN [ blockchain_loc |-> BlockchainLoc(Loc(kv, b, h, pk)),
             fee_acct_comm  |-> b[FirstPosition(b, pk)[1]].fee_acct_comm ]
      ELSE kv[pk] ]

\* Mutant: keys are stored before their aggregate is verified.
RecordUnverified(kv, b, h) ==
  LET published == UNION { {b[i].pks[j] : j \in DOMAIN b[i].pks} :
                             i \in DOMAIN b }
      Publisher(pk) == CHOOSE i \in DOMAIN b :
                         \E j \in DOMAIN b[i].pks : b[i].pks[j] = pk
  IN [ pk \in DOMAIN kv \cup published |->
         IF pk \in DOMAIN kv
         THEN kv[pk]
         ELSE [ blockchain_loc |-> BlockchainLoc(h * 2^24),
                fee_acct_comm  |-> b[Publisher(pk)].fee_acct_comm ] ]

RecordNullifiers(kv, b, h) ==
  [ pk \in DOMAIN kv \cup NewKeys(kv, b) |->
      IF pk \in DOMAIN kv
      THEN kv[pk]
      ELSE [ blockchain_loc |-> BlockchainLoc(Loc(kv, b, h, pk)),
             fee_acct_comm  |-> b[FirstPosition(b, pk)[1]].fee_acct_comm ] ]

-----------------------------------------------------------------------------
(* The accumulator and the history of its values.                          *)

AppendSet(accum) == [value |-> accum.value + 1, depth |-> accum.depth + 1]

\* Mutant: one set per reorg, however many blocks it disconnects.
RemoveOneSet(accum, n) ==
  [accum EXCEPT !.depth = IF @ > 0 THEN @ - 1 ELSE 0]

\* Mutant: one turn of the loop too many, and the depth does not saturate.
RemoveSetsInclusive(accum, n) == [accum EXCEPT !.depth = @ - (n + 1)]

\* remove_set, n times; the depth saturates at zero, the value stays.
RemoveSets(accum, n) ==
  [accum EXCEPT !.depth = IF @ >= n THEN @ - n ELSE 0]

RecordNullifierAccum(hist, nav) ==
  IF hist # <<>> /\ hist[Len(hist)] = nav THEN hist ELSE Append(hist, nav)

\* Mutant: drain(0..=keep_from).
TrimInclusive(hist, keep_from) ==
  IF keep_from < Len(hist) THEN SubSeq(hist, keep_from + 2, Len(hist)) ELSE hist

\* drain(0..keep_from), when keep_from is inside the vector.
TrimNullifierHistory(hist, keep_from) ==
  IF keep_from < Len(hist) THEN SubSeq(hist, keep_from + 1, Len(hist)) ELSE hist

CurrentNav == nullifier_accum.value

-----------------------------------------------------------------------------
(* accept_payment: the check of a coin sent to the mixer.                  *)

\* On-chain id: blockchain_loc, then the index of the coin.
OnChainId(coin) == <<coin.blockchain_loc, coin.idx>>

\* Mutant: the coin may have been received before.
PaymentAcceptedAgain(coin, address, received_ids) ==
  /\ coin.address = address
  /\ \E i \in DOMAIN nullifier_accum_history :
       nullifier_accum_history[i] = coin.nullifier_accum
  /\ coin.proof_verifies

PaymentAccepted(coin, address, received_ids) ==
  /\ coin.address = address
  /\ OnChainId(coin) \notin received_ids
  /\ \E i \in DOMAIN nullifier_accum_history :
       nullifier_accum_history[i] = coin.nullifier_accum
  /\ coin.proof_verifies

-----------------------------------------------------------------------------
NodeInit ==
  /\ nullifier_kv = [pk \in {} |-> 0]
  /\ nullifier_accum = [value |-> 0, depth |-> 0]
  /\ nullifier_accum_history = <<0>>
  /\ chain_height = 0
  /\ panicked = FALSE
  /\ board = << >>
  /\ orphaned = {}
  /\ refused = 0

DigestPanics ==
  /\ panicked' = TRUE
  /\ UNCHANGED <<nullifier_kv, nullifier_accum, nullifier_accum_history,
                 chain_height, board, orphaned, refused>>

RecordBlock(b) ==
  LET block_height == Len(board) + 1
      accum == AppendSet(nullifier_accum)
  IN /\ nullifier_accum.value < MaxBlocks
     /\ nullifier_kv' = RecordNullifiers(nullifier_kv, b, block_height)
     /\ nullifier_accum' = accum
     /\ nullifier_accum_history' =
          RecordNullifierAccum(nullifier_accum_history, accum.value)
     /\ chain_height' = block_height
     /\ board' = Append(board, [block |-> b,
                                set   |-> NewKeys(nullifier_kv, b),
                                nav   |-> accum.value])
     /\ UNCHANGED <<panicked, orphaned, refused>>

\* expect() on the digest comes first, before any state is touched.
ProcessBlock(b) ==
  IF FromDigestSlice(DigestLen) THEN RecordBlock(b) ELSE DigestPanics

\* The chain drops its last n blocks.
Disconnect(n) ==
  /\ board' = SubSeq(board, 1, Len(board) - n)
  /\ orphaned' = orphaned \cup
       UNION { board[h].set : h \in (Len(board) - n + 1) .. Len(board) }

HandleReorgTooDeep(n) ==
  /\ n > Len(nullifier_accum_history)
  /\ Disconnect(n)
  /\ refused' = refused + n
  /\ UNCHANGED <<nullifier_kv, nullifier_accum, nullifier_accum_history,
                 chain_height, panicked>>

\* nullifier_kv is not purged and chain_height is not set back.
HandleReorg(n) ==
  /\ n <= Len(nullifier_accum_history)
  /\ nullifier_accum' = RemoveSets(nullifier_accum, n)
  /\ nullifier_accum_history' =
       TrimNullifierHistory(nullifier_accum_history,
                            Len(nullifier_accum_history) - n)
  /\ Disconnect(n)
  /\ UNCHANGED <<nullifier_kv, chain_height, panicked, refused>>

NodeNext ==
  \/ \E b \in Block : ProcessBlock(b)
  \/ \E n \in 0 .. Len(board) : HandleReorg(n)
  \/ \E n \in 0 .. Len(board) : HandleReorgTooDeep(n)

NodeSpec == NodeInit /\ [][NodeNext]_nodeVars

-----------------------------------------------------------------------------
(* Properties.                                                             *)

BoardEntry == [block : Block, set : SUBSET PublicKey, nav : ToSAccValue]

\* Types; a kv entry exists for a subset of the keys.
NodeTypeOK ==
  /\ DOMAIN nullifier_kv \subseteq PublicKey
  /\ nullifier_kv \in [DOMAIN nullifier_kv -> KvEntry]
  /\ nullifier_accum \in [value : ToSAccValue, depth : Nat]
  /\ nullifier_accum_history \in Seq(ToSAccValue)
  /\ chain_height \in Nat
  /\ panicked \in BOOLEAN
  /\ board \in Seq(BoardEntry)
  /\ orphaned \subseteq PublicKey
  /\ refused \in Nat

\* The NAVs a payment may be bound to are consecutive values ending in the
\* current one, whatever blocks and reorgs came: a coin the mixer builds on
\* current_nav is acceptable to a node with the same history
\* (record_nullifier_accum, trim_nullifier_history, current_nav).
HistoryWindow ==
  /\ nullifier_accum_history # <<>>
  /\ \A i \in DOMAIN nullifier_accum_history :
       nullifier_accum_history[i]
         = nullifier_accum.value - Len(nullifier_accum_history) + i

\* Once a key is in the store, no later block changes or removes its entry,
\* however often and by whomever the key is published again ("ignore
\* duplicate PKs", process_block).  What becomes of the entries of a block
\* that is disconnected is the subject of RepublishedAccumulated.
FirstPublicationWins ==
  [][ Len(board') > Len(board) =>
        \A pk \in DOMAIN nullifier_kv :
          /\ pk \in DOMAIN nullifier_kv'
          /\ nullifier_kv'[pk] = nullifier_kv[pk] ]_nodeVars

\* Aggregate i of block b publishes pk, validly.
Carries(b, i, pk) ==
  /\ b[i].sig \in VerifiedSig
  /\ \E j \in DOMAIN b[i].pks : b[i].pks[j] = pk

\* The publisher fee of a key still on the best chain belongs to the first
\* valid aggregate of the chain that published the key, also when the key is
\* repeated within a block, in a later block or after an invalid aggregate.
FeeToFirstPublisher ==
  \A pk \in DOMAIN nullifier_kv \ orphaned :
    \E h \in DOMAIN board : \E i \in DOMAIN board[h].block :
      /\ Carries(board[h].block, i, pk)
      /\ nullifier_kv[pk].fee_acct_comm = board[h].block[i].fee_acct_comm
      /\ \A g \in 1 .. h : \A x \in DOMAIN board[g].block :
           Carries(board[g].block, x, pk) => (g = h /\ x >= i)

\* Every key validly published on the best chain is in the set accumulated
\* for exactly one block of it, unless a disconnected block recorded it; and
\* only keys a block publishes are accumulated for it.
AccumulatedOnce ==
  /\ \A h \in DOMAIN board : \A i \in DOMAIN board[h].block :
       \A pk \in PublicKey :
         Carries(board[h].block, i, pk) =>
           \/ pk \in orphaned
           \/ \E g \in 1 .. h : pk \in board[g].set
  /\ \A g, h \in DOMAIN board :
       g # h => board[g].set \cap board[h].set = {}
  /\ \A h \in DOMAIN board : \A pk \in board[h].set :
       \E i \in DOMAIN board[h].block : Carries(board[h].block, i, pk)

\* A key accumulated for the block at height h is located in that block by
\* the store: blockchain_loc keeps eight bits below the height.
KvLocatesBlock ==
  \A h \in DOMAIN board : \A pk \in board[h].set :
    /\ pk \in DOMAIN nullifier_kv
    /\ nullifier_kv[pk].blockchain_loc \div 2^8 = h

\* The store holds nothing but what some block recorded.
KvFromBlocks ==
  \A pk \in DOMAIN nullifier_kv :
    pk \in orphaned \/ \E h \in DOMAIN board : pk \in board[h].set

\* One set is accumulated per block of the best chain, plus one for each
\* block of a reorg that was refused: append_set and remove_set pair up and
\* the saturating decrement never saturates.
DepthTracksChain == nullifier_accum.depth = Len(board) + refused

\* With a digest that is not of the length secp256k1 takes, no block is ever
\* processed and, whatever the mixer does, the node stays as it was created.
GenesisOnly ==
  DigestLen # 32 =>
    /\ nullifier_kv = [pk \in {} |-> 0]
    /\ nullifier_accum = [value |-> 0, depth |-> 0]
    /\ nullifier_accum_history = <<0>>
    /\ chain_height = 0

\* What the code or its documents say and the code does not do.

\* mixer_node.rs:62: .expect("valid message").
DigestIsValid == ~panicked

\* ARCHITECTURE.md:177, "Trim nullifier_accum_history" of a disconnected
\* block: every NAV a payment may be bound to is one of the best chain.
HistoryOnBestChain ==
  \A i \in DOMAIN nullifier_accum_history :
    \/ nullifier_accum_history[i] = 0
    \/ \E h \in DOMAIN board : board[h].nav = nullifier_accum_history[i]

\* ARCHITECTURE.md:178, of a reorg: "Purge affected nullifier_kv entries", so
\* that a key is new again once the block that recorded it is gone: a key
\* validly published on the best chain is accumulated for a block of it.
\* This is AccumulatedOnce without its exception (mixer_node.rs:85, :186).
RepublishedAccumulated ==
  \A h \in DOMAIN board : \A i \in DOMAIN board[h].block :
    \A pk \in PublicKey :
      Carries(board[h].block, i, pk) => \E g \in 1 .. h : pk \in board[g].set

\* protocol.rs:37, "21-bit block height + 22-bit index within block": two
\* nullifiers have two locations.
LocationsDistinct ==
  \A j, k \in DOMAIN nullifier_kv :
    nullifier_kv[j].blockchain_loc = nullifier_kv[k].blockchain_loc => j = k
=============================================================================
