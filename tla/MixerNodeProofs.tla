--------------------------- MODULE MixerNodeProofs ---------------------------
(***************************************************************************)
(* Proofs about MixerNode, for every set of keys, blocks and commitments,  *)
(* every digest length and every bound on the number of blocks; at the     *)
(* end, that its set-based definitions are what the loop of ScanLoop does. *)
(***************************************************************************)
EXTENDS ScanLoop, SumTheorems

-----------------------------------------------------------------------------
(* The order of the keys of a block.                                       *)

\* A set of numbers has a least one.
LEMMA NatMinimum ==
  ASSUME NEW S \in SUBSET Nat, S # {}
  PROVE  \E m \in S : \A n \in S : m <= n
<1>1. IsWellFoundedOn(OpToRel(<, Nat), Nat)
  BY NatLessThanWellFounded
<1>2. PICK m \in S : \A n \in S : ~(<<n, m>> \in OpToRel(<, Nat))
  BY <1>1, WFMin
<1>3. \A n \in S : ~(n < m)
  BY <1>2 DEF OpToRel
<1> QED
  BY <1>3

\* What it is to be a position the loop looks at.
LEMMA PublicationPositions ==
  ASSUME NEW b \in Block, NEW p
  PROVE  p \in Publications(b) <=>
           \E i \in DOMAIN b : /\ AggVerify(b[i])
                               /\ \E j \in DOMAIN b[i].pks : p = <<i, j>>
BY DEF Publications

\* The parts of a block have their types.
LEMMA BlockTypes ==
  ASSUME NEW b \in Block
  PROVE  /\ DOMAIN b \subseteq Nat
         /\ \A i \in DOMAIN b :
              /\ b[i].fee_acct_comm \in Commitment
              /\ DOMAIN b[i].pks \subseteq Nat
              /\ \A j \in DOMAIN b[i].pks : b[i].pks[j] \in PublicKey
<1>1. b \in Seq(AggregateNullifier)
  BY BlockAssumption
<1>2. DOMAIN b = 1 .. Len(b) /\ Len(b) \in Nat
  BY <1>1
<1>3. ASSUME NEW i \in DOMAIN b
      PROVE  b[i] \in AggregateNullifier
  BY <1>1, <1>2
<1>4. ASSUME NEW i \in DOMAIN b
      PROVE  /\ b[i].fee_acct_comm \in Commitment
             /\ b[i].pks \in Seq(PublicKey)
  BY <1>3 DEF AggregateNullifier
<1>5. ASSUME NEW s \in Seq(PublicKey)
      PROVE  /\ DOMAIN s \subseteq Nat
             /\ \A j \in DOMAIN s : s[j] \in PublicKey
  OBVIOUS
<1> QED
  BY <1>2, <1>4, <1>5

\* A key the loop meets is met somewhere for the first time.
LEMMA FirstPositionExists ==
  ASSUME NEW b \in Block, NEW p0 \in Publications(b)
  PROVE  LET p == FirstPosition(b, PkAt(b, p0))
         IN /\ p \in Publications(b)
            /\ PkAt(b, p) = PkAt(b, p0)
            /\ \A q \in Publications(b) :
                 Before(q, p) => PkAt(b, q) # PkAt(b, p0)
<1> DEFINE pk == PkAt(b, p0)
           I == { i \in DOMAIN b : \E q \in Publications(b) :
                                     q[1] = i /\ PkAt(b, q) = pk }
<1> HIDE DEF pk
<1>1. \A q \in Publications(b) : q = <<q[1], q[2]>> /\ q[1] \in DOMAIN b
                                 /\ q[2] \in DOMAIN b[q[1]].pks
  BY PublicationPositions
<1>2. I \in SUBSET Nat /\ I # {}
  BY <1>1, BlockTypes DEF pk
<1>3. PICK i \in I : \A n \in I : i <= n
  <2> HIDE DEF I
  <2> QED BY <1>2, NatMinimum
<1> DEFINE J == { j \in DOMAIN b[i].pks : /\ <<i, j>> \in Publications(b)
                                          /\ PkAt(b, <<i, j>>) = pk }
<1>4. J \in SUBSET Nat /\ J # {}
  BY <1>1, <1>3, BlockTypes
<1>5. PICK j \in J : \A n \in J : j <= n
  <2> HIDE DEF J
  <2> QED BY <1>4, NatMinimum
<1>6. ASSUME NEW q \in Publications(b), Before(q, <<i, j>>), PkAt(b, q) = pk
      PROVE  FALSE
  <2>1. q[1] \in I
    BY <1>1, <1>6
  <2>2. CASE q[1] < i
    BY <2>1, <2>2, <1>2, <1>3
  <2>3. CASE q[1] = i /\ q[2] < j
    <3>1. q[2] \in J
      BY <1>1, <1>6, <2>3
    <3> QED
      BY <3>1, <2>3, <1>4, <1>5
  <2> QED
    BY <1>6, <2>2, <2>3 DEF Before
<1>7. /\ <<i, j>> \in Publications(b)
      /\ PkAt(b, <<i, j>>) = pk
      /\ \A q \in Publications(b) : Before(q, <<i, j>>) => PkAt(b, q) # pk
  BY <1>5, <1>6
<1> QED
  BY <1>7 DEF FirstPosition, pk

\* The keys a block adds are keys, finitely many, fewer than 2^24 positions
\* before any of them.
LEMMA NewKeysTypes ==
  ASSUME NEW b \in Block, NEW kv, NEW pk \in NewKeys(kv, b)
  PROVE  /\ NewKeys(kv, b) \subseteq PublicKey
         /\ FirstPosition(b, pk)[1] \in DOMAIN b
         /\ LocIndex(kv, b, pk) \in 0 .. 2^24 - 1
<1> DEFINE P == { PkAt(b, p) : p \in Publications(b) }
           N == NewKeys(kv, b)
           E == { k \in N : Before(FirstPosition(b, k), FirstPosition(b, pk)) }
<1>1. P \subseteq PublicKey
  BY PublicationPositions, BlockTypes DEF PkAt
<1>2. N \subseteq P
  BY DEF NewKeys
<1>3. PICK p0 \in Publications(b) : pk = PkAt(b, p0)
  BY <1>2
<1>4. FirstPosition(b, pk) \in Publications(b)
  BY <1>3, FirstPositionExists
<1>5. /\ FirstPosition(b, pk)[1] \in DOMAIN b
      /\ FirstPosition(b, pk)[1] \in Nat /\ FirstPosition(b, pk)[2] \in Nat
  BY <1>4, PublicationPositions, BlockTypes
<1>6. pk \in P /\ pk \notin E
  BY <1>2, <1>5 DEF Before
<1>7. IsFiniteSet(P) /\ Cardinality(P) <= 2^24 /\ Cardinality(P) \in Nat
  <2>1. IsFiniteSet(P)
    BY <1>1, KeyAssumption, FS_Subset
  <2> QED
    BY <2>1, FS_CardinalityType, BlockSizeAssumption
<1>8. E \in SUBSET P
  BY <1>2
<1>9. /\ IsFiniteSet(E)
      /\ Cardinality(E) <= Cardinality(P)
      /\ Cardinality(E) # Cardinality(P)
  <2> HIDE DEF E, P
  <2> QED BY <1>6, <1>7, <1>8, FS_Subset
<1>10. Cardinality(E) \in Nat
  BY <1>9, FS_CardinalityType
<1>11. LocIndex(kv, b, pk) = Cardinality(E)
  BY DEF LocIndex
<1>12. LocIndex(kv, b, pk) \in 0 .. 2^24 - 1
  <2> HIDE DEF E, P
  <2> QED BY <1>7, <1>9, <1>10, <1>11
<1> QED
  BY <1>1, <1>2, <1>5, <1>12

-----------------------------------------------------------------------------
(* What the steps do to the pieces of the state.                           *)

\* The height can be read back from a location as long as the counter stays
\* below 2^24.
LEMMA LocationHeight ==
  ASSUME NEW h \in Nat, NEW x \in 0 .. 2^24 - 1
  PROVE  /\ (h * 2^24 + x) \div 2^16 \in Nat
         /\ ((h * 2^24 + x) \div 2^16) \div 2^8 = h
<1>1. 2^24 = 16777216
  BY SMT
<1>2. 2^16 = 65536 /\ 2^8 = 256
  BY SMT
<1>3. x \in Nat /\ x < 16777216
  BY <1>1, SMT
<1>4. ASSUME NEW y \in Nat, y < 16777216
      PROVE  /\ (h * 16777216 + y) \div 65536 \in Nat
             /\ ((h * 16777216 + y) \div 65536) \div 256 = h
  BY <1>4, SMT
<1> QED
  BY <1>1, <1>2, <1>3, <1>4, SMT

\* The store new is kv with the new keys of block b at height h.
Extends(new, kv, b, h) ==
  /\ DOMAIN new = DOMAIN kv \cup NewKeys(kv, b)
  /\ DOMAIN new \subseteq PublicKey
  /\ new \in [DOMAIN new -> KvEntry]
  /\ \A pk \in DOMAIN kv : new[pk] = kv[pk]
  /\ \A pk \in NewKeys(kv, b) :
       /\ new[pk].blockchain_loc \div 2^8 = h
       /\ new[pk].fee_acct_comm = b[FirstPosition(b, pk)[1]].fee_acct_comm

\* What process_block stores extends what was stored.
LEMMA RecordNullifiersExtends ==
  ASSUME NEW b \in Block, NEW h \in Nat, NEW kv, DOMAIN kv \subseteq PublicKey,
         kv \in [DOMAIN kv -> KvEntry]
  PROVE  Extends(RecordNullifiers(kv, b, h), kv, b, h)
<1> DEFINE new == RecordNullifiers(kv, b, h)
           D == DOMAIN kv \cup NewKeys(kv, b)
           entry(pk) == [ blockchain_loc |-> BlockchainLoc(Loc(kv, b, h, pk)),
                          fee_acct_comm |-> b[FirstPosition(b, pk)[1]].fee_acct_comm ]
<1>1. new = [pk \in D |-> IF pk \in DOMAIN kv THEN kv[pk] ELSE entry(pk)]
  BY DEF RecordNullifiers
<1>2. ASSUME NEW pk \in NewKeys(kv, b)
      PROVE  /\ pk \in PublicKey /\ pk \notin DOMAIN kv
             /\ entry(pk) \in KvEntry
             /\ entry(pk).blockchain_loc \div 2^8 = h
             /\ entry(pk).fee_acct_comm
                  = b[FirstPosition(b, pk)[1]].fee_acct_comm
  <2>1. /\ pk \in PublicKey
        /\ FirstPosition(b, pk)[1] \in DOMAIN b
        /\ LocIndex(kv, b, pk) \in 0 .. 2^24 - 1
    BY NewKeysTypes
  <2>2. pk \notin DOMAIN kv
    BY DEF NewKeys
  <2>3. b[FirstPosition(b, pk)[1]].fee_acct_comm \in Commitment
    BY <2>1, BlockTypes
  <2>4. /\ BlockchainLoc(Loc(kv, b, h, pk)) \in Nat
        /\ BlockchainLoc(Loc(kv, b, h, pk)) \div 2^8 = h
    BY <2>1, LocationHeight DEF BlockchainLoc, Loc
  <2> QED
    BY <2>1, <2>2, <2>3, <2>4 DEF KvEntry
<1> HIDE DEF entry
<1>3. \A pk \in DOMAIN kv : kv[pk] \in KvEntry
  OBVIOUS
<1>4. DOMAIN new = D /\ \A pk \in D : new[pk] = IF pk \in DOMAIN kv THEN kv[pk] ELSE entry(pk)
  BY <1>1
<1>5. \A pk \in D : new[pk] \in KvEntry
  BY <1>2, <1>3, <1>4
<1>6. new \in [D -> KvEntry]
  BY <1>1, <1>5
<1> HIDE DEF new
<1>7. DOMAIN new \subseteq PublicKey
  BY <1>2, <1>4
<1> QED
  <2>1. Extends(new, kv, b, h)
    BY <1>2, <1>4, <1>6, <1>7 DEF Extends
  <2> QED
    BY <2>1 DEF new

\* Trimming keeps a suffix: the last Len(hist) - k entries, or all of them.
LEMMA TrimTypes ==
  ASSUME NEW hist \in Seq(ToSAccValue), NEW k \in Nat
  PROVE  LET t == TrimNullifierHistory(hist, k)
         IN /\ t \in Seq(ToSAccValue)
            /\ k < Len(hist) => /\ Len(t) = Len(hist) - k
                                /\ \A i \in 1 .. Len(t) : t[i] = hist[k + i]
            /\ k >= Len(hist) => t = hist
<1>1. CASE k < Len(hist)
  <2>1. k + 1 \in 1 .. Len(hist) + 1 /\ Len(hist) \in Nat
    BY <1>1
  <2>2. \A i \in (k + 1) .. Len(hist) : hist[i] \in ToSAccValue
    OBVIOUS
  <2>3. SubSeq(hist, k + 1, Len(hist)) \in Seq(ToSAccValue)
    BY <2>1, <2>2
  <2>4. Len(SubSeq(hist, k + 1, Len(hist))) = Len(hist) - k
    BY <2>1, <1>1
  <2>5. \A i \in 1 .. Len(hist) - k :
          SubSeq(hist, k + 1, Len(hist))[i] = hist[k + i]
    BY <2>1, <1>1
  <2> QED
    BY <1>1, <2>3, <2>4, <2>5 DEF TrimNullifierHistory
<1>2. CASE k >= Len(hist)
  BY <1>2 DEF TrimNullifierHistory
<1> QED
  BY <1>1, <1>2

\* Disconnecting n blocks leaves the lower ones as they are, and the keys
\* the others recorded are orphaned.
LEMMA DisconnectEffect ==
  ASSUME NodeTypeOK, NEW n \in 0 .. Len(board), Disconnect(n)
  PROVE  /\ board' \in Seq(BoardEntry)
         /\ Len(board') = Len(board) - n
         /\ DOMAIN board' = 1 .. Len(board) - n
         /\ \A h \in DOMAIN board' : h \in DOMAIN board /\ board'[h] = board[h]
         /\ orphaned \subseteq orphaned'
         /\ orphaned' \subseteq PublicKey
         /\ \A h \in DOMAIN board \ DOMAIN board' : board[h].set \subseteq orphaned'
<1>1. board \in Seq(BoardEntry) /\ Len(board) \in Nat
  BY DEF NodeTypeOK
<1>2. board' = SubSeq(board, 1, Len(board) - n)
  BY DEF Disconnect
<1>3. \A h \in DOMAIN board : board[h] \in BoardEntry
  BY <1>1
<1>4. /\ board' \in Seq(BoardEntry)
      /\ Len(board') = Len(board) - n
      /\ DOMAIN board' = 1 .. Len(board) - n
      /\ \A h \in 1 .. Len(board) - n : board'[h] = board[h]
  BY <1>1, <1>2, <1>3
<1>5. \A h \in DOMAIN board : board[h].set \subseteq PublicKey
  BY <1>3 DEF BoardEntry
<1>6. orphaned' = orphaned \cup
       UNION { board[h].set : h \in (Len(board) - n + 1) .. Len(board) }
  BY DEF Disconnect
<1>7. orphaned' \subseteq PublicKey
  BY <1>1, <1>5, <1>6 DEF NodeTypeOK
<1>8. \A h \in DOMAIN board \ DOMAIN board' : h \in (Len(board) - n + 1) .. Len(board)
  BY <1>1, <1>4
<1> QED
  BY <1>1, <1>4, <1>6, <1>7, <1>8

-----------------------------------------------------------------------------
(* Type correctness.                                                       *)

\* The node starts well typed.
LEMMA NodeTypeInit == NodeInit => NodeTypeOK
<1> SUFFICES ASSUME NodeInit PROVE NodeTypeOK
  OBVIOUS
<1>1. /\ DOMAIN nullifier_kv = {}
      /\ nullifier_kv \in [DOMAIN nullifier_kv -> KvEntry]
  BY DEF NodeInit
<1>2. nullifier_accum \in [value : ToSAccValue, depth : Nat]
  BY DEF NodeInit, ToSAccValue
<1>3. nullifier_accum_history \in Seq(ToSAccValue)
  BY DEF NodeInit, ToSAccValue
<1>4. board \in Seq(BoardEntry) /\ orphaned = {} /\ refused = 0
      /\ chain_height = 0 /\ panicked = FALSE
  BY DEF NodeInit
<1> QED
  BY <1>1, <1>2, <1>3, <1>4 DEF NodeTypeOK

\* What RecordBlock does to each variable, in the form the proofs use.
LEMMA RecordBlockEffect ==
  ASSUME NodeTypeOK, NEW b \in Block, RecordBlock(b)
  PROVE  /\ DOMAIN nullifier_kv' = DOMAIN nullifier_kv \cup NewKeys(nullifier_kv, b)
         /\ DOMAIN nullifier_kv' \subseteq PublicKey
         /\ nullifier_kv' \in [DOMAIN nullifier_kv' -> KvEntry]
         /\ \A pk \in DOMAIN nullifier_kv : nullifier_kv'[pk] = nullifier_kv[pk]
         /\ \A pk \in NewKeys(nullifier_kv, b) :
              /\ nullifier_kv'[pk].blockchain_loc \div 2^8 = Len(board) + 1
              /\ nullifier_kv'[pk].fee_acct_comm
                   = b[FirstPosition(b, pk)[1]].fee_acct_comm
         /\ board' \in Seq(BoardEntry)
         /\ Len(board') = Len(board) + 1
         /\ DOMAIN board' = 1 .. Len(board) + 1
         /\ DOMAIN board = 1 .. Len(board)
         /\ \A h \in DOMAIN board : board'[h] = board[h]
         /\ board'[Len(board) + 1].block = b
         /\ board'[Len(board) + 1].set = NewKeys(nullifier_kv, b)
         /\ orphaned' = orphaned
<1>1. Len(board) + 1 \in Nat /\ board \in Seq(BoardEntry) /\ Len(board) \in Nat
  BY DEF NodeTypeOK
<1>2. nullifier_kv' = RecordNullifiers(nullifier_kv, b, Len(board) + 1)
  BY DEF RecordBlock
<1>3. DOMAIN nullifier_kv \subseteq PublicKey
      /\ nullifier_kv \in [DOMAIN nullifier_kv -> KvEntry]
  BY DEF NodeTypeOK
<1> DEFINE e == [block |-> b, set |-> NewKeys(nullifier_kv, b),
                 nav |-> nullifier_accum.value + 1]
<1>4. board' = Append(board, e)
  BY DEF RecordBlock, AppendSet
<1>5. e \in BoardEntry
  <2>1. NewKeys(nullifier_kv, b) \subseteq PublicKey
    BY NewKeysTypes
  <2>2. nullifier_accum.value + 1 \in ToSAccValue
    BY DEF NodeTypeOK, ToSAccValue
  <2> QED
    BY <2>1, <2>2 DEF BoardEntry
<1>6. e.block = b /\ e.set = NewKeys(nullifier_kv, b)
  OBVIOUS
<1> HIDE DEF e
<1>7. /\ board' \in Seq(BoardEntry)
      /\ Len(board') = Len(board) + 1
      /\ DOMAIN board' = 1 .. Len(board) + 1
      /\ DOMAIN board = 1 .. Len(board)
      /\ \A h \in DOMAIN board : board'[h] = board[h]
      /\ board'[Len(board) + 1] = e
  BY <1>1, <1>4, <1>5
<1>8. orphaned' = orphaned
  BY DEF RecordBlock
<1>9. /\ DOMAIN nullifier_kv' = DOMAIN nullifier_kv \cup NewKeys(nullifier_kv, b)
      /\ DOMAIN nullifier_kv' \subseteq PublicKey
      /\ nullifier_kv' \in [DOMAIN nullifier_kv' -> KvEntry]
      /\ \A pk \in DOMAIN nullifier_kv : nullifier_kv'[pk] = nullifier_kv[pk]
      /\ \A pk \in NewKeys(nullifier_kv, b) :
           /\ nullifier_kv'[pk].blockchain_loc \div 2^8 = Len(board) + 1
           /\ nullifier_kv'[pk].fee_acct_comm
                = b[FirstPosition(b, pk)[1]].fee_acct_comm
  <2>1. Extends(RecordNullifiers(nullifier_kv, b, Len(board) + 1),
                nullifier_kv, b, Len(board) + 1)
    BY <1>1, <1>3, RecordNullifiersExtends
  <2>2. Extends(nullifier_kv', nullifier_kv, b, Len(board) + 1)
    BY <1>2, <2>1
  <2> QED
    BY <2>2 DEF Extends
<1>10. /\ board'[Len(board) + 1].block = b
       /\ board'[Len(board) + 1].set = NewKeys(nullifier_kv, b)
  BY <1>6, <1>7
<1> QED
  BY <1>7, <1>8, <1>9, <1>10

\* Every step keeps the types.
LEMMA NodeTypeStep == NodeTypeOK /\ [NodeNext]_nodeVars => NodeTypeOK'
<1> SUFFICES ASSUME NodeTypeOK, [NodeNext]_nodeVars
             PROVE  NodeTypeOK'
  OBVIOUS
<1>1. ASSUME NEW b \in Block, RecordBlock(b)
      PROVE  NodeTypeOK'
  <2>1. nullifier_accum' \in [value : ToSAccValue, depth : Nat]
    BY <1>1 DEF RecordBlock, AppendSet, NodeTypeOK, ToSAccValue
  <2>2. nullifier_accum_history' \in Seq(ToSAccValue)
    <3>1. AppendSet(nullifier_accum).value \in ToSAccValue
      BY DEF AppendSet, NodeTypeOK, ToSAccValue
    <3> QED
      BY <1>1, <3>1 DEF RecordBlock, RecordNullifierAccum, NodeTypeOK
  <2>3. chain_height' \in Nat
    BY <1>1 DEF RecordBlock, NodeTypeOK
  <2> QED
    BY <1>1, <2>1, <2>2, <2>3, RecordBlockEffect DEF RecordBlock, NodeTypeOK
<1>2. ASSUME DigestPanics
      PROVE  NodeTypeOK'
  BY <1>2 DEF DigestPanics, NodeTypeOK
<1>3. ASSUME NEW n \in 0 .. Len(board), HandleReorg(n)
      PROVE  NodeTypeOK'
  <2>1. Disconnect(n) /\ n \in Nat /\ n <= Len(nullifier_accum_history)
    BY <1>3 DEF HandleReorg, NodeTypeOK
  <2>2. nullifier_accum' \in [value : ToSAccValue, depth : Nat]
    BY <1>3, <2>1, SMTT(20) DEF HandleReorg, RemoveSets, NodeTypeOK, ToSAccValue
  <2>3. nullifier_accum_history' \in Seq(ToSAccValue)
    <3>1. nullifier_accum_history \in Seq(ToSAccValue)
          /\ Len(nullifier_accum_history) - n \in Nat
      BY <2>1 DEF NodeTypeOK
    <3> QED
      BY <1>3, <3>1, TrimTypes DEF HandleReorg
  <2> QED
    BY <1>3, <2>1, <2>2, <2>3, DisconnectEffect DEF HandleReorg, NodeTypeOK
<1>4. ASSUME NEW n \in 0 .. Len(board), HandleReorgTooDeep(n)
      PROVE  NodeTypeOK'
  <2>1. Disconnect(n) /\ refused' \in Nat
    BY <1>4 DEF HandleReorgTooDeep, NodeTypeOK
  <2> QED
    BY <1>4, <2>1, DisconnectEffect DEF HandleReorgTooDeep, NodeTypeOK
<1>5. CASE UNCHANGED nodeVars
  BY <1>5 DEF nodeVars, NodeTypeOK
<1> QED
  BY <1>1, <1>2, <1>3, <1>4, <1>5 DEF NodeNext, ProcessBlock

\* Type correctness: whatever blocks and reorgs come, the store is a map from
\* keys to entries and the history is a sequence of accumulator values.
THEOREM NodeTypeCorrect == NodeSpec => []NodeTypeOK
BY NodeTypeInit, NodeTypeStep, PTL DEF NodeSpec

-----------------------------------------------------------------------------
(* The accumulator and its history.                                        *)

\* The tracked NAVs are a window of consecutive values that ends in the
\* current one (record_nullifier_accum, trim_nullifier_history).
THEOREM HistoryWindowHolds == NodeSpec => []HistoryWindow
<1>1. NodeInit => HistoryWindow
  <2> SUFFICES ASSUME NodeInit PROVE HistoryWindow
    OBVIOUS
  <2>1. nullifier_accum.value = 0 /\ nullifier_accum_history = <<0>>
    BY DEF NodeInit
  <2> QED
    BY <2>1 DEF HistoryWindow
<1>2. NodeTypeOK /\ HistoryWindow /\ [NodeNext]_nodeVars => HistoryWindow'
  <2> SUFFICES ASSUME NodeTypeOK, HistoryWindow, [NodeNext]_nodeVars
               PROVE  HistoryWindow'
    OBVIOUS
  <2> DEFINE hist == nullifier_accum_history
  <2>0. /\ hist \in Seq(Nat) /\ Len(hist) \in Nat \ {0}
        /\ DOMAIN hist = 1 .. Len(hist)
        /\ nullifier_accum.value \in Nat
        /\ hist[Len(hist)] = nullifier_accum.value
    BY DEF NodeTypeOK, HistoryWindow, ToSAccValue
  <2>1. ASSUME NEW b \in Block, RecordBlock(b)
        PROVE  HistoryWindow'
    <3>1. /\ nullifier_accum'.value = nullifier_accum.value + 1
          /\ hist' = Append(hist, nullifier_accum.value + 1)
      BY <2>0, <2>1 DEF RecordBlock, AppendSet, RecordNullifierAccum
    <3>2. /\ Len(hist') = Len(hist) + 1 /\ DOMAIN hist' = 1 .. Len(hist) + 1
          /\ \A i \in 1 .. Len(hist) : hist'[i] = hist[i]
          /\ hist'[Len(hist) + 1] = nullifier_accum.value + 1
      BY <2>0, <3>1
    <3>3. ASSUME NEW i \in DOMAIN hist'
          PROVE  hist'[i] = nullifier_accum'.value - Len(hist') + i
      <4>1. \A j \in 1 .. Len(hist) :
              hist[j] = nullifier_accum.value - Len(hist) + j
        BY <2>0 DEF HistoryWindow
      <4>2. i \in 1 .. Len(hist) \/ i = Len(hist) + 1
        BY <2>0, <3>2
      <4>3. CASE i \in 1 .. Len(hist)
        <5>1. hist'[i] = nullifier_accum.value - Len(hist) + i
          BY <3>2, <4>1, <4>3
        <5>2. nullifier_accum'.value - Len(hist')
                = nullifier_accum.value - Len(hist)
          BY <2>0, <3>1, <3>2
        <5> QED
          BY <5>1, <5>2
      <4>4. CASE i = Len(hist) + 1
        BY <2>0, <3>1, <3>2, <4>4
      <4> QED
        BY <4>2, <4>3, <4>4
    <3> QED
      BY <2>0, <3>2, <3>3 DEF HistoryWindow
  <2>2. ASSUME NEW n \in 0 .. Len(board), HandleReorg(n)
        PROVE  HistoryWindow'
    <3>1. n \in Nat /\ n <= Len(hist) /\ Len(hist) - n \in Nat
      BY <2>0, <2>2 DEF HandleReorg, NodeTypeOK
    <3>2. nullifier_accum'.value = nullifier_accum.value
      BY <2>2 DEF HandleReorg, RemoveSets, NodeTypeOK
    <3>3. hist' = TrimNullifierHistory(hist, Len(hist) - n)
      BY <2>2 DEF HandleReorg
    <3>4. CASE n = 0
      <4>1. hist' = hist
        BY <2>0, <3>3, <3>4 DEF TrimNullifierHistory
      <4> QED
        BY <3>2, <4>1 DEF HistoryWindow
    <3>5. CASE n > 0
      <4> DEFINE k == Len(hist) - n
      <4>1. k \in Nat /\ k < Len(hist) /\ Len(hist) - k = n
        BY <2>0, <3>1, <3>5
      <4>2. hist \in Seq(ToSAccValue) /\ hist' = TrimNullifierHistory(hist, k)
        BY <3>3 DEF NodeTypeOK
      <4> HIDE DEF k
      <4>3. /\ hist' \in Seq(ToSAccValue) /\ Len(hist') = n
            /\ \A i \in 1 .. n : hist'[i] = hist[k + i]
        BY <4>1, <4>2, TrimTypes
      <4>4. ASSUME NEW i \in 1 .. n
            PROVE  hist'[i] = nullifier_accum.value - n + i
        <5>1. k + i \in DOMAIN hist /\ k + i = Len(hist) - n + i
          <6>1. DOMAIN hist = 1 .. Len(hist)
            BY <4>2
          <6>2. k = Len(hist) - n /\ k \in Nat /\ n \in Nat /\ Len(hist) \in Nat
            BY <3>1, <4>1, <4>2
          <6>3. k + i \in 1 .. Len(hist)
            BY <6>2
          <6> QED
            BY <6>1, <6>2, <6>3
        <5>2. hist[k + i] = nullifier_accum.value - Len(hist) + (k + i)
          BY <5>1 DEF HistoryWindow
        <5> QED
          BY <2>0, <3>1, <4>3, <5>1, <5>2
      <4>5. DOMAIN hist' = 1 .. n /\ hist' # << >>
        BY <3>1, <3>5, <4>3
      <4> QED
        BY <3>2, <4>3, <4>4, <4>5 DEF HistoryWindow
    <3> QED
      BY <3>1, <3>4, <3>5
  <2>3. CASE DigestPanics
    BY <2>3 DEF DigestPanics, HistoryWindow
  <2>4. CASE \E n \in 0 .. Len(board) : HandleReorgTooDeep(n)
    BY <2>4 DEF HandleReorgTooDeep, HistoryWindow
  <2>5. CASE UNCHANGED nodeVars
    BY <2>5 DEF nodeVars, HistoryWindow
  <2> QED
    BY <2>1, <2>2, <2>3, <2>4, <2>5 DEF NodeNext, ProcessBlock
<1> QED
  BY <1>1, <1>2, NodeTypeCorrect, PTL DEF NodeSpec

\* Every remove_set undoes an append_set: the depth never saturates.
THEOREM DepthTracksChainHolds == NodeSpec => []DepthTracksChain
<1>1. NodeInit => DepthTracksChain
  BY DEF NodeInit, DepthTracksChain
<1>2. NodeTypeOK /\ DepthTracksChain /\ [NodeNext]_nodeVars => DepthTracksChain'
  <2> SUFFICES ASSUME NodeTypeOK, DepthTracksChain, [NodeNext]_nodeVars
               PROVE  DepthTracksChain'
    OBVIOUS
  <2>0. /\ Len(board) \in Nat /\ refused \in Nat
        /\ nullifier_accum \in [value : ToSAccValue, depth : Nat]
    BY DEF NodeTypeOK
  <2>1. ASSUME NEW b \in Block, RecordBlock(b)
        PROVE  DepthTracksChain'
    <3>1. nullifier_accum'.depth = nullifier_accum.depth + 1 /\ refused' = refused
      BY <2>1 DEF RecordBlock, AppendSet
    <3>2. Len(board') = Len(board) + 1
      BY <2>1, RecordBlockEffect
    <3> QED
      BY <2>0, <3>1, <3>2 DEF DepthTracksChain
  <2>2. ASSUME NEW n \in 0 .. Len(board), HandleReorg(n)
        PROVE  DepthTracksChain'
    <3>1. Disconnect(n) /\ refused' = refused
          /\ nullifier_accum'.depth = IF nullifier_accum.depth >= n
                                      THEN nullifier_accum.depth - n ELSE 0
      BY <2>0, <2>2 DEF HandleReorg, RemoveSets
    <3>2. Len(board') = Len(board) - n
      BY <3>1, DisconnectEffect
    <3> QED
      BY <2>0, <3>1, <3>2 DEF DepthTracksChain
  <2>3. ASSUME NEW n \in 0 .. Len(board), HandleReorgTooDeep(n)
        PROVE  DepthTracksChain'
    <3>1. Disconnect(n) /\ refused' = refused + n
          /\ nullifier_accum' = nullifier_accum
      BY <2>3 DEF HandleReorgTooDeep
    <3>2. Len(board') = Len(board) - n
      BY <3>1, DisconnectEffect
    <3> QED
      BY <2>0, <3>1, <3>2 DEF DepthTracksChain
  <2>4. CASE DigestPanics
    BY <2>4 DEF DigestPanics, DepthTracksChain
  <2>5. CASE UNCHANGED nodeVars
    BY <2>5 DEF nodeVars, DepthTracksChain
  <2> QED
    BY <2>1, <2>2, <2>3, <2>4, <2>5 DEF NodeNext, ProcessBlock
<1> QED
  BY <1>1, <1>2, NodeTypeCorrect, PTL DEF NodeSpec

-----------------------------------------------------------------------------
(* The store against the blocks of the chain.                              *)

\* First publication wins: no block changes or drops an entry of the store.
THEOREM FirstPublicationWinsHolds == NodeSpec => FirstPublicationWins
<1> DEFINE Kept == Len(board') > Len(board) =>
                     \A pk \in DOMAIN nullifier_kv :
                       /\ pk \in DOMAIN nullifier_kv'
                       /\ nullifier_kv'[pk] = nullifier_kv[pk]
<1>1. NodeTypeOK /\ [NodeNext]_nodeVars => [Kept]_nodeVars
  <2> SUFFICES ASSUME NodeTypeOK, [NodeNext]_nodeVars
               PROVE  Kept \/ UNCHANGED nodeVars
    OBVIOUS
  <2>1. ASSUME NEW b \in Block, RecordBlock(b)
        PROVE  Kept
    BY <2>1, RecordBlockEffect
  <2>2. ASSUME nullifier_kv' = nullifier_kv
        PROVE  Kept
    BY <2>2
  <2> QED
    BY <2>1, <2>2 DEF NodeNext, ProcessBlock, DigestPanics, HandleReorg,
                      HandleReorgTooDeep, nodeVars
<1> QED
  BY <1>1, NodeTypeCorrect, PTL DEF NodeSpec, FirstPublicationWins

\* A node whose digest is refused never leaves its initial state.
THEOREM GenesisOnlyHolds == NodeSpec => []GenesisOnly
<1> DEFINE Genesis ==
      DigestLen # 32 =>
        /\ nullifier_kv = [pk \in {} |-> 0]
        /\ nullifier_accum = [value |-> 0, depth |-> 0]
        /\ nullifier_accum_history = <<0>>
        /\ chain_height = 0
        /\ board = << >>
        /\ refused = 0
<1>1. NodeInit => Genesis
  BY DEF NodeInit
<1>2. Genesis /\ [NodeNext]_nodeVars => Genesis'
  <2> SUFFICES ASSUME Genesis, [NodeNext]_nodeVars,
                      DigestLen # 32
               PROVE  Genesis'
    OBVIOUS
  <2>1. /\ nullifier_accum = [value |-> 0, depth |-> 0]
        /\ nullifier_accum_history = <<0>> /\ board = << >>
        /\ nullifier_kv = [pk \in {} |-> 0] /\ chain_height = 0 /\ refused = 0
    OBVIOUS
  <2>2. ASSUME NEW b \in Block, ProcessBlock(b)
        PROVE  DigestPanics
    BY <2>2 DEF ProcessBlock, FromDigestSlice
  <2>3. ASSUME NEW n \in 0 .. Len(board), HandleReorg(n)
        PROVE  Genesis'
    <3>1. n = 0 /\ Len(board) = 0
      BY <2>1
    <3>2. /\ nullifier_accum' = RemoveSets(nullifier_accum, 0)
          /\ nullifier_accum_history' =
               TrimNullifierHistory(<<0>>, Len(<<0>>) - 0)
          /\ board' = SubSeq(board, 1, 0)
          /\ nullifier_kv' = nullifier_kv /\ chain_height' = chain_height
          /\ refused' = refused
      BY <2>1, <2>3, <3>1 DEF HandleReorg, Disconnect
    <3>3. nullifier_accum' = nullifier_accum
      BY <2>1, <3>2 DEF RemoveSets
    <3>4. nullifier_accum_history' = <<0>>
      BY <3>2 DEF TrimNullifierHistory
    <3>5. board' = << >>
      BY <2>1, <3>2
    <3> QED
      BY <2>1, <3>2, <3>3, <3>4, <3>5
  <2>4. ASSUME NEW n \in 0 .. Len(board), HandleReorgTooDeep(n)
        PROVE  FALSE
    BY <2>1, <2>4 DEF HandleReorgTooDeep
  <2>5. CASE DigestPanics
    BY <2>1, <2>5 DEF DigestPanics
  <2>6. CASE UNCHANGED nodeVars
    BY <2>1, <2>6 DEF nodeVars
  <2> QED
    BY <2>2, <2>3, <2>4, <2>5, <2>6 DEF NodeNext
<1>3. Genesis => GenesisOnly
  BY DEF GenesisOnly
<1> QED
  BY <1>1, <1>2, <1>3, PTL DEF NodeSpec

\* The invariant that carries the agreement of store and chain.
StoreInv ==
  /\ KvFromBlocks
  /\ KvLocatesBlock
  /\ AccumulatedOnce
  /\ FeeToFirstPublisher

\* The keys of a block's positions are the keys its valid aggregates carry.
LEMMA CarriedKeys ==
  ASSUME NEW b \in Block, NEW pk
  PROVE  /\ (\E i \in DOMAIN b : Carries(b, i, pk))
              <=> pk \in { PkAt(b, p) : p \in Publications(b) }
         /\ \A i \in DOMAIN b :
              Carries(b, i, pk) =>
                \E j \in DOMAIN b[i].pks : /\ <<i, j>> \in Publications(b)
                                           /\ PkAt(b, <<i, j>>) = pk
         /\ \A p \in Publications(b) :
              PkAt(b, p) = pk => p[1] \in DOMAIN b /\ Carries(b, p[1], pk)
<1>1. \A i \in DOMAIN b :
        Carries(b, i, pk) =>
          \E j \in DOMAIN b[i].pks : /\ <<i, j>> \in Publications(b)
                                     /\ PkAt(b, <<i, j>>) = pk
  BY PublicationPositions DEF Carries, PkAt, AggVerify
<1>2. \A p \in Publications(b) :
        PkAt(b, p) = pk => p[1] \in DOMAIN b /\ Carries(b, p[1], pk)
  BY PublicationPositions DEF Carries, PkAt, AggVerify
<1> QED
  BY <1>1, <1>2

\* A block at work: old entries and old blocks stay, the new keys are those
\* the block carries and the store did not have.
LEMMA RecordBlockStore ==
  ASSUME NodeTypeOK, StoreInv, NEW b \in Block, RecordBlock(b)
  PROVE  StoreInv'
<1> DEFINE N == NewKeys(nullifier_kv, b)
           H == Len(board) + 1
<1>1. /\ DOMAIN nullifier_kv' = DOMAIN nullifier_kv \cup N
      /\ DOMAIN nullifier_kv' \subseteq PublicKey
      /\ \A pk \in DOMAIN nullifier_kv : nullifier_kv'[pk] = nullifier_kv[pk]
      /\ \A pk \in N :
           /\ nullifier_kv'[pk].blockchain_loc \div 2^8 = H
           /\ nullifier_kv'[pk].fee_acct_comm
                = b[FirstPosition(b, pk)[1]].fee_acct_comm
  BY RecordBlockEffect
<1>2. /\ DOMAIN board' = 1 .. H /\ DOMAIN board = 1 .. Len(board)
      /\ \A h \in DOMAIN board : board'[h] = board[h]
      /\ board'[H].block = b
      /\ board'[H].set = N
      /\ orphaned' = orphaned
  BY RecordBlockEffect
<1>3. /\ Len(board) \in Nat /\ H \in Nat
      /\ H \in DOMAIN board' /\ H \notin DOMAIN board
      /\ \A h \in DOMAIN board' : (h \in DOMAIN board \/ h = H)
      /\ \A h \in DOMAIN board : h \in DOMAIN board' /\ h < H /\ h \in Nat
  BY <1>2 DEF NodeTypeOK
<1>4. /\ N \cap DOMAIN nullifier_kv = {}
      /\ \A pk : (\E i \in DOMAIN b : Carries(b, i, pk)) =>
                   pk \in N \/ pk \in DOMAIN nullifier_kv
  BY CarriedKeys DEF NewKeys
<1>9. \A pk \in N : \E p \in Publications(b) : PkAt(b, p) = pk
  BY DEF NewKeys
<1>10. \A pk \in N : \E i \in DOMAIN b : Carries(b, i, pk)
  BY <1>9, CarriedKeys
<1> HIDE DEF N, H
<1>5. KvFromBlocks'
  <2> SUFFICES ASSUME NEW pk \in DOMAIN nullifier_kv'
               PROVE  pk \in orphaned' \/ \E h \in DOMAIN board' : pk \in board'[h].set
    BY DEF KvFromBlocks
  <2>1. CASE pk \in N
    BY <2>1, <1>2, <1>3
  <2>2. CASE pk \in DOMAIN nullifier_kv
    BY <2>2, <1>2, <1>3 DEF StoreInv, KvFromBlocks
  <2> QED
    BY <1>1, <2>1, <2>2
<1>6. KvLocatesBlock'
  <2> SUFFICES ASSUME NEW h \in DOMAIN board', NEW pk \in board'[h].set
               PROVE  /\ pk \in DOMAIN nullifier_kv'
                      /\ nullifier_kv'[pk].blockchain_loc \div 2^8 = h
    BY DEF KvLocatesBlock
  <2>1. CASE h = H
    BY <2>1, <1>1, <1>2
  <2>2. CASE h \in DOMAIN board
    <3>1. pk \in DOMAIN nullifier_kv
          /\ nullifier_kv[pk].blockchain_loc \div 2^8 = h
      BY <2>2, <1>2 DEF StoreInv, KvLocatesBlock
    <3> QED
      BY <3>1, <1>1
  <2> QED
    BY <1>3, <2>1, <2>2
<1>7. AccumulatedOnce'
  <2>1. ASSUME NEW h \in DOMAIN board', NEW i \in DOMAIN board'[h].block,
               NEW pk \in PublicKey, Carries(board'[h].block, i, pk)
        PROVE  pk \in orphaned' \/ \E g \in 1 .. h : pk \in board'[g].set
    <3>1. CASE h = H
      <4>1. pk \in N \/ pk \in DOMAIN nullifier_kv
        BY <2>1, <3>1, <1>2, <1>4
      <4>2. CASE pk \in N
        <5>1. H \in 1 .. H
          BY <1>2, <1>3
        <5> QED
          BY <5>1, <4>2, <3>1, <1>2
      <4>3. CASE pk \in DOMAIN nullifier_kv
        <5>1. pk \in orphaned \/ \E g \in DOMAIN board : pk \in board[g].set
          BY <4>3 DEF StoreInv, KvFromBlocks
        <5>2. \A g \in DOMAIN board : g \in 1 .. H
          BY <1>2, <1>3
        <5> QED
          BY <5>1, <5>2, <3>1, <1>2
      <4> QED
        BY <4>1, <4>2, <4>3
    <3>2. CASE h \in DOMAIN board
      <4>1. pk \in orphaned \/ \E g \in 1 .. h : pk \in board[g].set
        BY <2>1, <3>2, <1>2 DEF StoreInv, AccumulatedOnce
      <4>2. \A g \in 1 .. h : g \in DOMAIN board
        BY <3>2, <1>2, <1>3
      <4> QED
        BY <4>1, <4>2, <1>2
    <3> QED
      BY <1>3, <3>1, <3>2
  <2>2. \A g \in DOMAIN board : board[g].set \subseteq DOMAIN nullifier_kv
    BY DEF StoreInv, KvLocatesBlock
  <2>3. ASSUME NEW g \in DOMAIN board', NEW h \in DOMAIN board', g # h
        PROVE  board'[g].set \cap board'[h].set = {}
    <3>1. CASE g \in DOMAIN board /\ h \in DOMAIN board
      BY <2>3, <3>1, <1>2 DEF StoreInv, AccumulatedOnce
    <3>2. CASE g \in DOMAIN board /\ h = H
      BY <3>2, <2>2, <1>2, <1>4
    <3>3. CASE g = H /\ h \in DOMAIN board
      BY <3>3, <2>2, <1>2, <1>4
    <3> QED
      BY <2>3, <1>3, <3>1, <3>2, <3>3
  <2>4. ASSUME NEW h \in DOMAIN board', NEW pk \in board'[h].set
        PROVE  \E i \in DOMAIN board'[h].block : Carries(board'[h].block, i, pk)
    <3>1. CASE h = H
      <4>1. board'[h].block = b /\ board'[h].set = N
        BY <3>1, <1>2
      <4>2. PICK i \in DOMAIN b : Carries(b, i, pk)
        BY <4>1, <2>4, <1>10
      <4> QED
        BY <4>1, <4>2
    <3>2. CASE h \in DOMAIN board
      BY <2>4, <3>2, <1>2 DEF StoreInv, AccumulatedOnce
    <3> QED
      BY <1>3, <3>1, <3>2
  <2> QED
    BY <2>1, <2>3, <2>4 DEF AccumulatedOnce, Carries
<1>8. FeeToFirstPublisher'
  <2> DEFINE First(pk, h, i) ==
        /\ Carries(board'[h].block, i, pk)
        /\ nullifier_kv'[pk].fee_acct_comm = board'[h].block[i].fee_acct_comm
        /\ \A g \in 1 .. h : \A x \in DOMAIN board'[g].block :
             Carries(board'[g].block, x, pk) => (g = h /\ x >= i)
  <2>1. ASSUME NEW pk \in DOMAIN nullifier_kv, pk \notin orphaned
        PROVE  \E h \in DOMAIN board' : \E i \in DOMAIN board'[h].block : First(pk, h, i)
    <3>0. PICK h \in DOMAIN board : \E i \in DOMAIN board[h].block :
            /\ Carries(board[h].block, i, pk)
            /\ nullifier_kv[pk].fee_acct_comm = board[h].block[i].fee_acct_comm
            /\ \A g \in 1 .. h : \A x \in DOMAIN board[g].block :
                 Carries(board[g].block, x, pk) => (g = h /\ x >= i)
      BY <2>1 DEF StoreInv, FeeToFirstPublisher
    <3>1. PICK i \in DOMAIN board[h].block :
            /\ Carries(board[h].block, i, pk)
            /\ nullifier_kv[pk].fee_acct_comm = board[h].block[i].fee_acct_comm
            /\ \A g \in 1 .. h : \A x \in DOMAIN board[g].block :
                 Carries(board[g].block, x, pk) => (g = h /\ x >= i)
      BY <3>0
    <3>2. h \in DOMAIN board' /\ board'[h] = board[h]
          /\ \A g \in 1 .. h : board'[g] = board[g]
      BY <1>2, <1>3
    <3>3. nullifier_kv'[pk] = nullifier_kv[pk]
      BY <1>1
    <3> QED
      BY <3>1, <3>2, <3>3
  <2>2. ASSUME NEW pk \in N, pk \notin orphaned
        PROVE  \E h \in DOMAIN board' : \E i \in DOMAIN board'[h].block : First(pk, h, i)
    <3> DEFINE f == FirstPosition(b, pk)
    <3>1. PICK p0 \in Publications(b) : PkAt(b, p0) = pk
      BY <2>2, <1>9
    <3>2. /\ f \in Publications(b) /\ PkAt(b, f) = pk
          /\ \A q \in Publications(b) : Before(q, f) => PkAt(b, q) # pk
      BY <3>1, FirstPositionExists
    <3>3. f[1] \in DOMAIN b /\ Carries(b, f[1], pk)
      BY <3>2, CarriedKeys
    <3> HIDE DEF f
    <3>4. nullifier_kv'[pk].fee_acct_comm = b[f[1]].fee_acct_comm
      BY <1>1, <2>2 DEF f
    <3>5. ASSUME NEW g \in 1 .. H, NEW x \in DOMAIN board'[g].block,
                 Carries(board'[g].block, x, pk)
          PROVE  g = H /\ x >= f[1]
      <4>1. CASE g = H
        <5>1. x \in DOMAIN b /\ Carries(b, x, pk)
          BY <3>5, <4>1, <1>2
        <5>2. PICK j \in DOMAIN b[x].pks :
                <<x, j>> \in Publications(b) /\ PkAt(b, <<x, j>>) = pk
          BY <5>1, CarriedKeys
        <5>3. ~Before(<<x, j>>, f)
          BY <5>2, <3>2
        <5>4. f[1] \in Nat /\ x \in Nat
          BY <3>3, <5>1, BlockTypes
        <5> QED
          BY <4>1, <5>3, <5>4 DEF Before
      <4>2. CASE g \in DOMAIN board
        <5>1. pk \in PublicKey
          BY <1>1, <2>2
        <5>2. \E d \in 1 .. g : pk \in board[d].set
          BY <5>1, <3>5, <4>2, <2>2, <1>2 DEF StoreInv, AccumulatedOnce
        <5>3. \A d \in 1 .. g : d \in DOMAIN board
          BY <4>2, <1>2, <1>3
        <5>4. pk \in DOMAIN nullifier_kv
          BY <5>2, <5>3 DEF StoreInv, KvLocatesBlock
        <5> QED
          BY <5>4, <2>2, <1>4
      <4> QED
        BY <1>2, <1>3, <4>1, <4>2
    <3>6. First(pk, H, f[1])
      BY <3>3, <3>4, <3>5, <1>2
    <3> QED
      BY <3>3, <3>6, <1>2, <1>3
  <2> QED
    BY <1>1, <1>2, <2>1, <2>2 DEF FeeToFirstPublisher
<1> QED
  BY <1>5, <1>6, <1>7, <1>8 DEF StoreInv

\* Disconnecting blocks: the store is as before, and of the keys it lost its
\* block for, each is orphaned.
LEMMA DisconnectStore ==
  ASSUME NodeTypeOK, StoreInv, NEW n \in 0 .. Len(board), Disconnect(n),
         nullifier_kv' = nullifier_kv
  PROVE  StoreInv'
<1>1. /\ DOMAIN board' = 1 .. Len(board) - n
      /\ DOMAIN board = 1 .. Len(board)
      /\ Len(board) \in Nat
  BY DisconnectEffect DEF NodeTypeOK
<1>2. /\ \A h \in DOMAIN board' : h \in DOMAIN board /\ board'[h] = board[h]
      /\ orphaned \subseteq orphaned'
      /\ \A h \in DOMAIN board \ DOMAIN board' : board[h].set \subseteq orphaned'
  BY DisconnectEffect
<1>3. \A h \in DOMAIN board' : \A g \in 1 .. h : g \in DOMAIN board'
  BY <1>1
<1>4. KvFromBlocks'
  BY <1>2 DEF StoreInv, KvFromBlocks
<1>5. KvLocatesBlock'
  BY <1>2 DEF StoreInv, KvLocatesBlock
<1>6. AccumulatedOnce'
  <2>1. ASSUME NEW h \in DOMAIN board', NEW i \in DOMAIN board'[h].block,
               NEW pk \in PublicKey, Carries(board'[h].block, i, pk)
        PROVE  pk \in orphaned' \/ \E g \in 1 .. h : pk \in board'[g].set
    <3>1. pk \in orphaned \/ \E g \in 1 .. h : pk \in board[g].set
      BY <2>1, <1>2 DEF StoreInv, AccumulatedOnce
    <3> QED
      BY <3>1, <1>2, <1>3
  <2>2. ASSUME NEW g \in DOMAIN board', NEW h \in DOMAIN board', g # h
        PROVE  board'[g].set \cap board'[h].set = {}
    BY <2>2, <1>2 DEF StoreInv, AccumulatedOnce
  <2>3. ASSUME NEW h \in DOMAIN board', NEW pk \in board'[h].set
        PROVE  \E i \in DOMAIN board'[h].block : Carries(board'[h].block, i, pk)
    BY <2>3, <1>2 DEF StoreInv, AccumulatedOnce
  <2> QED
    BY <2>1, <2>2, <2>3 DEF AccumulatedOnce, Carries
<1>7. FeeToFirstPublisher'
  <2> SUFFICES ASSUME NEW pk \in DOMAIN nullifier_kv, pk \notin orphaned'
               PROVE  \E h \in DOMAIN board' : \E i \in DOMAIN board'[h].block :
                        /\ Carries(board'[h].block, i, pk)
                        /\ nullifier_kv'[pk].fee_acct_comm
                             = board'[h].block[i].fee_acct_comm
                        /\ \A g \in 1 .. h : \A x \in DOMAIN board'[g].block :
                             Carries(board'[g].block, x, pk) => (g = h /\ x >= i)
    BY DEF FeeToFirstPublisher, Carries
  <2>0. PICK h \in DOMAIN board : \E i \in DOMAIN board[h].block :
          /\ Carries(board[h].block, i, pk)
          /\ nullifier_kv[pk].fee_acct_comm = board[h].block[i].fee_acct_comm
          /\ \A g \in 1 .. h : \A x \in DOMAIN board[g].block :
               Carries(board[g].block, x, pk) => (g = h /\ x >= i)
    BY <1>2 DEF StoreInv, FeeToFirstPublisher
  <2>1. PICK i \in DOMAIN board[h].block :
          /\ Carries(board[h].block, i, pk)
          /\ nullifier_kv[pk].fee_acct_comm = board[h].block[i].fee_acct_comm
          /\ \A g \in 1 .. h : \A x \in DOMAIN board[g].block :
               Carries(board[g].block, x, pk) => (g = h /\ x >= i)
    BY <2>0
  <2>2. PICK d \in DOMAIN board : pk \in board[d].set
    BY <1>2 DEF StoreInv, KvFromBlocks
  <2>3. d \in DOMAIN board'
    BY <2>2, <1>2
  <2>4. PICK x \in DOMAIN board[d].block : Carries(board[d].block, x, pk)
    BY <2>2 DEF StoreInv, AccumulatedOnce
  <2>5. h <= d
    <3>1. CASE d <= h
      <4>1. d \in 1 .. h
        BY <3>1, <1>1
      <4> QED
        BY <4>1, <2>1, <2>4, <1>1
    <3> QED
      BY <3>1, <1>1
  <2>6. h \in DOMAIN board' /\ board'[h] = board[h]
        /\ \A g \in 1 .. h : board'[g] = board[g]
    BY <2>3, <2>5, <1>1, <1>2
  <2> QED
    BY <2>1, <2>6
<1> QED
  BY <1>4, <1>5, <1>6, <1>7 DEF StoreInv

\* Store and chain agree: every published key is accumulated once, located
\* where it was recorded, and its fee is the first publisher's.
THEOREM StoreAgreesWithChain ==
  NodeSpec => [](KvFromBlocks /\ KvLocatesBlock /\ AccumulatedOnce
                 /\ FeeToFirstPublisher)
<1>1. NodeInit => StoreInv
  <2> SUFFICES ASSUME NodeInit PROVE StoreInv
    OBVIOUS
  <2>1. DOMAIN board = {} /\ DOMAIN nullifier_kv = {}
    BY DEF NodeInit
  <2> QED
    BY <2>1 DEF StoreInv, KvFromBlocks, KvLocatesBlock, AccumulatedOnce,
                FeeToFirstPublisher
<1>2. NodeTypeOK /\ StoreInv /\ [NodeNext]_nodeVars => StoreInv'
  <2> SUFFICES ASSUME NodeTypeOK, StoreInv, [NodeNext]_nodeVars
               PROVE  StoreInv'
    OBVIOUS
  <2>1. ASSUME NEW b \in Block, RecordBlock(b)
        PROVE  StoreInv'
    BY <2>1, RecordBlockStore
  <2>2. ASSUME NEW n \in 0 .. Len(board), HandleReorg(n) \/ HandleReorgTooDeep(n)
        PROVE  StoreInv'
    <3>1. Disconnect(n) /\ nullifier_kv' = nullifier_kv
      BY <2>2 DEF HandleReorg, HandleReorgTooDeep
    <3> QED
      BY <3>1, DisconnectStore
  <2>3. ASSUME UNCHANGED <<nullifier_kv, board, orphaned>>
        PROVE  StoreInv'
    BY <2>3 DEF StoreInv, KvFromBlocks, KvLocatesBlock, AccumulatedOnce,
                FeeToFirstPublisher, Carries
  <2> QED
    BY <2>1, <2>2, <2>3 DEF NodeNext, ProcessBlock, DigestPanics, nodeVars
<1>3. StoreInv => KvFromBlocks /\ KvLocatesBlock /\ AccumulatedOnce
                  /\ FeeToFirstPublisher
  BY DEF StoreInv
<1> QED
  BY <1>1, <1>2, <1>3, NodeTypeCorrect, PTL DEF NodeSpec

\* No key is accumulated twice.
THEOREM AccumulatedOnceHolds == NodeSpec => []AccumulatedOnce
BY StoreAgreesWithChain, PTL

\* A stored location is of the block the key came with.
THEOREM KvLocatesBlockHolds == NodeSpec => []KvLocatesBlock
BY StoreAgreesWithChain, PTL

\* The store holds the keys of the blocks processed, and no others.
THEOREM KvFromBlocksHolds == NodeSpec => []KvFromBlocks
BY StoreAgreesWithChain, PTL

\* The fee of a key goes to the first publisher.
THEOREM FeeToFirstPublisherHolds == NodeSpec => []FeeToFirstPublisher
BY StoreAgreesWithChain, PTL

-----------------------------------------------------------------------------
(* The loop of process_block.  A fold is the last value of a recursion     *)
(* over sets of positions; what is needed of it is that each position adds *)
(* its turn to what the positions before it made.                          *)

\* A set of positions has a last one.
LEMMA LastOfPositions ==
  ASSUME NEW n \in Nat, NEW s \in SUBSET (1 .. n), s # {}
  PROVE  Max(s) \in s /\ \A x \in s : x <= Max(s)
<1> DEFINE D == {n - x : x \in s}
<1>1. D \in SUBSET Nat /\ D # {}
  <2>1. \A x \in s : n - x \in Nat
    OBVIOUS
  <2> QED
    BY <2>1
<1>2. PICK m \in D : \A d \in D : m <= d
  BY <1>1, NatMinimum
<1>3. PICK x \in s : m = n - x
  BY <1>2
<1>4. \A y \in s : x >= y
  <2> SUFFICES ASSUME NEW y \in s PROVE x >= y
    OBVIOUS
  <2>1. n - y \in D
    OBVIOUS
  <2>2. n - x <= n - y
    BY <1>2, <1>3, <2>1
  <2> QED
    BY <2>2
<1>5. \E z \in s : \A y \in s : z >= y
  BY <1>4
<1> QED
  BY <1>5 DEF Max

\* The last of the first k positions is k, after k - 1 others.
LEMMA LastOfFirst ==
  ASSUME NEW k \in Nat \ {0}
  PROVE  Max(1 .. k) = k /\ (1 .. k) \ {k} = 1 .. (k - 1)
<1>1. 1 .. k # {} /\ k \in 1 .. k
  OBVIOUS
<1>2. Max(1 .. k) \in 1 .. k /\ \A x \in 1 .. k : x <= Max(1 .. k)
  BY <1>1, LastOfPositions
<1> QED
  BY <1>1, <1>2

\* A recursion over the sets of n positions, each of which takes the state a
\* step further, has a solution.
Solvable(X, base, n, step) ==
  \E it \in [SUBSET (1 .. n) -> X] :
    \A s \in SUBSET (1 .. n) :
      it[s] = IF s = {} THEN base ELSE step[<<it[s \ {Max(s)}], Max(s)>>]

\* It has: by induction on the number of positions.
LEMMA TurnsExist ==
  ASSUME NEW X, NEW base \in X, NEW n \in Nat, NEW step \in [X \X (1 .. n) -> X]
  PROVE  Solvable(X, base, n, step)
<1> DEFINE Turns(it, k) ==
             /\ it \in [SUBSET (1 .. k) -> X]
             /\ \A s \in SUBSET (1 .. k) :
                  it[s] = IF s = {} THEN base
                          ELSE step[<<it[s \ {Max(s)}], Max(s)>>]
           N == {k \in Nat : k <= n => \E it : Turns(it, k)}
<1>1. 0 \in N
  <2> DEFINE it == [s \in SUBSET (1 .. 0) |-> base]
  <2>1. \A s \in SUBSET (1 .. 0) : s = {}
    OBVIOUS
  <2>2. Turns(it, 0)
    BY <2>1
  <2> QED
    BY <2>2
<1>2. ASSUME NEW k \in N
      PROVE  k + 1 \in N
  <2>0. k \in Nat
    BY <1>2
  <2> SUFFICES ASSUME k + 1 <= n
               PROVE  \E it : Turns(it, k + 1)
    <3> HIDE DEF Turns
    <3> QED
      BY <2>0
  <2>1. PICK g : Turns(g, k)
    <3> HIDE DEF Turns
    <3> QED
      BY <1>2, <2>0
  <2> DEFINE h == [s \in SUBSET (1 .. k + 1) |->
                     IF k + 1 \in s THEN step[<<g[s \ {k + 1}], k + 1>>]
                                    ELSE g[s]]
  <2>2. \A s \in SUBSET (1 .. k + 1) :
          /\ s \ {k + 1} \in SUBSET (1 .. k)
          /\ k + 1 \notin s => s \in SUBSET (1 .. k)
    BY <2>0
  <2>3. h \in [SUBSET (1 .. k + 1) -> X]
    <3> SUFFICES ASSUME NEW s \in SUBSET (1 .. k + 1)
                 PROVE  h[s] \in X
      OBVIOUS
    <3>1. CASE k + 1 \in s
      <4>1. g[s \ {k + 1}] \in X /\ k + 1 \in 1 .. n
        BY <2>0, <2>1, <2>2
      <4> QED
        BY <3>1, <4>1
    <3>2. CASE k + 1 \notin s
      BY <2>1, <2>2, <3>2
    <3> QED
      BY <3>1, <3>2
  <2>4. ASSUME NEW s \in SUBSET (1 .. k + 1)
        PROVE  h[s] = IF s = {} THEN base
                      ELSE step[<<h[s \ {Max(s)}], Max(s)>>]
    <3>1. CASE k + 1 \in s
      <4>1. Max(s) = k + 1
        <5>1. Max(s) \in s /\ k + 1 <= Max(s)
          <6>1. k + 1 \in Nat /\ s # {}
            BY <2>0, <3>1
          <6> HIDE DEF h, Turns, N
          <6> QED
            BY <3>1, <6>1, LastOfPositions
        <5>2. Max(s) \in 1 .. k + 1
          BY <5>1
        <5> QED
          BY <2>0, <5>1, <5>2
      <4>2. h[s \ {k + 1}] = g[s \ {k + 1}]
        BY <2>2
      <4> QED
        BY <3>1, <4>1, <4>2
    <3>2. CASE k + 1 \notin s
      <4>1. s \in SUBSET (1 .. k) /\ h[s] = g[s]
        BY <2>2, <3>2
      <4>2. h[s \ {Max(s)}] = g[s \ {Max(s)}]
        BY <3>2
      <4> QED
        BY <2>1, <4>1, <4>2
    <3> QED
      BY <3>1, <3>2
  <2>5. Turns(h, k + 1)
    BY <2>3, <2>4
  <2> QED
    BY <2>5
<1>3. N = Nat
  <2>1. N \in SUBSET Nat
    OBVIOUS
  <2> HIDE DEF N
  <2> QED
    BY <1>1, <1>2, <2>1, NatInductionOnSet
<1>4. n \in N /\ n <= n
  <2> HIDE DEF N
  <2> QED
    BY <1>3
<1>5. \E it : Turns(it, n)
  <2> HIDE DEF Turns
  <2> QED
    BY <1>4
<1> QED
  BY <1>5 DEF Solvable

\* What the two loops carry from turn to turn.
ScanState == [ kv     : UNION { [K -> KvEntry] : K \in SUBSET PublicKey },
               loc    : Nat,
               pushed : Seq(PublicKey) ]

\* The recursions of the two folds.
KeyTurns(st, agg) ==
  CHOOSE it : it = [s \in SUBSET DOMAIN agg.pks |->
                      IF s = {} THEN st
                      ELSE ScanKey(it[s \ {Max(s)}], agg.pks[Max(s)], agg)]

AggregateTurns(st, b) ==
  CHOOSE it : it = [s \in SUBSET DOMAIN b |->
                      IF s = {} THEN st
                      ELSE ScanAggregate(it[s \ {Max(s)}], b[Max(s)])]

\* The inner fold is the recursion at all positions of the aggregate,
LEMMA ScanAggregateIsTurns ==
  ASSUME NEW st, NEW agg
  PROVE  ScanAggregate(st, agg)
           = IF ~AggVerify(agg) THEN st ELSE KeyTurns(st, agg)[DOMAIN agg.pks]
BY DEF ScanAggregate, FoldLeft, MapThenFoldSet, KeyTurns

\* and the outer one at all aggregates of the block.
LEMMA ScanBlockIsTurns ==
  ASSUME NEW kv, NEW b, NEW h
  PROVE  ScanBlock(kv, b, h)
           = AggregateTurns([kv |-> kv, loc |-> h * 2^24, pushed |-> << >>],
                            b)[DOMAIN b]
BY DEF ScanBlock, FoldLeft, MapThenFoldSet, AggregateTurns

\* One turn keeps the types.
LEMMA ScanKeyType ==
  ASSUME NEW st \in ScanState, NEW agg \in AggregateNullifier, NEW pk \in PublicKey
  PROVE  ScanKey(st, pk, agg) \in ScanState
<1> DEFINE entry == [ blockchain_loc |-> BlockchainLoc(st.loc),
                      fee_acct_comm  |-> agg.fee_acct_comm ]
           kv == [ k \in DOMAIN st.kv \cup {pk} |->
                     IF k = pk THEN entry ELSE st.kv[k] ]
<1>1. PICK K \in SUBSET PublicKey : st.kv \in [K -> KvEntry]
  BY DEF ScanState
<1>2. CASE pk \in DOMAIN st.kv
  BY <1>2 DEF ScanKey
<1>3. CASE pk \notin DOMAIN st.kv
  <2>1. ScanKey(st, pk, agg)
          = [kv |-> kv, loc |-> st.loc + 1, pushed |-> Append(st.pushed, pk)]
    BY <1>3 DEF ScanKey
  <2>2. entry \in KvEntry
    <3>1. st.loc \in Nat
      BY DEF ScanState
    <3>2. 2^16 = 65536
      BY SMT
    <3>3. BlockchainLoc(st.loc) \in Nat
      BY <3>1, <3>2 DEF BlockchainLoc
    <3> QED
      BY <3>3 DEF KvEntry, AggregateNullifier
  <2> HIDE DEF entry
  <2>3. kv \in [K \cup {pk} -> KvEntry] /\ K \cup {pk} \in SUBSET PublicKey
    BY <1>1, <2>2
  <2> HIDE DEF kv
  <2>4. st.loc + 1 \in Nat /\ Append(st.pushed, pk) \in Seq(PublicKey)
    BY DEF ScanState
  <2>5. kv \in UNION { [J -> KvEntry] : J \in SUBSET PublicKey }
    BY <2>3
  <2> QED
    BY <2>1, <2>4, <2>5 DEF ScanState
<1> QED
  BY <1>2, <1>3

\* A state is taken further by a whole aggregate, key by key.
LEMMA KeyTurnsTurn ==
  ASSUME NEW st \in ScanState, NEW agg \in AggregateNullifier
  PROVE  LET it == KeyTurns(st, agg)
             n == Len(agg.pks)
         IN /\ n \in Nat /\ DOMAIN agg.pks = 1 .. n
            /\ it[1 .. 0] = st
            /\ \A k \in 1 .. n :
                 it[1 .. k] = ScanKey(it[1 .. (k - 1)], agg.pks[k], agg)
<1> DEFINE n == Len(agg.pks)
           it == KeyTurns(st, agg)
           turn(g, s) == IF s = {} THEN st
                         ELSE ScanKey(g[s \ {Max(s)}], agg.pks[Max(s)], agg)
           step == [x \in ScanState \X (1 .. n) |-> ScanKey(x[1], agg.pks[x[2]], agg)]
<1>1. /\ n \in Nat /\ DOMAIN agg.pks = 1 .. n
      /\ \A j \in 1 .. n : agg.pks[j] \in PublicKey
  BY DEF AggregateNullifier
<1>2. step \in [ScanState \X (1 .. n) -> ScanState]
  BY <1>1, ScanKeyType
<1>3. PICK g \in [SUBSET (1 .. n) -> ScanState] :
        \A s \in SUBSET (1 .. n) :
          g[s] = IF s = {} THEN st ELSE step[<<g[s \ {Max(s)}], Max(s)>>]
  <2> HIDE DEF step, n
  <2>1. n \in Nat
    BY <1>1
  <2>2. Solvable(ScanState, st, n, step)
    BY <1>2, <2>1, TurnsExist
  <2> QED
    BY <2>2 DEF Solvable
<1>4. ASSUME NEW s \in SUBSET (1 .. n)
      PROVE  g[s] = turn(g, s)
  <2>1. CASE s = {}
    BY <1>3, <2>1
  <2>2. CASE s # {}
    <3>1. Max(s) \in 1 .. n
      <4> HIDE DEF n
      <4> QED
        BY <1>1, <2>2, LastOfPositions
    <3>2. g[s \ {Max(s)}] \in ScanState
      BY <1>3
    <3>3. step[<<g[s \ {Max(s)}], Max(s)>>]
            = ScanKey(g[s \ {Max(s)}], agg.pks[Max(s)], agg)
      BY <3>1, <3>2
    <3> QED
      BY <1>3, <2>2, <3>3
  <2> QED
    BY <2>1, <2>2
<1>5. g = [s \in SUBSET DOMAIN agg.pks |-> turn(g, s)]
  <2> HIDE DEF turn, n
  <2> QED
    BY <1>1, <1>3, <1>4
<1>6. it = [s \in SUBSET DOMAIN agg.pks |-> turn(it, s)]
  BY <1>5 DEF KeyTurns
<1>7. \A s \in SUBSET (1 .. n) : it[s] = turn(it, s)
  <2> HIDE DEF turn, n, it
  <2> QED
    BY <1>1, <1>6
<1> HIDE DEF it, n, step
<1>8. it[1 .. 0] = st
  <2>1. 1 .. 0 = {}
    OBVIOUS
  <2> QED
    BY <1>7, <2>1
<1>9. ASSUME NEW k \in 1 .. n
      PROVE  it[1 .. k] = ScanKey(it[1 .. (k - 1)], agg.pks[k], agg)
  <2>0. n \in Nat /\ k \in Nat \ {0} /\ k <= n
    BY <1>1
  <2>1. /\ k \in Nat \ {0} /\ 1 .. k # {}
        /\ 1 .. k \in SUBSET (1 .. n)
    <3>1. \A x \in 1 .. k : x \in 1 .. n
      BY <2>0
    <3>2. 1 \in 1 .. k
      BY <2>0
    <3> QED
      BY <2>0, <3>1, <3>2
  <2>2. Max(1 .. k) = k /\ (1 .. k) \ {k} = 1 .. (k - 1)
    BY <2>1, LastOfFirst
  <2> QED
    BY <1>7, <2>1, <2>2
<1> QED
  BY <1>1, <1>8, <1>9 DEF it, n

\* So a property of the state that every turn carries on holds after the loop.
LEMMA KeyLoop ==
  ASSUME NEW st \in ScanState, NEW agg \in AggregateNullifier, AggVerify(agg),
         NEW Carried, <<0, st>> \in Carried,
         \A k \in 1 .. Len(agg.pks) : \A s :
           <<k - 1, s>> \in Carried => <<k, ScanKey(s, agg.pks[k], agg)>> \in Carried
  PROVE  <<Len(agg.pks), ScanAggregate(st, agg)>> \in Carried
<1> DEFINE n == Len(agg.pks)
           it == KeyTurns(st, agg)
           N == {k \in Nat : k <= n => <<k, it[1 .. k]>> \in Carried}
<1>1. /\ n \in Nat /\ DOMAIN agg.pks = 1 .. n
      /\ it[1 .. 0] = st
      /\ \A k \in 1 .. n :
           it[1 .. k] = ScanKey(it[1 .. (k - 1)], agg.pks[k], agg)
  BY KeyTurnsTurn
<1> HIDE DEF it
<1>2. 0 \in N
  BY <1>1
<1>3. ASSUME NEW k \in N
      PROVE  k + 1 \in N
  <2>1. k \in Nat /\ k + 1 \in Nat
    BY <1>3
  <2>2. CASE k + 1 <= n
    <3>1. k + 1 \in 1 .. n /\ (k + 1) - 1 = k /\ k <= n
      BY <1>1, <2>1, <2>2
    <3>2. <<k, it[1 .. k]>> \in Carried
      BY <1>3, <3>1
    <3>3. it[1 .. k + 1] = ScanKey(it[1 .. k], agg.pks[k + 1], agg)
      BY <1>1, <3>1
    <3>4. <<k + 1, it[1 .. k + 1]>> \in Carried
      BY <3>1, <3>2, <3>3
    <3> QED
      BY <2>1, <3>4
  <2>3. CASE ~(k + 1 <= n)
    BY <2>1, <2>3
  <2> QED
    BY <2>2, <2>3
<1>4. N = Nat
  <2>1. N \in SUBSET Nat
    OBVIOUS
  <2> HIDE DEF N
  <2> QED
    BY <1>2, <1>3, <2>1, NatInductionOnSet
<1>5. <<n, it[1 .. n]>> \in Carried
  BY <1>1, <1>4
<1>6. ScanAggregate(st, agg) = it[1 .. n]
  BY <1>1, ScanAggregateIsTurns DEF it
<1> QED
  BY <1>5, <1>6

\* An aggregate keeps the types.
LEMMA ScanAggregateType ==
  ASSUME NEW st \in ScanState, NEW agg \in AggregateNullifier
  PROVE  ScanAggregate(st, agg) \in ScanState
<1> DEFINE n == Len(agg.pks)
           Carried == (0 .. n) \X ScanState
<1>1. CASE ~AggVerify(agg)
  BY <1>1, ScanAggregateIsTurns
<1>2. CASE AggVerify(agg)
  <2>1. n \in Nat /\ \A k \in 1 .. n : agg.pks[k] \in PublicKey
    BY DEF AggregateNullifier
  <2>2. <<0, st>> \in Carried
    BY <2>1
  <2>3. ASSUME NEW k \in 1 .. n, NEW s, <<k - 1, s>> \in Carried
        PROVE  <<k, ScanKey(s, agg.pks[k], agg)>> \in Carried
    BY <2>1, <2>3, ScanKeyType
  <2>4. <<n, ScanAggregate(st, agg)>> \in Carried
    <3> HIDE DEF Carried
    <3> QED
      BY <1>2, <2>2, <2>3, KeyLoop
  <2> QED
    BY <2>4
<1> QED
  BY <1>1, <1>2

\* A state is taken further by a whole block, aggregate by aggregate.
LEMMA AggregateTurnsTurn ==
  ASSUME NEW st \in ScanState, NEW b \in Seq(AggregateNullifier)
  PROVE  LET it == AggregateTurns(st, b)
             n == Len(b)
         IN /\ n \in Nat /\ DOMAIN b = 1 .. n
            /\ it[1 .. 0] = st
            /\ \A k \in 1 .. n : it[1 .. k] = ScanAggregate(it[1 .. (k - 1)], b[k])
<1> DEFINE n == Len(b)
           it == AggregateTurns(st, b)
           turn(g, s) == IF s = {} THEN st
                         ELSE ScanAggregate(g[s \ {Max(s)}], b[Max(s)])
           step == [x \in ScanState \X (1 .. n) |-> ScanAggregate(x[1], b[x[2]])]
<1>1. /\ n \in Nat /\ DOMAIN b = 1 .. n
      /\ \A j \in 1 .. n : b[j] \in AggregateNullifier
  OBVIOUS
<1>2. step \in [ScanState \X (1 .. n) -> ScanState]
  BY <1>1, ScanAggregateType
<1>3. PICK g \in [SUBSET (1 .. n) -> ScanState] :
        \A s \in SUBSET (1 .. n) :
          g[s] = IF s = {} THEN st ELSE step[<<g[s \ {Max(s)}], Max(s)>>]
  <2> HIDE DEF step, n
  <2>1. n \in Nat
    BY <1>1
  <2>2. Solvable(ScanState, st, n, step)
    BY <1>2, <2>1, TurnsExist
  <2> QED
    BY <2>2 DEF Solvable
<1>4. ASSUME NEW s \in SUBSET (1 .. n)
      PROVE  g[s] = turn(g, s)
  <2>1. CASE s = {}
    BY <1>3, <2>1
  <2>2. CASE s # {}
    <3>1. Max(s) \in 1 .. n
      <4> HIDE DEF n
      <4> QED
        BY <1>1, <2>2, LastOfPositions
    <3>2. g[s \ {Max(s)}] \in ScanState
      BY <1>3
    <3>3. step[<<g[s \ {Max(s)}], Max(s)>>]
            = ScanAggregate(g[s \ {Max(s)}], b[Max(s)])
      BY <3>1, <3>2
    <3> QED
      BY <1>3, <2>2, <3>3
  <2> QED
    BY <2>1, <2>2
<1>5. g = [s \in SUBSET DOMAIN b |-> turn(g, s)]
  <2> HIDE DEF turn, n
  <2> QED
    BY <1>1, <1>3, <1>4
<1>6. it = [s \in SUBSET DOMAIN b |-> turn(it, s)]
  BY <1>5 DEF AggregateTurns
<1>7. \A s \in SUBSET (1 .. n) : it[s] = turn(it, s)
  <2> HIDE DEF turn, n, it
  <2> QED
    BY <1>1, <1>6
<1> HIDE DEF it, n, step
<1>8. it[1 .. 0] = st
  <2>1. 1 .. 0 = {}
    OBVIOUS
  <2> QED
    BY <1>7, <2>1
<1>9. ASSUME NEW k \in 1 .. n
      PROVE  it[1 .. k] = ScanAggregate(it[1 .. (k - 1)], b[k])
  <2>0. n \in Nat /\ k \in Nat \ {0} /\ k <= n
    BY <1>1
  <2>1. /\ k \in Nat \ {0} /\ 1 .. k # {}
        /\ 1 .. k \in SUBSET (1 .. n)
    <3>1. \A x \in 1 .. k : x \in 1 .. n
      BY <2>0
    <3>2. 1 \in 1 .. k
      BY <2>0
    <3> QED
      BY <2>0, <3>1, <3>2
  <2>2. Max(1 .. k) = k /\ (1 .. k) \ {k} = 1 .. (k - 1)
    BY <2>1, LastOfFirst
  <2> QED
    BY <1>7, <2>1, <2>2
<1> QED
  BY <1>1, <1>8, <1>9 DEF it, n

\* What every aggregate carries on holds after the block.
LEMMA AggregateLoop ==
  ASSUME NEW kv, NEW b \in Seq(AggregateNullifier), NEW h,
         NEW st \in ScanState,
         st = [kv |-> kv, loc |-> h * 2^24, pushed |-> << >>],
         NEW Carried, <<0, st>> \in Carried,
         \A k \in 1 .. Len(b) : \A s :
           <<k - 1, s>> \in Carried => <<k, ScanAggregate(s, b[k])>> \in Carried
  PROVE  <<Len(b), ScanBlock(kv, b, h)>> \in Carried
<1> DEFINE n == Len(b)
           it == AggregateTurns(st, b)
           N == {k \in Nat : k <= n => <<k, it[1 .. k]>> \in Carried}
<1>1. /\ n \in Nat /\ DOMAIN b = 1 .. n
      /\ it[1 .. 0] = st
      /\ \A k \in 1 .. n : it[1 .. k] = ScanAggregate(it[1 .. (k - 1)], b[k])
  BY AggregateTurnsTurn
<1> HIDE DEF it
<1>2. 0 \in N
  BY <1>1
<1>3. ASSUME NEW k \in N
      PROVE  k + 1 \in N
  <2>1. k \in Nat /\ k + 1 \in Nat
    BY <1>3
  <2>2. CASE k + 1 <= n
    <3>1. k + 1 \in 1 .. n /\ (k + 1) - 1 = k /\ k <= n
      BY <1>1, <2>1, <2>2
    <3>2. <<k, it[1 .. k]>> \in Carried
      BY <1>3, <3>1
    <3>3. it[1 .. k + 1] = ScanAggregate(it[1 .. k], b[k + 1])
      BY <1>1, <3>1
    <3>4. <<k + 1, it[1 .. k + 1]>> \in Carried
      BY <3>1, <3>2, <3>3
    <3> QED
      BY <2>1, <3>4
  <2>3. CASE ~(k + 1 <= n)
    BY <2>1, <2>3
  <2> QED
    BY <2>2, <2>3
<1>4. N = Nat
  <2>1. N \in SUBSET Nat
    OBVIOUS
  <2> HIDE DEF N
  <2> QED
    BY <1>2, <1>3, <2>1, NatInductionOnSet
<1>5. <<n, it[1 .. n]>> \in Carried
  BY <1>1, <1>4
<1>6. ScanBlock(kv, b, h) = it[1 .. n]
  BY <1>1, ScanBlockIsTurns DEF it
<1> QED
  BY <1>5, <1>6

-----------------------------------------------------------------------------
\* The positions of block b that the loop looks at before position p.
Earlier(b, p) == { q \in Publications(b) : Before(q, p) }

NewAt(kv, b, P) == { PkAt(b, q) : q \in P } \ DOMAIN kv

\* What process_block stores for a new key.
StoreEntry(kv, b, h, pk) ==
  [ blockchain_loc |-> BlockchainLoc(Loc(kv, b, h, pk)),
    fee_acct_comm  |-> b[FirstPosition(b, pk)[1]].fee_acct_comm ]

\* The loop has looked at the positions P: the new keys among them are stored,
\* and have been pushed, each once and in the order of its first position.
Scanned(kv, b, h, P, st) ==
  LET new == NewAt(kv, b, P)
  IN /\ DOMAIN st.kv = DOMAIN kv \cup new
     /\ \A pk \in DOMAIN kv : st.kv[pk] = kv[pk]
     /\ \A pk \in new : st.kv[pk] = StoreEntry(kv, b, h, pk)
     /\ st.loc = h * 2^24 + Cardinality(new)
     /\ Len(st.pushed) = Cardinality(new)
     /\ \A pk \in new : \E i \in 1 .. Len(st.pushed) : st.pushed[i] = pk
     /\ \A i \in 1 .. Len(st.pushed) : /\ st.pushed[i] \in new
                                       /\ LocIndex(kv, b, st.pushed[i]) = i - 1

\* A key that was not there before is at its first position, and the new keys
\* looked at before are those its index counts.
LEMMA FirstMet ==
  ASSUME NEW b \in Block, NEW kv, NEW p \in Publications(b),
         PkAt(b, p) \notin DOMAIN kv \cup NewAt(kv, b, Earlier(b, p))
  PROVE  /\ FirstPosition(b, PkAt(b, p)) = p
         /\ LocIndex(kv, b, PkAt(b, p))
              = Cardinality(NewAt(kv, b, Earlier(b, p)))
<1> DEFINE pk == PkAt(b, p)
           f == FirstPosition(b, pk)
<1>1. /\ f \in Publications(b)
      /\ PkAt(b, f) = pk
      /\ \A q \in Publications(b) : Before(q, f) => PkAt(b, q) # pk
  BY FirstPositionExists
<1>2. \A q \in Publications(b) : q \in Nat \X Nat
  BY PublicationPositions, BlockTypes
<1>3. \A q \in Publications(b) : Before(q, p) => PkAt(b, q) # pk
  BY DEF NewAt, Earlier
<1>4. f = p
  <2>1. ~Before(f, p) /\ ~Before(p, f)
    BY <1>1, <1>3
  <2>2. f \in Nat \X Nat /\ p \in Nat \X Nat
    BY <1>1, <1>2
  <2> QED
    BY <2>1, <2>2 DEF Before
<1>5. ASSUME NEW k \in NewKeys(kv, b)
      PROVE  Before(FirstPosition(b, k), p) <=> k \in NewAt(kv, b, Earlier(b, p))
  <2> DEFINE g == FirstPosition(b, k)
  <2>1. PICK q \in Publications(b) : k = PkAt(b, q)
    BY DEF NewKeys
  <2>2. /\ g \in Publications(b) /\ PkAt(b, g) = k
        /\ \A r \in Publications(b) : Before(r, g) => PkAt(b, r) # k
    BY <2>1, FirstPositionExists
  <2>3. k \notin DOMAIN kv
    BY DEF NewKeys
  <2>4. ASSUME Before(g, p)
        PROVE  k \in NewAt(kv, b, Earlier(b, p))
    BY <2>2, <2>3, <2>4 DEF NewAt, Earlier
  <2>5. ASSUME k \in NewAt(kv, b, Earlier(b, p))
        PROVE  Before(g, p)
    <3>1. PICK r \in Publications(b) : Before(r, p) /\ k = PkAt(b, r)
      BY <2>5 DEF NewAt, Earlier
    <3>2. ~Before(r, g)
      BY <2>2, <3>1
    <3>3. r \in Nat \X Nat /\ g \in Nat \X Nat /\ p \in Nat \X Nat
      BY <1>2, <2>2
    <3> HIDE DEF g
    <3> QED
      BY <3>1, <3>2, <3>3 DEF Before
  <2> QED
    BY <2>4, <2>5
<1>6. NewAt(kv, b, Earlier(b, p)) \subseteq NewKeys(kv, b)
  BY DEF NewAt, Earlier, NewKeys
<1>7. { k \in NewKeys(kv, b) : Before(FirstPosition(b, k), p) }
        = NewAt(kv, b, Earlier(b, p))
  BY <1>5, <1>6
<1> QED
  BY <1>4, <1>7 DEF LocIndex

\* The positions before the next one: this one, and those before it.
LEMMA EarlierNext ==
  ASSUME NEW b \in Block, NEW i, NEW j, <<i, j>> \in Publications(b)
  PROVE  Earlier(b, <<i, j + 1>>) = Earlier(b, <<i, j>>) \cup {<<i, j>>}
<1>1. \A q \in Publications(b) : q = <<q[1], q[2]>> /\ q[1] \in Nat /\ q[2] \in Nat
  BY PublicationPositions, BlockTypes
<1>2. i \in Nat /\ j \in Nat
  BY <1>1
<1>3. ASSUME NEW q \in Publications(b)
      PROVE  Before(q, <<i, j + 1>>) <=> Before(q, <<i, j>>) \/ q = <<i, j>>
  <2>1. q = <<q[1], q[2]>> /\ q[1] \in Nat /\ q[2] \in Nat
    BY <1>1
  <2>2. q = <<i, j>> <=> q[1] = i /\ q[2] = j
    BY <2>1
  <2>3. q[2] < j + 1 <=> q[2] < j \/ q[2] = j
    BY <1>2, <2>1
  <2> QED
    BY <1>2, <2>1, <2>2, <2>3 DEF Before
<1> QED
  BY <1>3 DEF Earlier

\* The keys a block publishes are finitely many.
LEMMA NewAtFinite ==
  ASSUME NEW b \in Block, NEW kv, NEW P \in SUBSET Publications(b)
  PROVE  /\ NewAt(kv, b, P) \in SUBSET PublicKey
         /\ IsFiniteSet(NewAt(kv, b, P))
         /\ Cardinality(NewAt(kv, b, P)) \in Nat
<1>1. NewAt(kv, b, P) \in SUBSET PublicKey
  BY PublicationPositions, BlockTypes DEF PkAt, NewAt
<1>2. IsFiniteSet(NewAt(kv, b, P))
  BY <1>1, KeyAssumption, FS_Subset
<1> QED
  BY <1>1, <1>2, FS_CardinalityType

\* One turn of the loop over the keys of an aggregate.
LEMMA ScanTurn ==
  ASSUME NEW b \in Block, NEW h \in Nat, NEW kv, NEW i, NEW j,
         <<i, j>> \in Publications(b),
         NEW st \in ScanState, Scanned(kv, b, h, Earlier(b, <<i, j>>), st)
  PROVE  Scanned(kv, b, h, Earlier(b, <<i, j + 1>>),
                 ScanKey(st, b[i].pks[j], b[i]))
<1> DEFINE p == <<i, j>>
           pk == PkAt(b, p)
           old == NewAt(kv, b, Earlier(b, p))
           new == NewAt(kv, b, Earlier(b, <<i, j + 1>>))
           st2 == ScanKey(st, pk, b[i])
<1>1. pk = b[i].pks[j]
  BY DEF PkAt
<1>2. new = old \cup ({pk} \ DOMAIN kv)
  BY EarlierNext DEF NewAt
<1>3. /\ IsFiniteSet(old) /\ Cardinality(old) \in Nat
      /\ pk \in PublicKey
  <2>1. Earlier(b, p) \in SUBSET Publications(b)
    BY DEF Earlier
  <2>2. pk \in PublicKey
    BY PublicationPositions, BlockTypes DEF PkAt
  <2> QED
    BY <2>1, <2>2, NewAtFinite
<1>4. /\ DOMAIN st.kv = DOMAIN kv \cup old
      /\ \A k \in DOMAIN kv : st.kv[k] = kv[k]
      /\ \A k \in old : st.kv[k] = StoreEntry(kv, b, h, k)
      /\ st.loc = h * 2^24 + Cardinality(old)
      /\ Len(st.pushed) = Cardinality(old)
      /\ \A k \in old : \E x \in 1 .. Len(st.pushed) : st.pushed[x] = k
      /\ \A x \in 1 .. Len(st.pushed) : /\ st.pushed[x] \in old
                                        /\ LocIndex(kv, b, st.pushed[x]) = x - 1
  BY DEF Scanned
<1>5. CASE pk \in DOMAIN st.kv
  <2>1. new = old
    BY <1>2, <1>4, <1>5
  <2>2. st2 = st
    BY <1>5 DEF ScanKey
  <2>3. Scanned(kv, b, h, Earlier(b, <<i, j + 1>>), st)
    BY <1>4, <2>1 DEF Scanned
  <2> QED
    BY <1>1, <2>2, <2>3
<1>6. CASE pk \notin DOMAIN st.kv
  <2>1. pk \notin DOMAIN kv /\ pk \notin old /\ new = old \cup {pk}
    BY <1>2, <1>4, <1>6
  <2>2. FirstPosition(b, pk) = p /\ LocIndex(kv, b, pk) = Cardinality(old)
    BY <2>1, FirstMet
  <2>3. Cardinality(new) = Cardinality(old) + 1
    BY <1>3, <2>1, FS_AddElement
  <2> DEFINE entry == [ blockchain_loc |-> BlockchainLoc(st.loc),
                        fee_acct_comm  |-> b[i].fee_acct_comm ]
  <2>4. st2 = [ kv     |-> [ k \in DOMAIN st.kv \cup {pk} |->
                               IF k = pk THEN entry ELSE st.kv[k] ],
                loc    |-> st.loc + 1,
                pushed |-> Append(st.pushed, pk) ]
    BY <1>6 DEF ScanKey
  <2>5. entry = StoreEntry(kv, b, h, pk)
    BY <1>4, <2>2 DEF StoreEntry, Loc
  <2> HIDE DEF entry, new, old, pk
  <2>6. /\ DOMAIN st2.kv = DOMAIN kv \cup new
        /\ \A k \in DOMAIN kv : st2.kv[k] = kv[k]
        /\ \A k \in new : st2.kv[k] = StoreEntry(kv, b, h, k)
    <3>1. /\ DOMAIN st2.kv = DOMAIN st.kv \cup {pk}
          /\ \A k \in DOMAIN st.kv : st2.kv[k] = st.kv[k]
          /\ st2.kv[pk] = entry
      BY <1>6, <2>4
    <3> QED
      BY <1>4, <2>1, <2>5, <3>1
  <2>7. st2.loc = h * 2^24 + Cardinality(new)
    <3>1. h * 2^24 \in Nat
      OBVIOUS
    <3>2. st2.loc = st.loc + 1
      BY <2>4
    <3> DEFINE base == h * 2^24
    <3> HIDE DEF base
    <3>3. st.loc = base + Cardinality(old) /\ base \in Nat
      BY <1>4, <3>1 DEF base
    <3>4. st2.loc = base + Cardinality(new)
      BY <1>3, <2>3, <3>2, <3>3
    <3> QED
      BY <3>4 DEF base
  <2>8. /\ Len(st2.pushed) = Cardinality(new)
        /\ \A k \in new : \E x \in 1 .. Len(st2.pushed) : st2.pushed[x] = k
        /\ \A x \in 1 .. Len(st2.pushed) :
             /\ st2.pushed[x] \in new
             /\ LocIndex(kv, b, st2.pushed[x]) = x - 1
    <3>1. st.pushed \in Seq(PublicKey) /\ st2.pushed = Append(st.pushed, pk)
      BY <2>4 DEF ScanState
    <3>2. /\ Len(st2.pushed) = Len(st.pushed) + 1
          /\ \A x \in 1 .. Len(st.pushed) : st2.pushed[x] = st.pushed[x]
          /\ st2.pushed[Len(st.pushed) + 1] = pk
          /\ Len(st.pushed) \in Nat
      BY <1>3, <3>1
    <3>3. ASSUME NEW k \in new
          PROVE  \E x \in 1 .. Len(st2.pushed) : st2.pushed[x] = k
      <4>1. /\ \A x \in 1 .. Len(st.pushed) : x \in 1 .. Len(st2.pushed)
            /\ Len(st.pushed) + 1 \in 1 .. Len(st2.pushed)
        BY <3>2
      <4>2. CASE k \in old
        <5>1. PICK x \in 1 .. Len(st.pushed) : st.pushed[x] = k
          BY <1>4, <4>2
        <5>2. x \in 1 .. Len(st2.pushed) /\ st2.pushed[x] = k
          BY <3>2, <4>1, <5>1
        <5> QED
          BY <5>2
      <4>3. CASE k = pk
        BY <3>2, <4>1, <4>3
      <4> QED
        BY <2>1, <4>2, <4>3
    <3>4. ASSUME NEW x \in 1 .. Len(st2.pushed)
          PROVE  st2.pushed[x] \in new /\ LocIndex(kv, b, st2.pushed[x]) = x - 1
      <4>1. CASE x \in 1 .. Len(st.pushed)
        BY <1>4, <2>1, <3>2, <4>1
      <4>2. CASE x = Len(st.pushed) + 1
        BY <1>3, <1>4, <2>1, <2>2, <3>2, <4>2
      <4> QED
        BY <3>2, <4>1, <4>2
    <3> QED
      BY <1>3, <1>4, <2>3, <3>2, <3>3, <3>4
  <2> HIDE DEF st2
  <2>9. Scanned(kv, b, h, Earlier(b, <<i, j + 1>>), st2)
    BY <2>6, <2>7, <2>8 DEF Scanned, new
  <2> QED
    BY <1>1, <2>9 DEF st2, pk
<1> QED
  BY <1>5, <1>6

\* The positions before the next aggregate: all keys of this one, when it is
\* valid, and those before it.
LEMMA EarlierAggregate ==
  ASSUME NEW b \in Block, NEW i \in DOMAIN b
  PROVE  /\ ~AggVerify(b[i]) => Earlier(b, <<i + 1, 1>>) = Earlier(b, <<i, 1>>)
         /\ Earlier(b, <<i + 1, 1>>) = Earlier(b, <<i, Len(b[i].pks) + 1>>)
<1> DEFINE n == Len(b[i].pks)
<1>1. /\ b \in Seq(AggregateNullifier)
      /\ b[i] \in AggregateNullifier /\ i \in Nat
  BY BlockAssumption
<1>2. n \in Nat /\ DOMAIN b[i].pks = 1 .. n
  BY <1>1 DEF AggregateNullifier
<1>3. \A q \in Publications(b) :
        /\ q[1] \in Nat /\ q[2] \in Nat /\ q[2] >= 1
        /\ q[1] = i => AggVerify(b[i]) /\ q[2] <= n
  <2>1. ASSUME NEW q \in Publications(b)
        PROVE  /\ q[1] \in DOMAIN b /\ q[2] \in DOMAIN b[q[1]].pks
               /\ AggVerify(b[q[1]])
    BY PublicationPositions
  <2>2. ASSUME NEW x \in DOMAIN b
        PROVE  x \in Nat /\ DOMAIN b[x].pks = 1 .. Len(b[x].pks)
               /\ Len(b[x].pks) \in Nat
    <3>1. b[x] \in AggregateNullifier /\ x \in Nat
      BY <1>1
    <3> QED
      BY <3>1 DEF AggregateNullifier
  <2> QED
    BY <2>1, <2>2
<1> HIDE DEF n
<1>4. ASSUME NEW q \in Publications(b)
      PROVE  /\ Before(q, <<i + 1, 1>>) <=> Before(q, <<i, n + 1>>)
             /\ ~AggVerify(b[i]) => (Before(q, <<i + 1, 1>>) <=> Before(q, <<i, 1>>))
  <2>1. q[1] < i + 1 <=> q[1] < i \/ q[1] = i
    BY <1>1, <1>3
  <2>2. ~(q[1] = i + 1 /\ q[2] < 1)
    BY <1>3
  <2>3. q[1] = i => q[2] < n + 1 /\ AggVerify(b[i])
    BY <1>2, <1>3
  <2> QED
    BY <2>1, <2>2, <2>3 DEF Before
<1>5. Earlier(b, <<i + 1, 1>>) = Earlier(b, <<i, n + 1>>)
  BY <1>4 DEF Earlier
<1>6. ~AggVerify(b[i]) => Earlier(b, <<i + 1, 1>>) = Earlier(b, <<i, 1>>)
  BY <1>4 DEF Earlier
<1> QED
  BY <1>5, <1>6 DEF n

\* One turn of the loop over the aggregates of a block.
LEMMA ScanAggregateTurn ==
  ASSUME NEW b \in Block, NEW h \in Nat, NEW kv, NEW i \in DOMAIN b,
         NEW st \in ScanState, Scanned(kv, b, h, Earlier(b, <<i, 1>>), st)
  PROVE  Scanned(kv, b, h, Earlier(b, <<i + 1, 1>>), ScanAggregate(st, b[i]))
<1> DEFINE n == Len(b[i].pks)
           reached(k, s) == Scanned(kv, b, h, Earlier(b, <<i, k + 1>>), s)
           Carried == {x \in (0 .. n) \X ScanState : reached(x[1], x[2])}
<1>1. b[i] \in AggregateNullifier
  BY BlockAssumption
<1>2. n \in Nat /\ DOMAIN b[i].pks = 1 .. n
      /\ \A k \in 1 .. n : b[i].pks[k] \in PublicKey
  BY <1>1 DEF AggregateNullifier
<1>3. CASE ~AggVerify(b[i])
  <2>1. ScanAggregate(st, b[i]) = st
    BY <1>3 DEF ScanAggregate
  <2>2. Earlier(b, <<i + 1, 1>>) = Earlier(b, <<i, 1>>)
    BY <1>3, EarlierAggregate
  <2> QED
    BY <2>1, <2>2
<1>4. CASE AggVerify(b[i])
  <2>1. <<0, st>> \in Carried
    BY <1>2
  <2>2. ASSUME NEW k \in 1 .. n, NEW s, <<k - 1, s>> \in Carried
        PROVE  <<k, ScanKey(s, b[i].pks[k], b[i])>> \in Carried
    <3>1. s \in ScanState /\ reached(k - 1, s)
      BY <2>2
    <3>2. (k - 1) + 1 = k /\ k \in 0 .. n
      BY <1>2
    <3>3. <<i, k>> \in Publications(b)
      BY <1>2, <1>4, PublicationPositions
    <3>4. Scanned(kv, b, h, Earlier(b, <<i, k>>), s)
      BY <3>1, <3>2
    <3>5. reached(k, ScanKey(s, b[i].pks[k], b[i]))
      <4> HIDE DEF n
      <4> QED
        BY <3>1, <3>3, <3>4, ScanTurn
    <3>6. ScanKey(s, b[i].pks[k], b[i]) \in ScanState
      BY <1>1, <1>2, <3>1, ScanKeyType
    <3> HIDE DEF reached
    <3> QED
      BY <3>2, <3>5, <3>6
  <2>3. <<n, ScanAggregate(st, b[i])>> \in Carried
    <3> HIDE DEF Carried
    <3> QED
      BY <1>1, <1>4, <2>1, <2>2, KeyLoop
  <2>4. Scanned(kv, b, h, Earlier(b, <<i, n + 1>>), ScanAggregate(st, b[i]))
    BY <2>3
  <2> QED
    BY <2>4, EarlierAggregate
<1> QED
  BY <1>3, <1>4

\* The whole loop: it has looked at every position of the block.
LEMMA ScanBlockScans ==
  ASSUME NEW b \in Block, NEW h \in Nat,
         NEW kv \in UNION { [K -> KvEntry] : K \in SUBSET PublicKey }
  PROVE  /\ ScanBlock(kv, b, h) \in ScanState
         /\ Scanned(kv, b, h, Publications(b), ScanBlock(kv, b, h))
<1> DEFINE n == Len(b)
           st == [kv |-> kv, loc |-> h * 2^24, pushed |-> << >>]
           reached(k, s) == Scanned(kv, b, h, Earlier(b, <<k + 1, 1>>), s)
           Carried == {x \in (0 .. n) \X ScanState : reached(x[1], x[2])}
<1>1. b \in Seq(AggregateNullifier) /\ n \in Nat /\ DOMAIN b = 1 .. n
  BY BlockAssumption
<1>2. \A q \in Publications(b) : /\ q[1] \in 1 .. n
                                 /\ q[2] \in Nat /\ q[2] >= 1
  <2>1. ASSUME NEW q \in Publications(b)
        PROVE  q[1] \in DOMAIN b /\ q[2] \in DOMAIN b[q[1]].pks
    BY PublicationPositions
  <2>2. ASSUME NEW x \in DOMAIN b
        PROVE  DOMAIN b[x].pks = 1 .. Len(b[x].pks) /\ Len(b[x].pks) \in Nat
    <3>1. b[x] \in AggregateNullifier
      BY <1>1
    <3> QED
      BY <3>1 DEF AggregateNullifier
  <2> QED
    BY <1>1, <2>1, <2>2
<1>3. Earlier(b, <<1, 1>>) = {}
  BY <1>2 DEF Earlier, Before
<1>4. Earlier(b, <<n + 1, 1>>) = Publications(b)
  <2>1. \A q \in Publications(b) : q[1] < n + 1
    BY <1>1, <1>2
  <2> QED
    BY <2>1 DEF Earlier, Before
<1>5. st \in ScanState
  <2>1. h * 2^24 \in Nat /\ << >> \in Seq(PublicKey)
    OBVIOUS
  <2> QED
    BY <2>1 DEF ScanState
<1>6. Scanned(kv, b, h, {}, st)
  <2>1. NewAt(kv, b, {}) = {}
    BY DEF NewAt
  <2>2. Cardinality({}) = 0
    BY FS_EmptySet
  <2>3. h * 2^24 \in Nat /\ h * 2^24 + 0 = h * 2^24
    OBVIOUS
  <2>4. Len(st.pushed) = 0
    OBVIOUS
  <2>5. st.kv = kv /\ st.loc = h * 2^24
    OBVIOUS
  <2> HIDE DEF st
  <2>6. /\ DOMAIN st.kv = DOMAIN kv \cup {}
        /\ \A pk \in DOMAIN kv : st.kv[pk] = kv[pk]
    BY <2>5
  <2>7. st.loc = h * 2^24 + Cardinality({}) /\ Len(st.pushed) = Cardinality({})
    BY <2>2, <2>3, <2>4, <2>5
  <2>8. 1 .. Len(st.pushed) = {}
    BY <2>4
  <2> QED
    BY <2>1, <2>6, <2>7, <2>8, Zenon DEF Scanned
<1> HIDE DEF st
<1>7. <<0, st>> \in Carried
  <2>1. 0 \in 0 .. n /\ 0 + 1 = 1
    BY <1>1
  <2>2. reached(0, st)
    BY <1>3, <1>6, <2>1
  <2> HIDE DEF reached
  <2> QED
    BY <1>5, <2>1, <2>2
<1>8. ASSUME NEW k \in 1 .. n, NEW s, <<k - 1, s>> \in Carried
      PROVE  <<k, ScanAggregate(s, b[k])>> \in Carried
  <2>1. s \in ScanState /\ reached(k - 1, s)
    BY <1>8
  <2>2. (k - 1) + 1 = k /\ k \in 0 .. n /\ k \in DOMAIN b
    BY <1>1
  <2>3. Scanned(kv, b, h, Earlier(b, <<k, 1>>), s)
    BY <2>1, <2>2
  <2>4. reached(k, ScanAggregate(s, b[k]))
    <3> HIDE DEF n
    <3> QED
      BY <2>1, <2>2, <2>3, ScanAggregateTurn
  <2>5. ScanAggregate(s, b[k]) \in ScanState
    <3>1. b[k] \in AggregateNullifier
      BY <1>1, <2>2
    <3> QED
      BY <2>1, <3>1, ScanAggregateType
  <2> HIDE DEF reached
  <2> QED
    BY <2>2, <2>4, <2>5
<1>9. <<n, ScanBlock(kv, b, h)>> \in Carried
  <2> HIDE DEF Carried
  <2> QED
    BY <1>1, <1>5, <1>7, <1>8, AggregateLoop DEF st
<1> QED
  BY <1>4, <1>9

\* In a state of the right types the loop and the set-based definitions agree.
LEMMA ScanAgreesInType == NodeTypeOK => ScanAgreesWithLoop
<1> SUFFICES ASSUME NodeTypeOK, NEW b \in Block
             PROVE  LET h == Len(board) + 1
                        end == ScanBlock(nullifier_kv, b, h)
                        new == NewKeys(nullifier_kv, b)
                    IN /\ end.kv = RecordNullifiers(nullifier_kv, b, h)
                       /\ ToSet(end.pushed) = new
                       /\ Len(end.pushed) = Cardinality(new)
                       /\ \A i \in DOMAIN end.pushed :
                            Loc(nullifier_kv, b, h, end.pushed[i])
                              = h * 2^24 + i - 1
  BY DEF ScanAgreesWithLoop
<1> DEFINE kv == nullifier_kv
           h == Len(board) + 1
           end == ScanBlock(kv, b, h)
           new == NewKeys(kv, b)
<1>1. h \in Nat /\ kv \in UNION { [K -> KvEntry] : K \in SUBSET PublicKey }
  <2>1. board \in Seq(BoardEntry)
    BY DEF NodeTypeOK
  <2>2. DOMAIN nullifier_kv \in SUBSET PublicKey
        /\ nullifier_kv \in [DOMAIN nullifier_kv -> KvEntry]
    BY DEF NodeTypeOK
  <2> QED
    BY <2>1, <2>2
<1> HIDE DEF h, kv
<1>2. end \in ScanState /\ Scanned(kv, b, h, Publications(b), end)
  BY <1>1, ScanBlockScans
<1>3. NewAt(kv, b, Publications(b)) = new
  BY DEF NewAt, NewKeys
<1> HIDE DEF end, new
<1>4. /\ DOMAIN end.kv = DOMAIN kv \cup new
      /\ \A pk \in DOMAIN kv : end.kv[pk] = kv[pk]
      /\ \A pk \in new : end.kv[pk] = StoreEntry(kv, b, h, pk)
      /\ Len(end.pushed) = Cardinality(new)
      /\ \A pk \in new : \E i \in 1 .. Len(end.pushed) : end.pushed[i] = pk
      /\ \A i \in 1 .. Len(end.pushed) : /\ end.pushed[i] \in new
                                         /\ LocIndex(kv, b, end.pushed[i]) = i - 1
  BY <1>2, <1>3 DEF Scanned
<1>5. end.kv = RecordNullifiers(kv, b, h)
  <2>1. PICK K \in SUBSET PublicKey : end.kv \in [K -> KvEntry]
    BY <1>2 DEF ScanState
  <2>2. RecordNullifiers(kv, b, h)
          = [ pk \in DOMAIN kv \cup new |->
                IF pk \in DOMAIN kv THEN kv[pk] ELSE StoreEntry(kv, b, h, pk) ]
    BY DEF RecordNullifiers, StoreEntry, new
  <2>3. \A pk \in DOMAIN kv \cup new :
          end.kv[pk] = IF pk \in DOMAIN kv THEN kv[pk]
                                           ELSE StoreEntry(kv, b, h, pk)
    BY <1>4
  <2>4. end.kv = [ pk \in DOMAIN kv \cup new |-> end.kv[pk] ]
    BY <1>4, <2>1
  <2> QED
    BY <2>2, <2>3, <2>4
<1>6. end.pushed \in Seq(PublicKey) /\ DOMAIN end.pushed = 1 .. Len(end.pushed)
      /\ Len(end.pushed) \in Nat
  BY <1>2 DEF ScanState
<1>7. ToSet(end.pushed) = new
  BY <1>4, <1>6 DEF ToSet
<1>8. ASSUME NEW i \in DOMAIN end.pushed
      PROVE  Loc(kv, b, h, end.pushed[i]) = h * 2^24 + i - 1
  <2>1. i \in Nat /\ LocIndex(kv, b, end.pushed[i]) = i - 1
    BY <1>4, <1>6
  <2>2. Loc(kv, b, h, end.pushed[i]) = h * 2^24 + (i - 1)
    BY <2>1 DEF Loc
  <2>3. h * 2^24 \in Nat
    BY <1>1
  <2> QED
    BY <2>1, <2>2, <2>3
<1> QED
  BY <1>4, <1>5, <1>7, <1>8 DEF kv, h, end, new

\* The set-based definitions of process_block are what its loop computes: in
\* every reachable state and for every block, the store it leaves is the one
\* RecordNullifiers gives, it pushes each new key once and nothing else, and
\* the running counter gives each the location Loc gives it
\* (mixer_node.rs:64-111).
THEOREM ScanAgreesWithLoopHolds == NodeSpec => []ScanAgreesWithLoop
<1>1. NodeSpec => []NodeTypeOK
  BY NodeTypeCorrect
<1> QED
  BY <1>1, ScanAgreesInType, PTL

=============================================================================
