----------------------------- MODULE LedgerProofs -----------------------------
(***************************************************************************)
(* Proofs about the sums of Mixer's ledger: what is credited, reserved,    *)
(* delivered and owed, for every set of users, coins and accounts.         *)
(***************************************************************************)
EXTENDS MixerProofs, SumTheorems

-----------------------------------------------------------------------------
(* Facts about the sums.                                                   *)

\* The domain of a sequence is finite.
LEMMA SeqDomainFinite ==
  ASSUME NEW S, NEW s \in Seq(S)
  PROVE  DOMAIN s = 1 .. Len(s) /\ Len(s) \in Nat /\ IsFiniteSet(DOMAIN s)
<1>1. DOMAIN s = 1 .. Len(s) /\ Len(s) \in Nat
  OBVIOUS
<1> QED
  BY <1>1, FS_Interval

\* The coins of a wallet have a worth.
LEMMA SumAmountsNat ==
  ASSUME NEW coins \in Seq(CoinRecord)
  PROVE  SumAmounts(coins) \in Nat
<1> DEFINE f == [i \in DOMAIN coins |-> coins[i].amount]
<1>1. IsFiniteSet(DOMAIN coins)
  BY SeqDomainFinite
<1>2. \A i \in DOMAIN f : f[i] \in Nat
  BY CoinAmount
<1> HIDE DEF f
<1>3. DOMAIN f = DOMAIN coins
  BY DEF f
<1>4. SumFunction(f) \in Nat
  BY <1>1, <1>2, <1>3, SumFunctionNat
<1> QED
  BY <1>4 DEF SumAmounts, f

\* A coin put at the end of a wallet adds its amount.
LEMMA SumAmountsAppend ==
  ASSUME NEW coins \in Seq(CoinRecord), NEW c \in CoinRecord
  PROVE  SumAmounts(Append(coins, c)) = SumAmounts(coins) + c.amount
<1> DEFINE n == Len(coins)
           more == Append(coins, c)
           f == [i \in DOMAIN coins |-> coins[i].amount]
           h == [i \in DOMAIN more |-> more[i].amount]
<1>1. DOMAIN coins = 1 .. n /\ n \in Nat /\ IsFiniteSet(1 .. n)
  BY SeqDomainFinite
<1>2. /\ DOMAIN more = 1 .. n \cup {n + 1} /\ n + 1 \notin 1 .. n
      /\ more[n + 1] = c
      /\ \A i \in 1 .. n : more[i] = coins[i]
  BY <1>1
<1>3. SumAmounts(coins) = SumFunction(f) /\ SumAmounts(more) = SumFunction(h)
  BY Zenon DEF SumAmounts
<1>4. DOMAIN f = 1 .. n /\ DOMAIN h = DOMAIN f \cup {n + 1}
  BY <1>1, <1>2
<1>5. \A i \in DOMAIN f : f[i] \in Nat /\ h[i] = f[i]
  BY <1>1, <1>2, CoinAmount
<1>6. h[n + 1] = c.amount /\ h[n + 1] \in Nat
  BY <1>2, CoinAmount
<1> HIDE DEF f, h, n, more
<1>7. IsFiniteSet(DOMAIN f) /\ n + 1 \notin DOMAIN f
  BY <1>1, <1>2, <1>4
<1>8. SumFunction(h) = SumFunction(f) + h[n + 1]
  <2> DEFINE y == n + 1
  <2>1. /\ y \notin DOMAIN f /\ DOMAIN h = DOMAIN f \cup {y}
        /\ h[y] \in Nat
    BY <1>4, <1>6, <1>7
  <2> HIDE DEF y
  <2>2. SumFunction(h) = SumFunction(f) + h[y]
    BY <1>5, <1>7, <2>1, SumFunctionExtend, Zenon
  <2> QED
    BY <2>2 DEF y
<1> QED
  BY <1>3, <1>6, <1>8 DEF more

\* The elements of two sequences one after the other.
LEMMA ConcatElements ==
  ASSUME NEW S, NEW s \in Seq(S), NEW t \in Seq(S)
  PROVE  /\ Len(s \o t) = Len(s) + Len(t)
         /\ DOMAIN (s \o t) = 1 .. Len(s) + Len(t)
         /\ \A i \in 1 .. Len(s) + Len(t) :
              (s \o t)[i] = IF i <= Len(s) THEN s[i] ELSE t[i - Len(s)]
OBVIOUS

\* The elements of a part of a sequence.
LEMMA SubSeqElements ==
  ASSUME NEW S, NEW s \in Seq(S), NEW m \in 1 .. Len(s) + 1,
         NEW n \in m - 1 .. Len(s)
  PROVE  /\ SubSeq(s, m, n) \in Seq(S)
         /\ Len(SubSeq(s, m, n)) = n - m + 1
         /\ \A i \in 1 .. n - m + 1 : SubSeq(s, m, n)[i] = s[m + i - 1]
<1>1. Len(s) \in Nat /\ m \in Int /\ n \in Int
  OBVIOUS
<1> QED
  BY <1>1

\* The elements left when the one at position p is removed.
LEMMA RemoveAtElements ==
  ASSUME NEW S, NEW seq \in Seq(S), NEW p \in DOMAIN seq
  PROVE  /\ DOMAIN RemoveAt(seq, p) = 1 .. Len(seq) - 1
         /\ \A i \in 1 .. Len(seq) - 1 :
              RemoveAt(seq, p)[i] = seq[IF i < p THEN i ELSE i + 1]
<1> DEFINE n == Len(seq)
           s == SubSeq(seq, 1, p - 1)
           t == SubSeq(seq, p + 1, n)
<1>1. n \in Nat /\ p \in 1 .. n
  OBVIOUS
<1>2. /\ s \in Seq(S) /\ Len(s) = p - 1
      /\ \A i \in 1 .. p - 1 : s[i] = seq[i]
  <2>1. 1 \in 1 .. n + 1 /\ p - 1 \in 1 - 1 .. n
    BY <1>1
  <2>2. /\ s \in Seq(S) /\ Len(s) = (p - 1) - 1 + 1
        /\ \A i \in 1 .. (p - 1) - 1 + 1 : s[i] = seq[1 + i - 1]
    BY <2>1, SubSeqElements
  <2>3. (p - 1) - 1 + 1 = p - 1 /\ \A i \in Int : 1 + i - 1 = i
    BY <1>1
  <2> HIDE DEF s
  <2> QED
    BY <1>1, <2>2, <2>3
<1>3. /\ t \in Seq(S) /\ Len(t) = n - p
      /\ \A i \in 1 .. n - p : t[i] = seq[p + i]
  <2>1. p + 1 \in 1 .. n + 1 /\ n \in (p + 1) - 1 .. n
    BY <1>1
  <2>2. /\ t \in Seq(S) /\ Len(t) = n - (p + 1) + 1
        /\ \A i \in 1 .. n - (p + 1) + 1 : t[i] = seq[(p + 1) + i - 1]
    BY <2>1, SubSeqElements
  <2>3. n - (p + 1) + 1 = n - p /\ \A i \in 1 .. n - p : (p + 1) + i - 1 = p + i
    BY <1>1
  <2> HIDE DEF t, n
  <2>4. \A i \in 1 .. n - p : t[i] = seq[p + i]
    BY <2>2, <2>3
  <2> QED
    BY <2>2, <2>3, <2>4
<1>4. RemoveAt(seq, p) = s \o t
  BY DEF RemoveAt
<1> HIDE DEF s, t, n
<1>5. Len(s) + Len(t) = n - 1
  BY <1>1, <1>2, <1>3
<1>6. /\ DOMAIN (s \o t) = 1 .. n - 1
      /\ \A i \in 1 .. n - 1 :
           (s \o t)[i] = IF i <= p - 1 THEN s[i] ELSE t[i - (p - 1)]
  BY <1>2, <1>3, <1>5, ConcatElements
<1>7. ASSUME NEW i \in 1 .. n - 1
      PROVE  (s \o t)[i] = seq[IF i < p THEN i ELSE i + 1]
  <2>1. CASE i < p
    <3>1. i \in 1 .. p - 1 /\ i <= p - 1
      BY <1>1, <2>1
    <3> QED
      BY <1>2, <1>6, <2>1, <3>1
  <2>2. CASE ~(i < p)
    <3>1. /\ i - (p - 1) \in 1 .. n - p /\ ~(i <= p - 1)
          /\ p + (i - (p - 1)) = i + 1
      BY <1>1, <2>2
    <3> QED
      BY <1>3, <1>6, <2>2, <3>1
  <2> QED
    BY <2>1, <2>2
<1> QED
  BY <1>4, <1>6, <1>7 DEF n

\* They are the other elements, renamed one to one.
LEMMA RemoveAtRenames ==
  ASSUME NEW S, NEW seq \in Seq(S), NEW p \in DOMAIN seq
  PROVE  \E b \in [1 .. Len(seq) - 1 -> 1 .. Len(seq) \ {p}] :
           /\ \A x, z \in 1 .. Len(seq) - 1 : b[x] = b[z] => x = z
           /\ \A x \in 1 .. Len(seq) \ {p} : \E z \in 1 .. Len(seq) - 1 : b[z] = x
           /\ \A i \in 1 .. Len(seq) - 1 : RemoveAt(seq, p)[i] = seq[b[i]]
<1> DEFINE n == Len(seq)
           b == [i \in 1 .. n - 1 |-> IF i < p THEN i ELSE i + 1]
<1>1. n \in Nat /\ p \in 1 .. n
  OBVIOUS
<1>2. \A i \in 1 .. n - 1 : RemoveAt(seq, p)[i] = seq[IF i < p THEN i ELSE i + 1]
  BY RemoveAtElements
<1> HIDE DEF n
<1>3. /\ \A i \in 1 .. n - 1 : b[i] = IF i < p THEN i ELSE i + 1
      /\ b \in [1 .. n - 1 -> 1 .. n \ {p}]
      /\ \A x, z \in 1 .. n - 1 : b[x] = b[z] => x = z
  BY <1>1
<1> HIDE DEF b
<1>4. ASSUME NEW x \in 1 .. n \ {p}
      PROVE  \E z \in 1 .. n - 1 : b[z] = x
  <2>1. CASE x < p
    <3>1. x \in 1 .. n - 1
      BY <1>1, <2>1
    <3> QED
      BY <1>3, <2>1, <3>1
  <2>2. CASE ~(x < p)
    <3>1. x - 1 \in 1 .. n - 1 /\ ~(x - 1 < p) /\ (x - 1) + 1 = x
      BY <1>1, <2>2
    <3> QED
      BY <1>3, <3>1
  <2> QED
    BY <2>1, <2>2
<1>5. \A i \in 1 .. n - 1 : RemoveAt(seq, p)[i] = seq[b[i]]
  BY <1>2, <1>3
<1> QED
  BY <1>3, <1>4, <1>5 DEF n

\* A coin taken out of a wallet takes its amount, wherever it is.
LEMMA SumAmountsRemoveAt ==
  ASSUME NEW coins \in Seq(CoinRecord), NEW p \in DOMAIN coins
  PROVE  SumAmounts(coins) = coins[p].amount + SumAmounts(RemoveAt(coins, p))
<1> DEFINE n == Len(coins)
           less == RemoveAt(coins, p)
           f == [i \in DOMAIN coins |-> coins[i].amount]
           h == [i \in DOMAIN less |-> less[i].amount]
<1>1. DOMAIN coins = 1 .. n /\ n \in Nat /\ p \in 1 .. n
  BY SeqDomainFinite
<1>2. IsFiniteSet(1 .. n) /\ IsFiniteSet(1 .. n - 1)
  BY <1>1, FS_Interval
<1>3. PICK b : /\ b \in [1 .. n - 1 -> 1 .. n \ {p}]
               /\ \A x, z \in 1 .. n - 1 : b[x] = b[z] => x = z
               /\ \A x \in 1 .. n \ {p} : \E z \in 1 .. n - 1 : b[z] = x
               /\ \A i \in 1 .. n - 1 : less[i] = coins[b[i]]
  <2> HIDE DEF f, h
  <2> QED
    BY RemoveAtRenames, SMTT(30)
<1>4. SumAmounts(coins) = SumFunction(f) /\ SumAmounts(less) = SumFunction(h)
  BY Zenon DEF SumAmounts
<1>5. /\ DOMAIN f = 1 .. n /\ \A i \in DOMAIN f : f[i] \in Nat
      /\ f[p] = coins[p].amount
  BY <1>1, CoinAmount
<1>6. DOMAIN h = 1 .. n - 1
  BY RemoveAtElements
<1>7. \A i \in DOMAIN h : h[i] = f[b[i]]
  BY <1>1, <1>3, <1>6
<1> HIDE DEF f, h, n, less
<1>8. /\ p \in DOMAIN f
      /\ IsFiniteSet(DOMAIN f) /\ IsFiniteSet(DOMAIN h)
      /\ b \in [DOMAIN h -> DOMAIN f \ {p}]
      /\ \A x, z \in DOMAIN h : b[x] = b[z] => x = z
      /\ \A x \in DOMAIN f \ {p} : \E z \in DOMAIN h : b[z] = x
      /\ \A x \in DOMAIN f : f[x] \in Nat
  BY <1>1, <1>2, <1>3, <1>5, <1>6
<1>9. SumFunction(f) = f[p] + SumFunction(h)
  <2>1. p \in DOMAIN f /\ IsFiniteSet(DOMAIN f) /\ IsFiniteSet(DOMAIN h)
    BY <1>8
  <2>2. b \in [DOMAIN h -> DOMAIN f \ {p}]
    BY <1>8
  <2>3. /\ \A x \in DOMAIN f : f[x] \in Nat
        /\ \A x \in DOMAIN h : h[x] \in Nat /\ h[x] = f[b[x]]
    BY <1>7, <1>8, <2>2
  <2>4. /\ \A x, z \in DOMAIN h : b[x] = b[z] => x = z
        /\ \A x \in DOMAIN f \ {p} : \E z \in DOMAIN h : b[z] = x
    BY <1>8
  <2> QED
    BY <2>1, <2>2, <2>3, <2>4, SumFunctionRemove, SMTT(30)
<1> QED
  BY <1>4, <1>5, <1>9 DEF less

-----------------------------------------------------------------------------
(* How often a sequence holds a coin.                                      *)

\* The number of occurrences is a number.
LEMMA OccurrencesNat ==
  ASSUME NEW S, NEW s \in Seq(S), NEW c
  PROVE  /\ IsFiniteSet({ i \in DOMAIN s : s[i] = c })
         /\ Occurrences(c, s) \in Nat
<1> DEFINE A == { i \in DOMAIN s : s[i] = c }
<1>1. IsFiniteSet(DOMAIN s) /\ A \in SUBSET DOMAIN s
  BY SeqDomainFinite
<1>2. IsFiniteSet(A)
  BY <1>1, FS_Subset
<1> QED
  BY <1>2, FS_CardinalityType DEF Occurrences

\* One element more is one occurrence more, if it is that coin.
LEMMA OccurrencesAppend ==
  ASSUME NEW S, NEW s \in Seq(S), NEW e \in S, NEW c
  PROVE  Occurrences(c, Append(s, e))
           = Occurrences(c, s) + IF e = c THEN 1 ELSE 0
<1> DEFINE A == { i \in DOMAIN s : s[i] = c }
           more == Append(s, e)
           B == { i \in DOMAIN more : more[i] = c }
           z == Len(s) + 1
<1>1. /\ DOMAIN s = 1 .. Len(s) /\ Len(s) \in Nat /\ DOMAIN more = 1 .. z
      /\ more[z] = e /\ \A i \in DOMAIN s : more[i] = s[i]
  BY SeqDomainFinite
<1>2. IsFiniteSet(A) /\ Cardinality(A) \in Nat
  BY OccurrencesNat DEF Occurrences
<1>3. z \notin A /\ DOMAIN more = DOMAIN s \cup {z}
  BY <1>1
<1>4. B = IF e = c THEN A \cup {z} ELSE A
  <2> HIDE DEF z, more
  <2>1. \A i : i \in B <=> i \in A \/ (i = z /\ e = c)
    BY <1>1, <1>3
  <2> HIDE DEF A, B
  <2>2. CASE e = c
    BY <2>1, <2>2
  <2>3. CASE e # c
    BY <2>1, <2>3
  <2> QED
    BY <2>2, <2>3
<1>5. Cardinality(B) = Cardinality(A) + IF e = c THEN 1 ELSE 0
  <2> HIDE DEF A, B, z
  <2>1. Cardinality(A \cup {z}) = Cardinality(A) + 1
    BY <1>2, <1>3, FS_AddElement
  <2>2. CASE e = c
    BY <1>4, <2>1, <2>2
  <2>3. CASE e # c
    BY <1>2, <1>4, <2>3
  <2> QED
    BY <2>2, <2>3
<1> QED
  BY <1>5 DEF Occurrences

\* One element less is one occurrence less, if it was that coin.
LEMMA OccurrencesRemoveAt ==
  ASSUME NEW S, NEW s \in Seq(S), NEW p \in DOMAIN s, NEW c
  PROVE  Occurrences(c, s)
           = Occurrences(c, RemoveAt(s, p)) + IF s[p] = c THEN 1 ELSE 0
<1> DEFINE n == Len(s)
           less == RemoveAt(s, p)
           A == { i \in DOMAIN s : s[i] = c }
           B == { i \in DOMAIN less : less[i] = c }
<1>1. DOMAIN s = 1 .. n /\ n \in Nat /\ p \in 1 .. n
  BY SeqDomainFinite
<1>2. PICK b \in [1 .. n - 1 -> 1 .. n \ {p}] :
        /\ \A x, z \in 1 .. n - 1 : b[x] = b[z] => x = z
        /\ \A x \in 1 .. n \ {p} : \E z \in 1 .. n - 1 : b[z] = x
        /\ \A i \in 1 .. n - 1 : less[i] = s[b[i]]
  BY RemoveAtRenames, SMTT(20)
<1>3. DOMAIN less = 1 .. n - 1
  BY RemoveAtElements
<1>4. IsFiniteSet(A) /\ Cardinality(A) \in Nat
  BY OccurrencesNat DEF Occurrences
<1>5. IsFiniteSet(B)
  <2>1. IsFiniteSet(1 .. n - 1) /\ B \in SUBSET (1 .. n - 1)
    BY <1>1, <1>3, FS_Interval
  <2> QED
    BY <2>1, FS_Subset
<1> DEFINE g == [i \in B |-> b[i]]
<1>6. g \in Bijection(B, A \ {p})
  <2>1. \A i \in B : i \in 1 .. n - 1 /\ g[i] = b[i]
    BY <1>3
  <2>2. g \in [B -> A \ {p}]
    <3>1. ASSUME NEW i \in B
          PROVE  b[i] \in A \ {p}
      <4>1. i \in 1 .. n - 1 /\ less[i] = c
        BY <1>3
      <4>2. b[i] \in 1 .. n \ {p} /\ s[b[i]] = c
        BY <1>2, <4>1
      <4> QED
        BY <1>1, <4>2
    <3> QED
      BY <3>1
  <2>3. \A x, z \in B : g[x] = g[z] => x = z
    BY <1>2, <2>1
  <2>4. ASSUME NEW x \in A \ {p}
        PROVE  \E z \in B : g[z] = x
    <3>1. x \in 1 .. n \ {p} /\ s[x] = c
      BY <1>1
    <3>2. PICK z \in 1 .. n - 1 : b[z] = x
      BY <1>2, <3>1
    <3>3. z \in B
      BY <1>2, <1>3, <3>1, <3>2
    <3> QED
      BY <3>2, <3>3
  <2> HIDE DEF g, A, B
  <2>5. g \in Injection(B, A \ {p})
    BY <2>2, <2>3 DEF Injection, IsInjective
  <2>6. g \in Surjection(B, A \ {p})
    BY <2>2, <2>4 DEF Surjection
  <2> QED
    BY <2>5, <2>6 DEF Bijection
<1> HIDE DEF g, A, B
<1>7. Cardinality(A \ {p}) = Cardinality(B)
  BY <1>5, <1>6, FS_Bijection DEF ExistsBijection
<1>8. Cardinality(A \ {p}) = IF p \in A THEN Cardinality(A) - 1 ELSE Cardinality(A)
  BY <1>4, FS_RemoveElement
<1>9. p \in A <=> s[p] = c
  BY DEF A
<1>10. Cardinality(A) = Cardinality(B) + IF s[p] = c THEN 1 ELSE 0
  BY <1>4, <1>7, <1>8, <1>9
<1> QED
  BY <1>10 DEF Occurrences, A, B, less

-----------------------------------------------------------------------------
(* The maps of the wallet have finitely many entries at any time.          *)

FiniteInv == IsFiniteSet(DOMAIN liabilities) /\ IsFiniteSet(DOMAIN pool_accounts)

\* So they have in every reachable state.
LEMMA FiniteInvHolds == Spec => []FiniteInv
<1>1. Init => FiniteInv
  BY LiabilityAssumption, FS_EmptySet DEF Init, MixerInit, FiniteInv
<1>2. FiniteInv /\ [Next]_vars => FiniteInv'
  <2> SUFFICES ASSUME FiniteInv, [Next]_vars
               PROVE  FiniteInv'
    OBVIOUS
  <2>1. ASSUME DOMAIN liabilities' = DOMAIN liabilities,
               pool_accounts' = pool_accounts
        PROVE  FiniteInv'
    BY <2>1 DEF FiniteInv
  <2>2. CASE NodeStep \/ UNCHANGED vars
    BY <2>1, <2>2 DEF NodeStep, vars, mixerVars
  <2>3. ASSUME NEW a \in AccountId, NEW p \in BOOLEAN, CreatePoolAccount(a, p)
        PROVE  FiniteInv'
    <3>1. /\ liabilities' = liabilities
          /\ DOMAIN pool_accounts' = DOMAIN pool_accounts \cup {a}
      BY <2>3 DEF CreatePoolAccount, InsertPoolAccount
    <3> QED
      BY <3>1, FS_AddElement DEF FiniteInv
  <2>4. ASSUME NEW u \in User, NEW c \in Coin, ReceiveDeposit(u, c)
        PROVE  FiniteInv'
    <3>1. /\ pool_accounts' = pool_accounts
          /\ DOMAIN liabilities' = DOMAIN liabilities \cup {u}
      BY <2>4 DEF ReceiveDeposit, CreditUser
    <3> QED
      BY <3>1, FS_AddElement DEF FiniteInv
  <2>5. CASE \E id \in OnChainIds(unspent_coins) : ConsolidateIntoPool(id)
    BY <2>1, <2>5 DEF ConsolidateIntoPool
  <2>6. CASE \E u \in User, x \in WithdrawAmount, c \in Destination :
               QueueWithdrawal(u, x, c)
    BY <2>1, <2>6 DEF QueueWithdrawal, DebitUser
  <2>7. CASE \/ \E r \in DOMAIN requests : ProcessSingleWithdrawal(r)
             \/ \E rs \in Batches : ProcessBatchedWithdrawals(rs)
    BY <2>1, <2>7 DEF ProcessSingleWithdrawal, ProcessBatchedWithdrawals, Deliver
  <2> QED
    BY <2>2, <2>3, <2>4, <2>5, <2>6, <2>7 DEF Next
<1> QED
  BY <1>1, <1>2, PTL DEF Spec

-----------------------------------------------------------------------------
(* The credits of a ledger.                                                *)

\* The entries of a ledger, which has finitely many.
LedgerOk(ledger) ==
  /\ IsFiniteSet(DOMAIN ledger)
  /\ ledger \in [DOMAIN ledger -> LiabilityEntry]

\* A credit adds no more than its amount, for an old user and for a new one.
LEMMA CreditUserCredits ==
  ASSUME NEW ledger, LedgerOk(ledger), NEW user, NEW amount \in 0 .. MaxAmount
  PROVE  /\ Credits(CreditUser(ledger, user, amount)) <= Credits(ledger) + amount
         /\ Credits(ledger) \in Nat
<1> DEFINE new == CreditUser(ledger, user, amount)
           f == [u \in DOMAIN ledger |-> ledger[u].credited]
           h == [u \in DOMAIN new |-> new[u].credited]
<1>1. Credits(ledger) = SumFunction(f) /\ Credits(new) = SumFunction(h)
  BY Zenon DEF Credits
<1>2. \A u \in DOMAIN ledger : ledger[u].credited \in 0 .. MaxAmount
  BY DEF LedgerOk, LiabilityEntry
<1>3. /\ DOMAIN new = DOMAIN ledger \cup {user}
      /\ \A u \in DOMAIN ledger \ {user} : new[u] = ledger[u]
      /\ user \in DOMAIN ledger =>
           new[user].credited = SaturatingAdd(ledger[user].credited, amount)
      /\ user \notin DOMAIN ledger =>
           new[user].credited = SaturatingAdd(0, amount)
  BY DEF CreditUser, LedgerOk, LiabilityEntry
<1>4. /\ user \in DOMAIN ledger =>
           /\ new[user].credited \in Nat
           /\ new[user].credited <= ledger[user].credited + amount
      /\ user \notin DOMAIN ledger =>
           /\ new[user].credited \in Nat
           /\ new[user].credited <= amount
  <2>1. CASE user \in DOMAIN ledger
    <3>1. ledger[user].credited \in 0 .. MaxAmount
      BY <1>2, <2>1
    <3> HIDE DEF new
    <3>2. /\ new[user].credited \in 0 .. MaxAmount
          /\ new[user].credited <= ledger[user].credited + amount
      BY <1>3, <2>1, <3>1, SaturatingAddBounds
    <3> QED
      BY <2>1, <3>2
  <2>2. CASE user \notin DOMAIN ledger
    <3>1. 0 \in 0 .. MaxAmount
      BY AmountAssumption
    <3> HIDE DEF new
    <3>2. /\ new[user].credited \in 0 .. MaxAmount
          /\ new[user].credited <= 0 + amount
      BY <1>3, <2>2, <3>1, SaturatingAddBounds
    <3> QED
      BY <2>2, <3>2
  <2> HIDE DEF new
  <2> QED
    BY <2>1, <2>2
<1>5. /\ DOMAIN f = DOMAIN ledger /\ DOMAIN h = DOMAIN f \cup {user}
      /\ \A u \in DOMAIN f : f[u] \in Nat
      /\ \A u \in DOMAIN f \ {user} : h[u] = f[u]
  BY <1>2, <1>3
<1>6. /\ h[user] \in Nat
      /\ user \in DOMAIN f => h[user] <= f[user] + amount
      /\ user \notin DOMAIN f => h[user] <= amount
  BY <1>3, <1>4
<1>7. IsFiniteSet(DOMAIN f) /\ amount \in Nat
  BY <1>5 DEF LedgerOk
<1> HIDE DEF f, h, new
<1>8. SumFunction(h) <= SumFunction(f) + amount
  BY <1>5, <1>6, <1>7, SumFunctionGrow
<1>9. SumFunction(f) \in Nat
  BY <1>5, <1>7, SumFunctionNat
<1> QED
  BY <1>1, <1>8, <1>9 DEF new

\* A reservation credits nothing and takes no credit.
LEMMA DebitUserCredits ==
  ASSUME NEW ledger, LedgerOk(ledger), NEW user \in DOMAIN ledger,
         NEW amount
  PROVE  Credits(DebitUser(ledger, user, amount)) = Credits(ledger)
<1> DEFINE new == DebitUser(ledger, user, amount)
<1>1. /\ DOMAIN new = DOMAIN ledger
      /\ \A u \in DOMAIN ledger : new[u].credited = ledger[u].credited
  BY DEF DebitUser, LedgerOk, LiabilityEntry
<1>2. [u \in DOMAIN new |-> new[u].credited]
        = [u \in DOMAIN ledger |-> ledger[u].credited]
  BY <1>1
<1> QED
  BY <1>2, Zenon DEF Credits

-----------------------------------------------------------------------------
(* The coins of the wallet, of the deposits and of the consolidations.     *)

\* The coins of a history are coins, and one entry more is one coin more.
LEMMA CoinsOfHistory ==
  ASSUME NEW C \in SUBSET CoinRecord, NEW E,
         \A x \in E : x.coin \in C,
         NEW hist \in Seq(E), NEW e \in E
  PROVE  LET Coins(h) == [i \in DOMAIN h |-> h[i].coin]
         IN /\ Coins(hist) \in Seq(C) /\ Coins(hist) \in Seq(CoinRecord)
            /\ Coins(Append(hist, e)) = Append(Coins(hist), e.coin)
<1> DEFINE Coins(h) == [i \in DOMAIN h |-> h[i].coin]
           n == Len(hist)
           more == Append(hist, e)
           cs == Coins(hist)
<1>1. DOMAIN hist = 1 .. n /\ n \in Nat
  BY SeqDomainFinite
<1>2. \A i \in 1 .. n : hist[i] \in E
  OBVIOUS
<1>3. cs \in [1 .. n -> C] /\ cs \in [1 .. n -> CoinRecord]
  BY <1>1, <1>2
<1>4. cs \in Seq(C) /\ cs \in Seq(CoinRecord) /\ Len(cs) = n
  BY <1>1, <1>3, FunctionIsSeq
<1>5. /\ DOMAIN more = 1 .. n + 1 /\ more[n + 1] = e
      /\ \A i \in 1 .. n : more[i] = hist[i]
  BY <1>1
<1>6. \A i \in 1 .. n : cs[i] = hist[i].coin
  BY <1>1
<1> DEFINE ds == Append(cs, e.coin)
<1>7. e.coin \in C
  OBVIOUS
<1> HIDE DEF cs
<1>8. /\ ds = [i \in 1 .. n + 1 |-> ds[i]]
      /\ ds[n + 1] = e.coin /\ \A i \in 1 .. n : ds[i] = cs[i]
  BY <1>1, <1>4, <1>7
<1> HIDE DEF more, ds
<1>9. ASSUME NEW i \in 1 .. n + 1
      PROVE  ds[i] = more[i].coin
  <2>1. CASE i = n + 1
    BY <1>5, <1>8, <2>1
  <2>2. CASE i # n + 1
    <3>1. i \in 1 .. n
      BY <1>1, <2>2
    <3> QED
      BY <1>5, <1>6, <1>8, <3>1
  <2> QED
    BY <2>1, <2>2
<1>10. Coins(more) = ds
  BY <1>5, <1>8, <1>9
<1> QED
  BY <1>4, <1>10 DEF cs, ds, more

\* So it is with the deposits
LEMMA DepositedCoinsStep ==
  ASSUME HandlerTypeOK
  PROVE  /\ DepositedCoins \in Seq(Coin) /\ DepositedCoins \in Seq(CoinRecord)
         /\ \A coin \in Coin, user \in User :
              ReceiveDeposit(user, coin) =>
                DepositedCoins' = Append(DepositedCoins, coin)
<1> DEFINE E == [coin : Coin, user : User]
<1>1. \A x \in E : x.coin \in Coin
  OBVIOUS
<1>2. deposits \in Seq(E)
  BY DEF HandlerTypeOK
<1>3. Coin \in SUBSET CoinRecord
  BY CoinAssumption
<1>4. ASSUME NEW e \in E
      PROVE  LET Coins(h) == [i \in DOMAIN h |-> h[i].coin]
             IN /\ Coins(deposits) \in Seq(Coin)
                /\ Coins(deposits) \in Seq(CoinRecord)
                /\ Coins(Append(deposits, e)) = Append(Coins(deposits), e.coin)
  <2> HIDE DEF E
  <2> QED
    BY <1>1, <1>2, <1>3, CoinsOfHistory
<1>5. ASSUME NEW coin \in Coin, NEW user \in User, ReceiveDeposit(user, coin)
      PROVE  DepositedCoins' = Append(DepositedCoins, coin)
  <2> DEFINE e == [coin |-> coin, user |-> user]
  <2>1. e \in E /\ e.coin = coin
    OBVIOUS
  <2>2. deposits' = Append(deposits, e)
    BY <1>5 DEF ReceiveDeposit
  <2> HIDE DEF e, E
  <2> DEFINE next == Append(deposits, e)
  <2>3. DepositedCoins' = [i \in DOMAIN next |-> next[i].coin]
    BY <2>2 DEF DepositedCoins
  <2>4. [i \in DOMAIN next |-> next[i].coin] = Append(DepositedCoins, e.coin)
    BY <1>4, <2>1 DEF DepositedCoins
  <2>5. [i \in DOMAIN next |-> next[i].coin] = Append(DepositedCoins, coin)
    BY <2>1, <2>4, Zenon
  <2> HIDE DEF next
  <2> QED
    BY <2>3, <2>5, Zenon
<1>6. DepositedCoins \in Seq(Coin) /\ DepositedCoins \in Seq(CoinRecord)
  <2>1. ASSUME NEW i \in 1 .. Len(deposits)
        PROVE  deposits[i].coin \in Coin
    <3>1. deposits[i] \in E
      BY <1>2, ElementOfSeq
    <3> QED
      BY <3>1
  <2>2. /\ DepositedCoins \in [1 .. Len(deposits) -> Coin]
        /\ DepositedCoins \in [1 .. Len(deposits) -> CoinRecord]
    BY <1>2, <1>3, <2>1 DEF DepositedCoins
  <2>3. Len(deposits) \in Nat
    BY <1>2
  <2> QED
    BY <2>2, <2>3, FunctionIsSeq
<1> QED
  BY <1>5, <1>6

\* and with what consolidation takes.
LEMMA ConsumedCoinsStep ==
  ASSUME HandlerTypeOK, NEW id \in OnChainIds(unspent_coins),
         ConsolidateIntoPool(id)
  PROVE  \E p \in DOMAIN unspent_coins :
           /\ unspent_coins' = RemoveAt(unspent_coins, p)
           /\ ConsumedCoins \in Seq(CoinRecord)
           /\ unspent_coins[p] \in CoinRecord
           /\ ConsumedCoins' = Append(ConsumedCoins, unspent_coins[p])
<1> DEFINE p == PositionOf(unspent_coins, id)
           c == unspent_coins[p]
           e == [coin |-> c, ok |-> HasPrimary]
           E == [coin : CoinRecord, ok : BOOLEAN]
<1>1. unspent_coins \in Seq(CoinRecord) /\ p \in DOMAIN unspent_coins
  BY PositionFound DEF HandlerTypeOK
<1>2. /\ unspent_coins' = RemoveAt(unspent_coins, p)
      /\ consumed' = Append(consumed, e)
  BY DEF ConsolidateIntoPool, RemoveUnspentCoin
<1> HIDE DEF p
<1>3. c \in CoinRecord
  BY <1>1
<1>4. e \in E /\ e.coin = c
  BY <1>3 DEF HasPrimary
<1>5. consumed \in Seq(E) /\ \A x \in E : x.coin \in CoinRecord
  BY DEF HandlerTypeOK
<1> HIDE DEF e, E, c
<1>6. LET Coins(h) == [i \in DOMAIN h |-> h[i].coin]
      IN /\ Coins(consumed) \in Seq(CoinRecord)
         /\ Coins(Append(consumed, e)) = Append(Coins(consumed), e.coin)
  BY <1>4, <1>5, CoinsOfHistory
<1>7. ConsumedCoins \in Seq(CoinRecord) /\ ConsumedCoins' = Append(ConsumedCoins, c)
  BY <1>2, <1>4, <1>6 DEF ConsumedCoins
<1> QED
  BY <1>1, <1>2, <1>3, <1>7 DEF c

\* The coins taken out of the wallet are coins.
LEMMA ConsumedCoinsType ==
  ASSUME HandlerTypeOK
  PROVE  ConsumedCoins \in Seq(CoinRecord) /\ Len(ConsumedCoins) = Len(consumed)
<1>1. consumed \in Seq([coin : CoinRecord, ok : BOOLEAN])
  BY DEF HandlerTypeOK
<1>2. ASSUME NEW i \in 1 .. Len(consumed)
      PROVE  consumed[i].coin \in CoinRecord
  <2>1. consumed[i] \in [coin : CoinRecord, ok : BOOLEAN]
    BY <1>1, ElementOfSeq
  <2> QED
    BY <2>1
<1>3. ConsumedCoins \in [1 .. Len(consumed) -> CoinRecord]
  BY <1>1, <1>2 DEF ConsumedCoins
<1>4. Len(consumed) \in Nat
  BY <1>1
<1> QED
  BY <1>3, <1>4, FunctionIsSeq

\* Both sides of the account grow together,
LEMMA AccountedStep ==
  ASSUME HandlerTypeOK, CoinsAccounted, [Next]_vars
  PROVE  CoinsAccounted'
<1> DEFINE Q(c) == Occurrences(c, unspent_coins) + Occurrences(c, ConsumedCoins)
                     = Occurrences(c, NodeCoins) + Occurrences(c, DepositedCoins)
<1>1. ASSUME UNCHANGED <<unspent_coins, consumed, deposits>>
      PROVE  CoinsAccounted'
  BY <1>1 DEF CoinsAccounted, ConsumedCoins, DepositedCoins
<1>2. unspent_coins \in Seq(CoinRecord) /\ NodeCoins \in Seq(CoinRecord)
  BY CoinAssumption DEF HandlerTypeOK
<1>3. CASE NodeStep \/ UNCHANGED vars
  BY <1>1, <1>3 DEF NodeStep, vars, mixerVars
<1>4. CASE \E a \in AccountId, p \in BOOLEAN : CreatePoolAccount(a, p)
  BY <1>1, <1>4 DEF CreatePoolAccount
<1>5. ASSUME NEW user \in User, NEW coin \in Coin, ReceiveDeposit(user, coin)
      PROVE  CoinsAccounted'
  <2>1. /\ unspent_coins' = Append(unspent_coins, coin)
        /\ ConsumedCoins' = ConsumedCoins
        /\ coin \in CoinRecord
    BY <1>5, CoinAssumption DEF ReceiveDeposit, ConsumedCoins
  <2>2. /\ DepositedCoins \in Seq(CoinRecord)
        /\ DepositedCoins' = Append(DepositedCoins, coin)
    BY <1>5, DepositedCoinsStep
  <2>3. ASSUME NEW c \in Coin \cup ToSet(NodeCoins)
        PROVE  Occurrences(c, unspent_coins') + Occurrences(c, ConsumedCoins')
                 = Occurrences(c, NodeCoins) + Occurrences(c, DepositedCoins')
    <3> DEFINE one == IF coin = c THEN 1 ELSE 0
    <3>1. Occurrences(c, unspent_coins') = Occurrences(c, unspent_coins) + one
      BY <1>2, <2>1, OccurrencesAppend
    <3>2. Occurrences(c, DepositedCoins') = Occurrences(c, DepositedCoins) + one
      BY <2>1, <2>2, OccurrencesAppend
    <3>3. Q(c)
      BY DEF CoinsAccounted
    <3>4. /\ Occurrences(c, unspent_coins) \in Nat
          /\ Occurrences(c, NodeCoins) \in Nat
          /\ Occurrences(c, DepositedCoins) \in Nat
      BY <1>2, <2>2, OccurrencesNat
    <3>5. Occurrences(c, ConsumedCoins) \in Nat
      BY ConsumedCoinsType, OccurrencesNat
    <3>6. one \in Nat
      OBVIOUS
    <3>7. Occurrences(c, ConsumedCoins') = Occurrences(c, ConsumedCoins)
      BY <2>1
    <3> HIDE DEF one
    <3> QED
      BY <3>1, <3>2, <3>3, <3>4, <3>5, <3>6, <3>7
  <2> QED
    BY <2>3 DEF CoinsAccounted
<1>6. ASSUME NEW id \in OnChainIds(unspent_coins), ConsolidateIntoPool(id)
      PROVE  CoinsAccounted'
  <2>1. PICK p \in DOMAIN unspent_coins :
          /\ unspent_coins' = RemoveAt(unspent_coins, p)
          /\ ConsumedCoins \in Seq(CoinRecord)
          /\ unspent_coins[p] \in CoinRecord
          /\ ConsumedCoins' = Append(ConsumedCoins, unspent_coins[p])
    BY <1>6, ConsumedCoinsStep
  <2>2. DepositedCoins' = DepositedCoins
    BY <1>6 DEF ConsolidateIntoPool, DepositedCoins
  <2>3. unspent_coins' \in Seq(CoinRecord)
    BY <1>2, <2>1, RemoveAtType
  <2>4. ASSUME NEW c \in Coin \cup ToSet(NodeCoins)
        PROVE  Occurrences(c, unspent_coins') + Occurrences(c, ConsumedCoins')
                 = Occurrences(c, NodeCoins) + Occurrences(c, DepositedCoins')
    <3> DEFINE one == IF unspent_coins[p] = c THEN 1 ELSE 0
    <3>1. Occurrences(c, unspent_coins) = Occurrences(c, unspent_coins') + one
      BY <1>2, <2>1, OccurrencesRemoveAt
    <3>2. Occurrences(c, ConsumedCoins') = Occurrences(c, ConsumedCoins) + one
      BY <2>1, OccurrencesAppend
    <3>3. Q(c)
      BY DEF CoinsAccounted
    <3>4. /\ Occurrences(c, unspent_coins') \in Nat
          /\ Occurrences(c, ConsumedCoins) \in Nat
      BY <2>1, <2>3, OccurrencesNat
    <3>5. one \in Nat
      OBVIOUS
    <3> HIDE DEF one
    <3> QED
      BY <2>2, <3>1, <3>2, <3>3, <3>4, <3>5
  <2> QED
    BY <2>4 DEF CoinsAccounted
<1>7. CASE \E u \in User, x \in WithdrawAmount, c \in Destination :
             QueueWithdrawal(u, x, c)
  BY <1>1, <1>7 DEF QueueWithdrawal
<1>8. CASE \/ \E r \in DOMAIN requests : ProcessSingleWithdrawal(r)
           \/ \E rs \in Batches : ProcessBatchedWithdrawals(rs)
  BY <1>1, <1>8 DEF ProcessSingleWithdrawal, ProcessBatchedWithdrawals, Deliver
<1> QED
  BY <1>3, <1>4, <1>5, <1>6, <1>7, <1>8 DEF Next

\* so no coin is lost or duplicated: what was there at the start or was
\* deposited is in the wallet or was taken by a consolidation, as often.
THEOREM CoinsAccountedHolds == Spec => []CoinsAccounted
<1>1. Init => CoinsAccounted
  <2> SUFFICES ASSUME Init, NEW c \in Coin \cup ToSet(NodeCoins)
               PROVE  Occurrences(c, unspent_coins) + Occurrences(c, ConsumedCoins)
                        = Occurrences(c, NodeCoins) + Occurrences(c, DepositedCoins)
    BY DEF CoinsAccounted
  <2>1. unspent_coins = NodeCoins
    BY DEF Init, MixerInit
  <2>2. ConsumedCoins = DepositedCoins
    BY DEF Init, MixerInit, ConsumedCoins, DepositedCoins
  <2> QED
    BY <2>1, <2>2
<1>2. MixerInv /\ CoinsAccounted /\ [Next]_vars => CoinsAccounted'
  BY AccountedStep DEF MixerInv
<1> QED
  BY <1>1, <1>2, MixerInvHolds, PTL DEF Spec

-----------------------------------------------------------------------------
(* What is credited is covered by coins.                                   *)

\* The amounts deposited cover what is credited beyond the initial credits.
CreditInv ==
  Credits(liabilities) <= Credits(InitialLiabilities) + SumAmounts(DepositedCoins)

\* The credits of a ledger are a number.
LEMMA CreditsNat ==
  ASSUME NEW ledger, LedgerOk(ledger)
  PROVE  Credits(ledger) \in Nat
<1>1. 0 \in 0 .. MaxAmount
  BY AmountAssumption
<1> QED
  BY <1>1, CreditUserCredits

\* So are those of the wallet that is copied.
LEMMA InitialLedgerOk == LedgerOk(InitialLiabilities)
BY LiabilityAssumption DEF LedgerOk

\* A deposit credits no more than its amount.
LEMMA ReceiveDepositCredits ==
  ASSUME MixerInv, FiniteInv, CreditInv, NEW user \in User, NEW coin \in Coin,
         ReceiveDeposit(user, coin)
  PROVE  CreditInv'
<1>1. liabilities' = CreditUser(liabilities, user, coin.amount)
  BY DEF ReceiveDeposit
<1>2. coin \in CoinRecord
  BY CoinAssumption
<1>3. coin.amount \in 0 .. MaxAmount
  BY <1>2, CoinAmount
<1>4. LedgerOk(liabilities)
  BY DEF LedgerOk, MixerInv, LedgerInv, FiniteInv
<1>5. /\ Credits(liabilities') <= Credits(liabilities) + coin.amount
      /\ Credits(liabilities) \in Nat
  BY <1>1, <1>3, <1>4, CreditUserCredits
<1>6. /\ DepositedCoins \in Seq(CoinRecord)
      /\ DepositedCoins' = Append(DepositedCoins, coin)
  BY DepositedCoinsStep DEF MixerInv
<1>7. SumAmounts(DepositedCoins') = SumAmounts(DepositedCoins) + coin.amount
  BY <1>2, <1>6, SumAmountsAppend
<1>8. DOMAIN liabilities' = DOMAIN liabilities \cup {user}
  BY <1>1 DEF CreditUser
<1>9. IsFiniteSet(DOMAIN liabilities')
  BY <1>8, FS_AddElement DEF FiniteInv
<1>10. LedgerOk(liabilities')
  <2>1. LedgerInv'
    BY ReceiveDepositLedger DEF MixerInv
  <2> QED
    BY <1>9, <2>1 DEF LedgerInv, LedgerOk
<1>11. Credits(liabilities') \in Nat /\ Credits(InitialLiabilities) \in Nat
  BY <1>10, CreditsNat, InitialLedgerOk
<1>12. SumAmounts(DepositedCoins) \in Nat /\ coin.amount \in Nat
  BY <1>3, <1>6, SumAmountsNat
<1> QED
  BY <1>5, <1>7, <1>11, <1>12 DEF CreditInv

\* Nothing else credits anything.
LEMMA CreditStep ==
  ASSUME MixerInv, FiniteInv, CreditInv, [Next]_vars
  PROVE  CreditInv'
<1>1. ASSUME UNCHANGED <<liabilities, deposits>>
      PROVE  CreditInv'
  BY <1>1 DEF CreditInv, DepositedCoins
<1>2. CASE NodeStep \/ UNCHANGED vars
  BY <1>1, <1>2 DEF NodeStep, vars, mixerVars
<1>3. CASE \/ \E a \in AccountId, p \in BOOLEAN : CreatePoolAccount(a, p)
           \/ \E id \in OnChainIds(unspent_coins) : ConsolidateIntoPool(id)
  BY <1>1, <1>3 DEF CreatePoolAccount, ConsolidateIntoPool
<1>4. CASE \E u \in User, c \in Coin : ReceiveDeposit(u, c)
  BY <1>4, ReceiveDepositCredits
<1>5. ASSUME NEW u \in User, NEW x \in WithdrawAmount, NEW c \in Destination,
             QueueWithdrawal(u, x, c)
      PROVE  CreditInv'
  <2> DEFINE total == ReservedTotal(x, WithdrawalServiceFee)
  <2>1. /\ liabilities' = DebitUser(liabilities, u, total)
        /\ u \in DOMAIN liabilities
        /\ deposits' = deposits
    BY <1>5 DEF QueueWithdrawal, CanDebit
  <2> HIDE DEF total
  <2>2. LedgerOk(liabilities)
    BY DEF LedgerOk, MixerInv, LedgerInv, FiniteInv
  <2>3. Credits(liabilities') = Credits(liabilities)
    BY <2>1, <2>2, DebitUserCredits
  <2> QED
    BY <2>1, <2>3 DEF CreditInv, DepositedCoins
<1>6. CASE \/ \E r \in DOMAIN requests : ProcessSingleWithdrawal(r)
           \/ \E rs \in Batches : ProcessBatchedWithdrawals(rs)
  BY <1>1, <1>6 DEF ProcessSingleWithdrawal, ProcessBatchedWithdrawals, Deliver
<1> QED
  BY <1>2, <1>3, <1>4, <1>5, <1>6 DEF Next

\* So it stays.
LEMMA CreditInvHolds == Spec => []CreditInv
<1>1. Init => CreditInv
  <2> SUFFICES ASSUME Init PROVE CreditInv
    OBVIOUS
  <2>1. liabilities = InitialLiabilities
    BY DEF Init, MixerInit
  <2>2. DepositedCoins \in Seq(CoinRecord)
    BY DEF Init, MixerInit, DepositedCoins
  <2>3. SumAmounts(DepositedCoins) \in Nat /\ Credits(InitialLiabilities) \in Nat
    BY <2>2, SumAmountsNat, CreditsNat, InitialLedgerOk
  <2> QED
    BY <2>1, <2>3 DEF CreditInv
<1>2. MixerInv /\ FiniteInv /\ CreditInv /\ [Next]_vars => CreditInv'
  BY CreditStep
<1> QED
  BY <1>1, <1>2, MixerInvHolds, FiniteInvHolds, PTL DEF Spec

\* The worth of finitely many coins, as the sum it is.
LEMMA WorthAsSum ==
  ASSUME NEW amount, NEW T, IsFiniteSet(T),
         \A c \in T : amount[c] = c.amount /\ c.amount \in Nat
  PROVE  Worth(T) = SumFunctionOnSet(amount, T) /\ Worth(T) \in Nat
<1> DEFINE f == [c \in T |-> c.amount]
<1>1. DOMAIN f = T /\ \A c \in T : f[c] \in Nat /\ f[c] = amount[c]
  OBVIOUS
<1>2. Worth(T) = SumFunctionOnSet(f, T)
  BY <1>1 DEF Worth, SumFunction
<1> HIDE DEF f
<1> QED
  BY <1>1, <1>2, SumCongruent, SumNat

\* Coins deposited once each are worth what was deposited.
LEMMA DepositsWorth ==
  ASSUME HandlerTypeOK, CoinCreditedOnce
  PROVE  /\ IsFiniteSet(ToSet(DepositedCoins))
         /\ ToSet(DepositedCoins) \subseteq CoinRecord
         /\ SumAmounts(DepositedCoins) = Worth(ToSet(DepositedCoins))
<1> DEFINE T == DOMAIN DepositedCoins
           S == ToSet(DepositedCoins)
           amount == [c \in S |-> c.amount]
           b == DepositedCoins
           f == [i \in T |-> DepositedCoins[i].amount]
           g == [i \in T |-> amount[b[i]]]
<1>1. DepositedCoins \in Seq(CoinRecord) /\ IsFiniteSet(T)
  BY DepositedCoinsStep, SeqDomainFinite
<1>2. S = { b[i] : i \in T } /\ S \subseteq CoinRecord
  BY <1>1 DEF ToSet
<1>3. b \in [T -> S]
  BY <1>1, <1>2
<1>4. \A i, j \in T : b[i] = b[j] => i = j
  BY DEF CoinCreditedOnce, DepositedCoins
<1>5. \A c \in S : c.amount \in Nat /\ amount[c] = c.amount
  BY <1>2, CoinAmount
<1>6. IsFiniteSet(S)
  <2>1. b \in Surjection(T, S)
    BY <1>2, <1>3 DEF Surjection
  <2> HIDE DEF S, T, b
  <2> QED
    BY <1>1, <2>1, FS_Surjection
<1>7. f = g
  BY <1>2, <1>5
<1>8. SumAmounts(DepositedCoins) = SumFunctionOnSet(g, T)
  <2>1. DOMAIN f = T
    OBVIOUS
  <2> HIDE DEF g
  <2>2. SumAmounts(DepositedCoins) = SumFunction(f)
    BY Zenon DEF SumAmounts
  <2> HIDE DEF f
  <2> QED
    BY <1>7, <2>1, <2>2 DEF SumFunction
<1> HIDE DEF S, T, b, f, amount
<1>9. SumFunctionOnSet(amount, S) = SumFunctionOnSet(g, T)
  BY <1>1, <1>2, <1>3, <1>4, <1>5, SumReindex
<1>10. Worth(S) = SumFunctionOnSet(amount, S)
  BY <1>5, <1>6, WorthAsSum
<1> QED
  BY <1>2, <1>6, <1>8, <1>9, <1>10 DEF S

\* No coin received is counted twice: those deposited are none of the first.
LEMMA ReceivedWorth ==
  ASSUME HandlerTypeOK, CoinCreditedOnce, SnapshotCoinsRefused
  PROVE  /\ Worth(CoinsReceived)
              = Worth(ToSet(NodeCoins)) + SumAmounts(DepositedCoins)
         /\ Worth(ToSet(NodeCoins)) \in Nat
         /\ SumAmounts(DepositedCoins) \in Nat
<1> DEFINE A == ToSet(NodeCoins)
           B == ToSet(DepositedCoins)
           amount == [c \in A \cup B |-> c.amount]
<1>1. /\ IsFiniteSet(B) /\ B \subseteq CoinRecord
      /\ SumAmounts(DepositedCoins) = Worth(B)
  BY DepositsWorth
<1>2. IsFiniteSet(A) /\ A \subseteq CoinRecord
  <2>1. NodeCoins \in Seq(CoinRecord) /\ IsFiniteSet(DOMAIN NodeCoins)
    BY CoinAssumption, SeqDomainFinite
  <2>2. A = { NodeCoins[i] : i \in DOMAIN NodeCoins } /\ A \subseteq CoinRecord
    BY <2>1 DEF ToSet
  <2>3. NodeCoins \in Surjection(DOMAIN NodeCoins, A)
    BY <2>1, <2>2 DEF Surjection
  <2> HIDE DEF A
  <2> QED
    BY <2>1, <2>2, <2>3, FS_Surjection
<1>3. A \cap B = {}
  <2> SUFFICES ASSUME NEW c \in A, c \in B PROVE FALSE
    OBVIOUS
  <2>1. PICK i \in DOMAIN NodeCoins : NodeCoins[i] = c
    BY DEF ToSet
  <2>2. PICK j \in DOMAIN deposits : deposits[j].coin = c
    BY DEF ToSet, DepositedCoins
  <2> QED
    BY <2>1, <2>2 DEF SnapshotCoinsRefused, OnChainIds
<1>4. \A c \in A \cup B : c.amount \in Nat /\ amount[c] = c.amount
  BY <1>1, <1>2, CoinAmount
<1>5. CoinsReceived = A \cup B
  BY DEF CoinsReceived
<1> HIDE DEF A, B, amount
<1>6. IsFiniteSet(A \cup B)
  BY <1>1, <1>2, FS_Union
<1>7. /\ Worth(A) = SumFunctionOnSet(amount, A) /\ Worth(A) \in Nat
      /\ Worth(B) = SumFunctionOnSet(amount, B) /\ Worth(B) \in Nat
      /\ Worth(A \cup B) = SumFunctionOnSet(amount, A \cup B)
  BY <1>1, <1>2, <1>4, <1>6, WorthAsSum
<1>8. SumFunctionOnSet(amount, A \cup B)
        = SumFunctionOnSet(amount, A) + SumFunctionOnSet(amount, B)
  BY <1>1, <1>2, <1>3, <1>4, SumUnion
<1> QED
  BY <1>1, <1>5, <1>7, <1>8 DEF A

\* If the wallet both sides copy holds coins for what it credits, then, as long
\* as no deposit is accepted twice and whatever is deposited and withdrawn, in
\* any order, what is credited is covered by the coins received, each counted
\* once.
THEOREM CreditBackedHolds ==
  ASSUME InitiallyBacked
  PROVE  Spec => []CreditBacked
<1>1. MixerInv /\ CreditInv /\ SnapshotCoinsRefused /\ FiniteInv => CreditBacked
  <2> SUFFICES ASSUME MixerInv, CreditInv, SnapshotCoinsRefused, FiniteInv,
                      CoinCreditedOnce
               PROVE  Credits(liabilities) <= Worth(CoinsReceived)
    BY DEF CreditBacked
  <2>1. /\ Worth(CoinsReceived)
             = Worth(ToSet(NodeCoins)) + SumAmounts(DepositedCoins)
        /\ Worth(ToSet(NodeCoins)) \in Nat
        /\ SumAmounts(DepositedCoins) \in Nat
    BY ReceivedWorth DEF MixerInv
  <2>2. LedgerOk(liabilities)
    BY DEF LedgerOk, MixerInv, LedgerInv, FiniteInv
  <2>3. Credits(liabilities) \in Nat /\ Credits(InitialLiabilities) \in Nat
    BY <2>2, CreditsNat, InitialLedgerOk
  <2>4. /\ Credits(InitialLiabilities) <= Worth(ToSet(NodeCoins))
        /\ Credits(liabilities)
             <= Credits(InitialLiabilities) + SumAmounts(DepositedCoins)
    BY InitiallyBacked DEF InitiallyBacked, CreditInv
  <2> QED
    BY <2>1, <2>3, <2>4
<1> QED
  BY <1>1, MixerInvHolds, CreditInvHolds, SnapshotCoinsRefusedHolds,
     FiniteInvHolds, PTL

-----------------------------------------------------------------------------
(* What is withdrawn is what the requests queued reserve.                  *)

\* What the requests queued for a user set aside.
ReservationOf(u) == [r \in RequestsOf(u) |-> ReservedBy(r)]

\* An entry, once in the ledger, stays there, so that a user who is new to it
\* was not in the wallet copied.
ReservationsInv ==
  /\ DOMAIN InitialLiabilities \subseteq DOMAIN liabilities
  /\ ReservationsExact

\* The requests of a user are finitely many.
LEMMA RequestsOfFinite ==
  ASSUME HandlerTypeOK, NEW u
  PROVE  IsFiniteSet(RequestsOf(u))
<1>1. requests \in Seq(Request)
  BY DEF HandlerTypeOK
<1> QED
  BY <1>1, SeqDomainFinite, FS_Subset DEF RequestsOf

\* A request sets aside a number no less than its amount.
LEMMA RequestAmounts ==
  ASSUME HandlerTypeOK, NEW r \in DOMAIN requests
  PROVE  /\ ReservedBy(r) \in 0 .. MaxAmount
         /\ requests[r].amount \in 0 .. MaxAmount
         /\ requests[r].amount <= ReservedBy(r)
<1>1. requests[r] \in Request
  BY DEF HandlerTypeOK
<1>2. /\ requests[r].amount \in 0 .. MaxAmount
      /\ requests[r].service_fee \in 0 .. MaxAmount
  BY <1>1 DEF Request
<1> QED
  BY <1>2, SaturatingAddBounds DEF ReservedBy, ReservedTotal

\* What is set aside for a user is a number.
LEMMA ReservationOfNat ==
  ASSUME HandlerTypeOK, NEW u
  PROVE  /\ DOMAIN ReservationOf(u) = RequestsOf(u)
         /\ \A r \in RequestsOf(u) : ReservationOf(u)[r] \in Nat
         /\ SumFunction(ReservationOf(u)) \in Nat
<1> DEFINE f == ReservationOf(u)
<1>1. ASSUME NEW r \in RequestsOf(u)
      PROVE  f[r] \in Nat
  BY RequestAmounts DEF ReservationOf, RequestsOf
<1>2. DOMAIN f = RequestsOf(u)
  BY DEF ReservationOf
<1> HIDE DEF f
<1>3. SumFunction(f) \in Nat
  BY <1>1, <1>2, RequestsOfFinite, SumFunctionNat
<1> QED
  BY <1>1, <1>2, <1>3 DEF f

\* The initial entries are those of users, with numbers in them.
LEMMA InitiallyWithdrawnNat ==
  ASSUME NEW u
  PROVE  InitiallyWithdrawn(u) \in Nat
<1>1. CASE u \in DOMAIN InitialLiabilities
  <2>1. InitialLiabilities[u] \in LiabilityEntry
    BY <1>1, LiabilityAssumption
  <2> QED
    BY <1>1, <2>1 DEF InitiallyWithdrawn, LiabilityEntry
<1>2. CASE u \notin DOMAIN InitialLiabilities
  BY <1>2 DEF InitiallyWithdrawn
<1> QED
  BY <1>1, <1>2

\* A queued request reserves its total for its user and nothing for another.
LEMMA QueueReserves ==
  ASSUME MixerInv, NEW user \in User, NEW amount \in WithdrawAmount,
         NEW address \in Destination, QueueWithdrawal(user, amount, address)
  PROVE  /\ SumFunction(ReservationOf(user)')
              = SumFunction(ReservationOf(user))
                + ReservedTotal(amount, WithdrawalServiceFee)
         /\ \A u \in User \ {user} : /\ ReservationOf(u)' = ReservationOf(u)
                                     /\ RequestsOf(u)' = RequestsOf(u)
<1> DEFINE total == ReservedTotal(amount, WithdrawalServiceFee)
           n == Len(requests)
           new == n + 1
           r == [ user                |-> user,
                  amount              |-> amount,
                  service_fee         |-> WithdrawalServiceFee,
                  destination_address |-> address ]
           f == ReservationOf(user)
           h == ReservationOf(user)'
<1>1. total \in 0 .. MaxAmount
  BY AmountAssumption, SaturatingAddBounds DEF ReservedTotal
<1>2. requests' = Append(requests, r)
  BY DEF QueueWithdrawal
<1>3. /\ r.user = user
      /\ ReservedTotal(r.amount, r.service_fee) = total
  OBVIOUS
<1> HIDE DEF r
<1>4. requests \in Seq(Request)
  BY DEF MixerInv, HandlerTypeOK
<1>5. /\ DOMAIN requests = 1 .. n /\ n \in Nat
      /\ DOMAIN requests' = DOMAIN requests \cup {new}
      /\ new \notin DOMAIN requests
      /\ requests'[new] = r
      /\ \A i \in DOMAIN requests : requests'[i] = requests[i]
  BY <1>2, <1>4
<1> HIDE DEF total, new, n
<1>6. /\ RequestsOf(user)' = RequestsOf(user) \cup {new}
      /\ new \notin RequestsOf(user)
      /\ \A u \in User \ {user} : RequestsOf(u)' = RequestsOf(u)
  BY <1>3, <1>5 DEF RequestsOf
<1>7. /\ ReservedTotal(requests'[new].amount, requests'[new].service_fee) = total
      /\ \A i \in DOMAIN requests : ReservedBy(i)' = ReservedBy(i)
  BY <1>3, <1>5 DEF ReservedBy
<1>8. ASSUME NEW u \in User \ {user}
      PROVE  ReservationOf(u)' = ReservationOf(u)
  BY <1>6, <1>7 DEF ReservationOf, RequestsOf
<1>9. /\ DOMAIN f = RequestsOf(user)
      /\ DOMAIN h = DOMAIN f \cup {new}
      /\ new \notin DOMAIN f
      /\ \A i \in DOMAIN f : h[i] = f[i]
      /\ h[new] = total
  <2>1. /\ f = [i \in RequestsOf(user) |-> ReservedBy(i)]
        /\ h = [i \in RequestsOf(user)' |-> ReservedBy(i)']
    BY DEF ReservationOf
  <2>2. /\ DOMAIN f = RequestsOf(user) /\ DOMAIN h = RequestsOf(user)'
        /\ new \in RequestsOf(user)'
        /\ \A i \in RequestsOf(user) :
             i \in DOMAIN requests /\ i \in RequestsOf(user)'
    BY <1>6, <2>1 DEF RequestsOf
  <2>3. h[new] = total
    BY <1>7, <2>1, <2>2 DEF ReservedBy
  <2> QED
    BY <1>6, <1>7, <2>1, <2>2, <2>3
<1>10. IsFiniteSet(DOMAIN f) /\ \A i \in DOMAIN f : f[i] \in Nat
  BY <1>9, ReservationOfNat, RequestsOfFinite DEF MixerInv
<1> HIDE DEF f, h
<1>11. SumFunction(h) = SumFunction(f) + h[new]
  BY <1>1, <1>9, <1>10, SumFunctionExtend
<1> QED
  BY <1>6, <1>8, <1>9, <1>11 DEF f, h, total

\* A request takes from the credit what it reserves.
LEMMA QueueKeepsReservations ==
  ASSUME MixerInv, ReservationsInv, NEW user \in User,
         NEW amount \in WithdrawAmount, NEW address \in Destination,
         QueueWithdrawal(user, amount, address)
  PROVE  ReservationsInv'
<1> DEFINE total == ReservedTotal(amount, WithdrawalServiceFee)
           old == liabilities[user]
<1>1. /\ user \in DOMAIN liabilities
      /\ Available(old) >= total
      /\ liabilities' = DebitUser(liabilities, user, total)
  BY DEF QueueWithdrawal, CanDebit
<1>2. total \in 0 .. MaxAmount
  BY AmountAssumption, SaturatingAddBounds DEF ReservedTotal
<1>3. SumFunction(ReservationOf(user)') = SumFunction(ReservationOf(user)) + total
      /\ \A u \in User \ {user} : /\ ReservationOf(u)' = ReservationOf(u)
                                  /\ RequestsOf(u)' = RequestsOf(u)
  BY QueueReserves
<1> HIDE DEF total
<1>4. old \in LiabilityEntry /\ old.withdrawn <= old.credited
  BY <1>1 DEF MixerInv, LedgerInv, NoOverdraft
<1>5. old.credited \in 0 .. MaxAmount /\ old.withdrawn \in 0 .. MaxAmount
  BY <1>4 DEF LiabilityEntry
<1>6. SaturatingAdd(old.withdrawn, total) = old.withdrawn + total
  BY <1>1, <1>2, <1>4, <1>5, AmountAssumption DEF Available, SaturatingAdd
<1>7. /\ DOMAIN liabilities' = DOMAIN liabilities
      /\ liabilities'[user].withdrawn = old.withdrawn + total
      /\ \A u \in DOMAIN liabilities \ {user} : liabilities'[u] = liabilities[u]
  BY <1>1, <1>4, <1>6 DEF DebitUser, MixerInv, LedgerInv, LiabilityEntry
<1>8. ASSUME NEW u \in User, u \in DOMAIN liabilities
      PROVE  liabilities'[u].withdrawn
               = InitiallyWithdrawn(u) + SumFunction(ReservationOf(u)')
  <2>1. liabilities[u].withdrawn
          = InitiallyWithdrawn(u) + SumFunction(ReservationOf(u))
    BY <1>8 DEF ReservationsInv, ReservationsExact, ReservationOf
  <2>2. CASE u = user
    <3>1. InitiallyWithdrawn(u) \in Nat
      BY InitiallyWithdrawnNat
    <3>2. SumFunction(ReservationOf(u)) \in Nat
      BY ReservationOfNat DEF MixerInv
    <3> HIDE DEF old
    <3>3. liabilities'[u].withdrawn
            = (InitiallyWithdrawn(u) + SumFunction(ReservationOf(u))) + total
      BY <1>7, <2>1, <2>2 DEF old
    <3>4. SumFunction(ReservationOf(u)') = SumFunction(ReservationOf(u)) + total
      BY <1>3, <2>2
    <3> QED
      BY <1>2, <3>1, <3>2, <3>3, <3>4
  <2>3. CASE u # user
    BY <1>3, <1>7, <1>8, <2>1, <2>3
  <2> QED
    BY <2>2, <2>3
<1>9. ASSUME NEW u \in User, u \notin DOMAIN liabilities
      PROVE  RequestsOf(u)' = {}
  BY <1>1, <1>3, <1>9 DEF ReservationsInv, ReservationsExact
<1>10. ReservationsExact'
  BY <1>7, <1>8, <1>9 DEF ReservationsExact, ReservationOf
<1> QED
  BY <1>7, <1>10 DEF ReservationsInv

\* A deposit reserves nothing, and a new user has no request.
LEMMA DepositKeepsReservations ==
  ASSUME MixerInv, ReservationsInv, NEW user \in User, NEW coin \in Coin,
         ReceiveDeposit(user, coin)
  PROVE  ReservationsInv'
<1>1. /\ liabilities' = CreditUser(liabilities, user, coin.amount)
      /\ requests' = requests
  BY DEF ReceiveDeposit
<1>2. /\ DOMAIN liabilities' = DOMAIN liabilities \cup {user}
      /\ \A u \in DOMAIN liabilities :
           liabilities'[u].withdrawn = liabilities[u].withdrawn
      /\ user \notin DOMAIN liabilities => liabilities'[user].withdrawn = 0
  BY <1>1 DEF CreditUser, MixerInv, LedgerInv, LiabilityEntry
<1>3. \A u \in User : /\ RequestsOf(u)' = RequestsOf(u)
                      /\ ReservationOf(u)' = ReservationOf(u)
  BY <1>1 DEF RequestsOf, ReservationOf, ReservedBy
<1>4. ASSUME NEW u \in User, u \in DOMAIN liabilities'
      PROVE  liabilities'[u].withdrawn
               = InitiallyWithdrawn(u) + SumFunction(ReservationOf(u)')
  <2>1. CASE u \in DOMAIN liabilities
    BY <1>2, <1>3, <2>1 DEF ReservationsInv, ReservationsExact, ReservationOf
  <2>2. CASE u \notin DOMAIN liabilities
    <3>1. u = user /\ liabilities'[u].withdrawn = 0
      BY <1>2, <1>4, <2>2
    <3>2. InitiallyWithdrawn(u) = 0
      BY <2>2 DEF ReservationsInv, InitiallyWithdrawn
    <3>3. DOMAIN ReservationOf(u) = {}
      BY <2>2 DEF ReservationsInv, ReservationsExact, ReservationOf
    <3>4. SumFunction(ReservationOf(u)') = 0
      BY <1>3, <3>3, SumFunctionEmpty
    <3> QED
      BY <3>1, <3>2, <3>4
  <2> QED
    BY <2>1, <2>2
<1>5. \A u \in User : u \notin DOMAIN liabilities' => RequestsOf(u)' = {}
  BY <1>2, <1>3 DEF ReservationsInv, ReservationsExact
<1>6. ReservationsExact'
  BY <1>4, <1>5 DEF ReservationsExact, ReservationOf
<1> QED
  BY <1>2, <1>6 DEF ReservationsInv

\* Every step keeps credit and reservations in balance.
LEMMA ReservationsStep ==
  ASSUME MixerInv, ReservationsInv, [Next]_vars
  PROVE  ReservationsInv'
<1>1. ASSUME UNCHANGED <<liabilities, requests>>
      PROVE  ReservationsInv'
  BY <1>1 DEF ReservationsInv, ReservationsExact, RequestsOf, ReservedBy
<1>2. CASE NodeStep \/ UNCHANGED vars
  BY <1>1, <1>2 DEF NodeStep, vars, mixerVars
<1>3. CASE \E a \in AccountId, p \in BOOLEAN : CreatePoolAccount(a, p)
  BY <1>1, <1>3 DEF CreatePoolAccount
<1>4. CASE \E u \in User, c \in Coin : ReceiveDeposit(u, c)
  BY <1>4, DepositKeepsReservations
<1>5. CASE \E id \in OnChainIds(unspent_coins) : ConsolidateIntoPool(id)
  BY <1>1, <1>5 DEF ConsolidateIntoPool
<1>6. CASE \E u \in User, x \in WithdrawAmount, c \in Destination :
             QueueWithdrawal(u, x, c)
  BY <1>6, QueueKeepsReservations
<1>7. CASE \/ \E r \in DOMAIN requests : ProcessSingleWithdrawal(r)
           \/ \E rs \in Batches : ProcessBatchedWithdrawals(rs)
  BY <1>1, <1>7 DEF ProcessSingleWithdrawal, ProcessBatchedWithdrawals, Deliver
<1> QED
  BY <1>2, <1>3, <1>4, <1>5, <1>6, <1>7 DEF Next

\* So they are in every reachable state.
LEMMA ReservationsInvHolds == Spec => []ReservationsInv
<1>1. Init => ReservationsInv
  <2> SUFFICES ASSUME Init PROVE ReservationsInv
    OBVIOUS
  <2>1. liabilities = InitialLiabilities /\ requests = << >>
    BY DEF Init, MixerInit
  <2>2. \A u : RequestsOf(u) = {}
    BY <2>1 DEF RequestsOf
  <2>3. ASSUME NEW u \in User, u \in DOMAIN liabilities
        PROVE  liabilities[u].withdrawn
                 = InitiallyWithdrawn(u) + SumFunction(ReservationOf(u))
    <3>1. DOMAIN ReservationOf(u) = {}
      BY <2>2 DEF ReservationOf
    <3>2. SumFunction(ReservationOf(u)) = 0
      BY <3>1, SumFunctionEmpty
    <3>3. liabilities[u].withdrawn = InitiallyWithdrawn(u)
      BY <2>1, <2>3 DEF InitiallyWithdrawn
    <3> QED
      BY <3>2, <3>3, InitiallyWithdrawnNat
  <2>4. ReservationsExact
    BY <2>2, <2>3 DEF ReservationsExact, ReservationOf
  <2> QED
    BY <2>1, <2>4 DEF ReservationsInv
<1>2. MixerInv /\ ReservationsInv /\ [Next]_vars => ReservationsInv'
  BY ReservationsStep
<1> QED
  BY <1>1, <1>2, MixerInvHolds, PTL DEF Spec

\* The ledger has withdrawn for a user exactly what the requests queued for
\* that user set aside: the sums never saturate, because a request is refused
\* unless the user has the total available.
THEOREM ReservationsExactHolds == Spec => []ReservationsExact
<1>1. ReservationsInv => ReservationsExact
  BY DEF ReservationsInv
<1> QED
  BY <1>1, ReservationsInvHolds, PTL

-----------------------------------------------------------------------------
(* What is delivered is within what is reserved.                           *)

\* The amount delivered is the one requested.
DeliveryInv ==
  \A d \in DOMAIN deliveries :
    deliveries[d].coin.amount = requests[deliveries[d].request].amount

\* A delivery is of a request that was queued.
LEMMA DeliveryOfRequest ==
  ASSUME HandlerTypeOK, NEW d \in DOMAIN deliveries
  PROVE  deliveries[d].request \in DOMAIN requests
<1> DEFINE D == [request : DOMAIN requests, coin : CoinRecord]
<1>1. deliveries \in Seq(D)
  BY DEF HandlerTypeOK
<1> HIDE DEF D
<1>2. d \in 1 .. Len(deliveries)
  BY <1>1
<1>3. deliveries[d] \in D
  BY <1>1, <1>2
<1> QED
  BY <1>3 DEF D

\* A batch delivers coins of the amounts requested,
LEMMA DeliverKeepsAmounts ==
  ASSUME MixerInv, DeliveryInv, NEW n \in Nat,
         NEW rs \in [1 .. n -> DOMAIN requests], Deliver(rs)
  PROVE  DeliveryInv'
<1> DEFINE D == [request : DOMAIN requests, coin : CoinRecord]
           new == [ k \in DOMAIN rs |->
                      [request |-> rs[k], coin |-> DeliveredCoin(rs[k])] ]
<1>1. \A d \in DOMAIN deliveries' \ DOMAIN deliveries :
        deliveries'[d].coin = DeliveredCoin(deliveries'[d].request)
  BY DeliverType DEF MixerInv
<1>2. deliveries \in Seq(D) /\ deliveries' = deliveries \o new /\ requests' = requests
  BY DEF MixerInv, HandlerTypeOK, Deliver
<1>3. Len(new) = n /\ DOMAIN new = 1 .. n
  OBVIOUS
<1> HIDE DEF new, D
<1>4. \A d \in DOMAIN deliveries : deliveries'[d] = deliveries[d]
  BY <1>2, <1>3
<1>5. ASSUME NEW d \in DOMAIN deliveries'
      PROVE  deliveries'[d].coin.amount = requests'[deliveries'[d].request].amount
  <2>1. CASE d \in DOMAIN deliveries
    BY <1>2, <1>4, <2>1 DEF DeliveryInv
  <2>2. CASE d \notin DOMAIN deliveries
    <3> DEFINE r == deliveries'[d].request
    <3>1. deliveries'[d].coin = DeliveredCoin(r)
      BY <1>1, <1>5, <2>2
    <3>2. DeliveredCoin(r).amount = requests[r].amount
      BY DEF DeliveredCoin
    <3> QED
      BY <1>2, <3>1, <3>2
  <2> QED
    BY <2>1, <2>2
<1> QED
  BY <1>5 DEF DeliveryInv

\* and a new request changes none that was delivered.
LEMMA QueueKeepsDeliveries ==
  ASSUME MixerInv, DeliveryInv, NEW user \in User,
         NEW amount \in WithdrawAmount, NEW address \in Destination,
         QueueWithdrawal(user, amount, address)
  PROVE  DeliveryInv'
<1>1. PICK r : requests' = Append(requests, r)
  BY DEF QueueWithdrawal
<1>2. requests \in Seq(Request) /\ deliveries' = deliveries
  BY DEF QueueWithdrawal, MixerInv, HandlerTypeOK
<1>3. \A i \in DOMAIN requests : requests'[i] = requests[i]
  BY <1>1, <1>2
<1>4. ASSUME NEW d \in DOMAIN deliveries
      PROVE  deliveries[d].request \in DOMAIN requests
  BY DeliveryOfRequest DEF MixerInv
<1> QED
  BY <1>2, <1>3, <1>4 DEF DeliveryInv

\* So each delivery is of a request, with its amount.
LEMMA DeliveryInvHolds == Spec => []DeliveryInv
<1>1. Init => DeliveryInv
  BY DEF Init, MixerInit, DeliveryInv
<1>2. MixerInv /\ DeliveryInv /\ [Next]_vars => DeliveryInv'
  <2> SUFFICES ASSUME MixerInv, DeliveryInv, [Next]_vars
               PROVE  DeliveryInv'
    OBVIOUS
  <2>1. ASSUME UNCHANGED <<requests, deliveries>>
        PROVE  DeliveryInv'
    BY <2>1 DEF DeliveryInv
  <2>2. CASE NodeStep \/ UNCHANGED vars
    BY <2>1, <2>2 DEF NodeStep, vars, mixerVars
  <2>3. CASE \/ \E a \in AccountId, p \in BOOLEAN : CreatePoolAccount(a, p)
             \/ \E u \in User, c \in Coin : ReceiveDeposit(u, c)
             \/ \E id \in OnChainIds(unspent_coins) : ConsolidateIntoPool(id)
    BY <2>1, <2>3 DEF CreatePoolAccount, ReceiveDeposit, ConsolidateIntoPool
  <2>4. CASE \E u \in User, x \in WithdrawAmount, c \in Destination :
               QueueWithdrawal(u, x, c)
    BY <2>4, QueueKeepsDeliveries
  <2>5. ASSUME NEW r \in DOMAIN requests, ProcessSingleWithdrawal(r)
        PROVE  DeliveryInv'
    <3>1. <<r>> \in [1 .. 1 -> DOMAIN requests] /\ 1 \in Nat
      OBVIOUS
    <3> QED
      BY <2>5, <3>1, DeliverKeepsAmounts DEF ProcessSingleWithdrawal
  <2>6. ASSUME NEW rs \in Batches, ProcessBatchedWithdrawals(rs)
        PROVE  DeliveryInv'
    <3>1. PICK n \in 1 .. MaxBatchSize : rs \in [1 .. n -> DOMAIN requests]
      BY DEF Batches
    <3>2. n \in Nat
      BY PolicyAssumption
    <3> QED
      BY <2>6, <3>1, <3>2, DeliverKeepsAmounts DEF ProcessBatchedWithdrawals
  <2> QED
    BY <2>2, <2>3, <2>4, <2>5, <2>6 DEF Next
<1> QED
  BY <1>1, <1>2, MixerInvHolds, PTL DEF Spec

\* A user to whom no request is delivered twice gets no more than was reserved:
\* each delivery is of a request of its own, for its amount or more.
LEMMA WithinReserved ==
  ASSUME MixerInv, ReservationsInv, DeliveryInv, ProcessedOnce,
         NEW u \in DOMAIN liabilities
  PROVE  SumFunction([d \in DeliveriesTo(u) |-> deliveries[d].coin.amount])
           <= liabilities[u].withdrawn
<1> DEFINE D == DeliveriesTo(u)
           f == [d \in D |-> deliveries[d].coin.amount]
           h == ReservationOf(u)
           b == [d \in D |-> deliveries[d].request]
<1>1. ASSUME NEW d \in D
      PROVE  /\ d \in DOMAIN deliveries
             /\ b[d] \in RequestsOf(u) /\ b[d] \in DOMAIN requests
             /\ f[d] = requests[b[d]].amount
             /\ h[b[d]] = ReservedBy(b[d])
  <2>1. d \in DOMAIN deliveries
    BY DEF DeliveriesTo
  <2>2. deliveries[d].request \in DOMAIN requests
    BY <2>1, DeliveryOfRequest DEF MixerInv
  <2>3. b[d] \in DOMAIN requests /\ b[d] \in RequestsOf(u)
    BY <2>2 DEF DeliveriesTo, RequestsOf
  <2>4. f[d] = requests[b[d]].amount
    BY <2>1 DEF DeliveryInv
  <2> QED
    BY <2>1, <2>3, <2>4 DEF ReservationOf
<1>2. DOMAIN f = D /\ DOMAIN b = D /\ DOMAIN h = RequestsOf(u)
  BY ReservationOfNat DEF MixerInv
<1>3. \A d, e \in D : b[d] = b[e] => d = e
  BY <1>1 DEF ProcessedOnce
<1>4. b \in [D -> RequestsOf(u)]
  BY <1>1
<1>5. IsFiniteSet(D) /\ IsFiniteSet(RequestsOf(u))
  <2>1. deliveries \in Seq([request : DOMAIN requests, coin : CoinRecord])
    BY DEF MixerInv, HandlerTypeOK
  <2>2. D \subseteq DOMAIN deliveries
    BY DEF DeliveriesTo
  <2>3. IsFiniteSet(DOMAIN deliveries)
    BY <2>1, SeqDomainFinite
  <2> HIDE DEF D
  <2> QED
    BY <2>2, <2>3, FS_Subset, RequestsOfFinite DEF MixerInv
<1> HIDE DEF D, f, h, b
<1>6. \A d \in D : f[d] \in Nat /\ f[d] <= h[b[d]]
  BY <1>1, RequestAmounts, AmountAssumption DEF MixerInv
<1>7. (\A r \in DOMAIN h : h[r] \in Nat) /\ SumFunction(h) \in Nat
  BY <1>2, ReservationOfNat DEF MixerInv, h
<1>8. SumFunction(f) <= SumFunction(h)
  <2>1. b \in [DOMAIN f -> DOMAIN h]
    BY <1>2, <1>4
  <2>2. /\ IsFiniteSet(DOMAIN f) /\ IsFiniteSet(DOMAIN h)
        /\ \A x, y \in DOMAIN f : b[x] = b[y] => x = y
        /\ \A x \in DOMAIN f : f[x] \in Nat /\ f[x] <= h[b[x]]
    BY <1>2, <1>3, <1>5, <1>6
  <2> QED
    BY <1>7, <2>1, <2>2, SumFunctionInto
<1>9. SumFunction(f) \in Nat
  BY <1>2, <1>5, <1>6, SumFunctionNat
<1>10. liabilities[u].withdrawn = InitiallyWithdrawn(u) + SumFunction(h)
  BY DEF MixerInv, LedgerInv, ReservationsInv, ReservationsExact, ReservationOf, h
<1>11. SumFunction(f) <= liabilities[u].withdrawn
  BY <1>7, <1>8, <1>9, <1>10, InitiallyWithdrawnNat
<1> QED
  BY <1>11 DEF f, D

\* As long as no request is processed twice, deliveries to a user, single or
\* batched, add up to no more than what was set aside for that user.
THEOREM DeliveredWithinReservedHolds == Spec => []DeliveredWithinReserved
<1>1. MixerInv /\ ReservationsInv /\ DeliveryInv => DeliveredWithinReserved
  BY WithinReserved DEF DeliveredWithinReserved
<1> QED
  BY <1>1, MixerInvHolds, ReservationsInvHolds, DeliveryInvHolds, PTL

\* Everything delivered, user by user, is within what was credited.
LEMMA DeliveredWithinCredits ==
  ASSUME MixerInv, FiniteInv, ReservationsInv, DeliveryInv, ProcessedOnce
  PROVE  LET f == [d \in DOMAIN deliveries |-> deliveries[d].coin.amount]
         IN /\ SumFunction(f) \in Nat
            /\ SumFunction(f) <= Credits(liabilities)
            /\ Credits(liabilities) \in Nat
<1> DEFINE S == DOMAIN deliveries
           C == DOMAIN liabilities
           f == [d \in S |-> deliveries[d].coin.amount]
           h == [u \in C |-> liabilities[u].credited]
           class == [d \in S |-> requests[deliveries[d].request].user]
<1>1. IsFiniteSet(S) /\ IsFiniteSet(C)
  <2>1. deliveries \in Seq([request : DOMAIN requests, coin : CoinRecord])
    BY DEF MixerInv, HandlerTypeOK
  <2> QED
    BY <2>1, SeqDomainFinite DEF FiniteInv
<1>2. ASSUME NEW d \in S
      PROVE  f[d] \in Nat /\ class[d] \in C
  <2>1. deliveries[d].request \in DOMAIN requests
    BY DeliveryOfRequest DEF MixerInv
  <2>2. f[d] \in Nat
    BY <2>1, RequestAmounts, AmountAssumption DEF MixerInv, DeliveryInv
  <2>3. requests[deliveries[d].request] \in Request
    BY <2>1 DEF MixerInv, HandlerTypeOK
  <2>4. class[d] \in User
    BY <2>3 DEF Request
  <2>5. deliveries[d].request \in RequestsOf(class[d])
    BY <2>1 DEF RequestsOf
  <2>6. class[d] \in DOMAIN liabilities
    <3> HIDE DEF class
    <3> QED
      BY <2>4, <2>5 DEF ReservationsInv, ReservationsExact
  <2> QED
    BY <2>2, <2>6
<1>3. ASSUME NEW u \in C
      PROVE  /\ h[u] \in Nat
             /\ SumFunctionOnSet(f, { d \in S : class[d] = u }) <= h[u]
  <2> DEFINE D == DeliveriesTo(u)
             g == [d \in D |-> deliveries[d].coin.amount]
  <2>1. D = { d \in S : class[d] = u } /\ D \subseteq S
    BY DEF DeliveriesTo
  <2>2. SumFunction(g) <= liabilities[u].withdrawn
    BY WithinReserved
  <2>3. liabilities[u] \in LiabilityEntry
    BY DEF MixerInv, LedgerInv
  <2>4. /\ liabilities[u].withdrawn <= h[u]
        /\ liabilities[u].withdrawn \in Nat /\ h[u] \in Nat
    BY <2>3, AmountAssumption DEF MixerInv, LedgerInv, NoOverdraft, LiabilityEntry
  <2>5. SumFunction(g) = SumFunctionOnSet(f, D)
    <3>1. IsFiniteSet(D)
      <4> HIDE DEF D
      <4> QED
        BY <1>1, <2>1, FS_Subset
    <3>2. \A d \in D : g[d] \in Nat /\ g[d] = f[d]
      BY <1>2, <2>1
    <3>3. DOMAIN g = D
      OBVIOUS
    <3> HIDE DEF D, g, f
    <3>4. SumFunctionOnSet(g, D) = SumFunctionOnSet(f, D)
      BY <3>1, <3>2, SumCongruent
    <3> QED
      BY <3>3, <3>4 DEF SumFunction
  <2>6. SumFunctionOnSet(f, D) \in Nat
    <3>1. IsFiniteSet(D) /\ \A d \in D : f[d] \in Nat
      <4> HIDE DEF f
      <4>1. \A d \in D : f[d] \in Nat
        BY <1>2, <2>1
      <4> HIDE DEF D
      <4> QED
        BY <1>1, <2>1, <4>1, FS_Subset
    <3> HIDE DEF D, f
    <3> QED
      BY <3>1, SumNat
  <2> HIDE DEF D, f, g, h, class
  <2> QED
    BY <2>1, <2>2, <2>4, <2>5, <2>6
<1>4. class \in [S -> C]
  BY <1>2
<1>5. DOMAIN f = S /\ DOMAIN h = C
  OBVIOUS
<1> HIDE DEF f, h, class, S, C
<1>6. SumFunctionOnSet(f, S) <= SumFunctionOnSet(h, C)
  BY <1>1, <1>2, <1>3, <1>4, SumByClass
<1>7. SumFunctionOnSet(f, S) \in Nat /\ SumFunctionOnSet(h, C) \in Nat
  BY <1>1, <1>2, <1>3, SumNat
<1>8. SumFunction(f) = SumFunctionOnSet(f, S)
      /\ SumFunction(h) = SumFunctionOnSet(h, C)
  BY <1>5 DEF SumFunction
<1>9. Credits(liabilities) = SumFunction(h)
  BY DEF Credits, h, C
<1> QED
  BY <1>6, <1>7, <1>8, <1>9 DEF f, S

\* If the wallet both sides copy holds coins for what it credits, and neither a
\* request is processed twice nor a deposit accepted twice, then all that is
\* delivered is covered by the coins received, each counted once.
THEOREM DeliveriesBackedHolds ==
  ASSUME InitiallyBacked
  PROVE  Spec => []DeliveriesBacked
<1>1. MixerInv /\ FiniteInv /\ ReservationsInv /\ DeliveryInv /\ CreditBacked
        /\ SnapshotCoinsRefused => DeliveriesBacked
  <2> SUFFICES ASSUME MixerInv, FiniteInv, ReservationsInv, DeliveryInv,
                      CreditBacked, SnapshotCoinsRefused, ProcessedOnce,
                      CoinCreditedOnce
               PROVE  SumFunction([d \in DOMAIN deliveries |->
                                     deliveries[d].coin.amount])
                        <= Worth(CoinsReceived)
    BY DEF DeliveriesBacked
  <2> DEFINE f == [d \in DOMAIN deliveries |-> deliveries[d].coin.amount]
  <2>1. /\ SumFunction(f) \in Nat
        /\ SumFunction(f) <= Credits(liabilities)
        /\ Credits(liabilities) \in Nat
    BY DeliveredWithinCredits
  <2>2. Credits(liabilities) <= Worth(CoinsReceived)
    BY DEF CreditBacked
  <2>3. Worth(CoinsReceived) \in Nat
    BY ReceivedWorth DEF MixerInv
  <2> HIDE DEF f
  <2>4. SumFunction(f) <= Worth(CoinsReceived)
    BY <2>1, <2>2, <2>3
  <2> QED
    BY <2>4 DEF f
<1> QED
  BY <1>1, MixerInvHolds, FiniteInvHolds, ReservationsInvHolds, DeliveryInvHolds,
     CreditBackedHolds, SnapshotCoinsRefusedHolds, PTL

-----------------------------------------------------------------------------
(* Solvency.                                                               *)

\* What a ledger owes: Liabilities, of a ledger that need not be the current one.
Owed(ledger) == SumFunction([u \in DOMAIN ledger |-> Available(ledger[u])])

\* Entries without an overdraft owe what is credited and not withdrawn.
LEMMA OwedNat ==
  ASSUME NEW ledger, LedgerOk(ledger)
  PROVE  /\ \A u \in DOMAIN ledger : Available(ledger[u]) \in Nat
         /\ Owed(ledger) \in Nat
<1> DEFINE f == [u \in DOMAIN ledger |-> Available(ledger[u])]
<1>1. ASSUME NEW u \in DOMAIN ledger
      PROVE  Available(ledger[u]) \in Nat
  <2>1. ledger[u] \in LiabilityEntry
    BY DEF LedgerOk
  <2>2. ledger[u].credited \in Nat /\ ledger[u].withdrawn \in Nat
    BY <2>1 DEF LiabilityEntry
  <2> QED
    BY <2>2 DEF Available
<1>2. DOMAIN f = DOMAIN ledger /\ \A u \in DOMAIN f : f[u] \in Nat
  BY <1>1
<1>3. Owed(ledger) = SumFunction(f)
  BY Zenon DEF Owed
<1> HIDE DEF f
<1>4. SumFunction(f) \in Nat
  BY <1>2, SumFunctionNat DEF LedgerOk
<1> QED
  BY <1>1, <1>3, <1>4

\* A credit adds no more than its amount to what is owed.
LEMMA CreditUserOwed ==
  ASSUME LedgerInv, FiniteInv, NEW user, NEW amount \in 0 .. MaxAmount
  PROVE  Owed(CreditUser(liabilities, user, amount)) <= Owed(liabilities) + amount
<1> DEFINE new == CreditUser(liabilities, user, amount)
           old == IF user \in DOMAIN liabilities THEN liabilities[user]
                  ELSE [credited |-> 0, withdrawn |-> 0]
           f == [u \in DOMAIN liabilities |-> Available(liabilities[u])]
           h == [u \in DOMAIN new |-> Available(new[u])]
<1>1. Owed(liabilities) = SumFunction(f) /\ Owed(new) = SumFunction(h)
  BY Zenon DEF Owed
<1>2. \A u \in DOMAIN liabilities : Available(liabilities[u]) \in Nat
  BY OwedNat DEF LedgerOk, LedgerInv, FiniteInv
<1>3. /\ old \in LiabilityEntry
      /\ old.withdrawn <= old.credited
      /\ user \in DOMAIN liabilities => Available(liabilities[user]) = Available(old)
      /\ user \notin DOMAIN liabilities => old.credited = 0 /\ old.withdrawn = 0
  BY AmountAssumption DEF LedgerInv, NoOverdraft, LiabilityEntry
<1>4. new = [ u \in DOMAIN liabilities \cup {user} |->
                IF u = user
                THEN [old EXCEPT !.credited = SaturatingAdd(@, amount)]
                ELSE liabilities[u] ]
  BY DEF CreditUser
<1> HIDE DEF old, new
<1>5. /\ DOMAIN new = DOMAIN liabilities \cup {user}
      /\ \A u \in DOMAIN liabilities \ {user} : new[u] = liabilities[u]
      /\ new[user].credited = SaturatingAdd(old.credited, amount)
      /\ new[user].withdrawn = old.withdrawn
  BY <1>3, <1>4 DEF LiabilityEntry
<1>6. old.credited \in 0 .. MaxAmount /\ old.withdrawn \in 0 .. MaxAmount
  BY <1>3 DEF LiabilityEntry
<1>7. /\ SaturatingAdd(old.credited, amount) \in 0 .. MaxAmount
      /\ SaturatingAdd(old.credited, amount) >= old.credited
      /\ SaturatingAdd(old.credited, amount) <= old.credited + amount
  BY <1>6, SaturatingAddBounds
<1>8. /\ Available(new[user]) \in Nat
      /\ Available(new[user]) <= Available(old) + amount
      /\ user \notin DOMAIN liabilities => Available(old) = 0
  BY <1>3, <1>5, <1>6, <1>7 DEF Available
<1>9. /\ DOMAIN f = DOMAIN liabilities /\ DOMAIN h = DOMAIN f \cup {user}
      /\ \A u \in DOMAIN f : f[u] \in Nat
      /\ \A u \in DOMAIN f \ {user} : h[u] = f[u]
      /\ h[user] = Available(new[user])
      /\ user \in DOMAIN f => f[user] = Available(old)
  BY <1>2, <1>3, <1>5
<1> HIDE DEF f, h
<1>10. /\ h[user] \in Nat /\ amount \in Nat
       /\ user \in DOMAIN f => h[user] <= f[user] + amount
       /\ user \notin DOMAIN f => h[user] <= amount
  BY <1>8, <1>9
<1>11. IsFiniteSet(DOMAIN f)
  BY <1>9 DEF FiniteInv
<1>12. SumFunction(h) <= SumFunction(f) + amount
  BY <1>9, <1>10, <1>11, SumFunctionGrow
<1> QED
  BY <1>1, <1>12 DEF new

\* A reservation adds nothing to what is owed.
LEMMA DebitUserOwed ==
  ASSUME LedgerInv, FiniteInv, NEW user \in DOMAIN liabilities,
         NEW amount \in 0 .. MaxAmount
  PROVE  /\ Owed(DebitUser(liabilities, user, amount)) <= Owed(liabilities)
         /\ Owed(DebitUser(liabilities, user, amount)) \in Nat
<1> DEFINE new == DebitUser(liabilities, user, amount)
           old == liabilities[user]
           f == [u \in DOMAIN liabilities |-> Available(liabilities[u])]
           h == [u \in DOMAIN new |-> Available(new[u])]
<1>1. Owed(liabilities) = SumFunction(f) /\ Owed(new) = SumFunction(h)
  BY Zenon DEF Owed
<1>2. \A u \in DOMAIN liabilities : Available(liabilities[u]) \in Nat
  BY OwedNat DEF LedgerOk, LedgerInv, FiniteInv
<1>3. old \in LiabilityEntry
  BY DEF LedgerInv
<1>4. /\ DOMAIN new = DOMAIN liabilities
      /\ \A u \in DOMAIN liabilities \ {user} : new[u] = liabilities[u]
      /\ new[user].credited = old.credited
      /\ new[user].withdrawn = SaturatingAdd(old.withdrawn, amount)
  BY <1>3 DEF DebitUser, LiabilityEntry, LedgerInv
<1>5. old.credited \in 0 .. MaxAmount /\ old.withdrawn \in 0 .. MaxAmount
  BY <1>3 DEF LiabilityEntry
<1> HIDE DEF old, new
<1>6. /\ SaturatingAdd(old.withdrawn, amount) \in 0 .. MaxAmount
      /\ SaturatingAdd(old.withdrawn, amount) >= old.withdrawn
  BY <1>5, SaturatingAddBounds
<1>7. Available(new[user]) \in Nat /\ Available(new[user]) <= Available(old)
  BY <1>4, <1>5, <1>6 DEF Available
<1>8. \A u \in DOMAIN liabilities :
        Available(new[u]) \in Nat /\ Available(new[u]) <= Available(liabilities[u])
  BY <1>2, <1>4, <1>7 DEF old
<1>9. /\ DOMAIN f = DOMAIN liabilities /\ DOMAIN h = DOMAIN f
      /\ \A u \in DOMAIN f : f[u] \in Nat
      /\ \A u \in DOMAIN h : h[u] \in Nat /\ h[u] <= f[u]
  BY <1>2, <1>4, <1>8
<1> HIDE DEF f, h
<1>10. IsFiniteSet(DOMAIN f)
  BY <1>9 DEF FiniteInv
<1>11. SumFunction(h) <= SumFunction(f) /\ SumFunction(h) \in Nat
  BY <1>9, <1>10, SumFunctionMonotonic, SumFunctionNat
<1> QED
  BY <1>1, <1>11 DEF new

\* A new account holds nothing, and the accounts there were keep what they hold.
LEMMA CreateBalances ==
  ASSUME HandlerTypeOK, FiniteInv, NEW a \in AccountId, NEW p \in BOOLEAN,
         CreatePoolAccount(a, p)
  PROVE  Balances' = Balances
<1> DEFINE f == [x \in DOMAIN pool_accounts |-> pool_accounts[x].balance]
           h == [x \in DOMAIN pool_accounts' |-> pool_accounts'[x].balance]
<1>1. Balances = SumFunction(f) /\ Balances' = SumFunction(h)
  BY DEF Balances
<1>2. /\ a \notin DOMAIN pool_accounts
      /\ pool_accounts' = InsertPoolAccount(pool_accounts, a, p)
  BY DEF CreatePoolAccount
<1>3. \A x \in DOMAIN pool_accounts :
        /\ pool_accounts[x].balance \in Nat
        /\ [pool_accounts[x] EXCEPT !.is_primary = FALSE].balance
             = pool_accounts[x].balance
  BY DEF HandlerTypeOK, PoolAccountEntry
<1>4. /\ DOMAIN pool_accounts' = DOMAIN pool_accounts \cup {a}
      /\ pool_accounts'[a].balance = 0
      /\ \A x \in DOMAIN pool_accounts :
           pool_accounts'[x].balance = pool_accounts[x].balance
  BY <1>2, <1>3 DEF InsertPoolAccount, NewPoolAccount
<1>5. /\ DOMAIN f = DOMAIN pool_accounts /\ DOMAIN h = DOMAIN f \cup {a}
      /\ a \notin DOMAIN f
      /\ \A x \in DOMAIN f : f[x] \in Nat /\ h[x] = f[x]
      /\ h[a] = 0
  BY <1>2, <1>3, <1>4
<1> HIDE DEF f, h
<1>6. IsFiniteSet(DOMAIN f)
  BY <1>5 DEF FiniteInv
<1>7. SumFunction(h) = SumFunction(f) + h[a] /\ SumFunction(f) \in Nat
  BY <1>5, <1>6, SumFunctionExtend, SumFunctionNat
<1> QED
  BY <1>1, <1>5, <1>7

\* What the pool holds, in coins and in accounts, is a number.
LEMMA PoolValueNat ==
  ASSUME HandlerTypeOK, FiniteInv
  PROVE  /\ PoolValue = SumAmounts(unspent_coins) + Balances
         /\ SumAmounts(unspent_coins) \in Nat
         /\ Balances \in Nat
<1> DEFINE f == [x \in DOMAIN pool_accounts |-> pool_accounts[x].balance]
<1>1. DOMAIN f = DOMAIN pool_accounts /\ \A x \in DOMAIN f : f[x] \in Nat
  BY DEF HandlerTypeOK, PoolAccountEntry
<1>2. Balances = SumFunction(f)
  BY DEF Balances
<1> HIDE DEF f
<1>3. SumFunction(f) \in Nat
  BY <1>1, SumFunctionNat DEF FiniteInv
<1>4. SumAmounts(unspent_coins) \in Nat
  BY SumAmountsNat DEF HandlerTypeOK
<1> QED
  BY <1>2, <1>3, <1>4 DEF PoolValue

\* A sum that fits does not wrap.
LEMMA SumThatFits ==
  ASSUME NEW a \in Nat, a <= MaxAmount
  PROVE  a % (MaxAmount + 1) = a
BY AmountAssumption

\* Sums that fit are compared as they are.
LEMMA SolvencyCompared ==
  ASSUME MixerInv, FiniteInv, SumsFit
  PROVE  CheckSolvency <=> Owed(liabilities)
                             <= SumAmounts(unspent_coins) + Balances
<1>1. Liabilities = Owed(liabilities) /\ Owed(liabilities) \in Nat
  <2>1. LedgerOk(liabilities)
    BY DEF LedgerOk, MixerInv, LedgerInv, FiniteInv
  <2>2. Liabilities = Owed(liabilities)
    BY DEF Liabilities, Owed
  <2> QED
    BY <2>1, <2>2, OwedNat
<1>2. PoolValue = SumAmounts(unspent_coins) + Balances /\ PoolValue \in Nat
  BY PoolValueNat DEF MixerInv
<1>3. TotalLiabilities = Liabilities /\ TotalUnspentPoolValue = PoolValue
  BY <1>1, <1>2, SumThatFits DEF SumsFit, TotalLiabilities, TotalUnspentPoolValue
<1> QED
  BY <1>1, <1>2, <1>3 DEF CheckSolvency

\* No step but a consolidation takes from what the pool holds more than from
\* what it owes.
LEMMA MarginKept ==
  ASSUME MixerInv, FiniteInv, [Next]_vars, consumed' = consumed,
         Owed(liabilities) <= SumAmounts(unspent_coins) + Balances
  PROVE  Owed(liabilities') <= SumAmounts(unspent_coins') + Balances'
<1> DEFINE Kept == Owed(liabilities') <= SumAmounts(unspent_coins') + Balances'
<1>1. /\ SumAmounts(unspent_coins) \in Nat /\ Balances \in Nat
      /\ Owed(liabilities) \in Nat
  BY PoolValueNat, OwedNat DEF MixerInv, LedgerOk, LedgerInv, FiniteInv
<1>2. ASSUME UNCHANGED <<liabilities, unspent_coins, pool_accounts>>
      PROVE  Kept
  BY <1>2 DEF Balances
<1>3. CASE NodeStep \/ UNCHANGED vars
  BY <1>2, <1>3 DEF NodeStep, vars, mixerVars
<1>4. ASSUME NEW a \in AccountId, NEW p \in BOOLEAN, CreatePoolAccount(a, p)
      PROVE  Kept
  <2>1. Balances' = Balances
    BY <1>4, CreateBalances DEF MixerInv
  <2> QED
    BY <1>4, <2>1 DEF CreatePoolAccount
<1>5. ASSUME NEW u \in User, NEW c \in Coin, ReceiveDeposit(u, c)
      PROVE  Kept
  <2>1. /\ liabilities' = CreditUser(liabilities, u, c.amount)
        /\ unspent_coins' = Append(unspent_coins, c)
        /\ Balances' = Balances
    BY <1>5 DEF ReceiveDeposit, Balances
  <2>2. c \in CoinRecord /\ c.amount \in 0 .. MaxAmount /\ c.amount \in Nat
    BY CoinAssumption, CoinAmount
  <2>3. Owed(liabilities') <= Owed(liabilities) + c.amount
    BY <2>1, <2>2, CreditUserOwed DEF MixerInv
  <2>4. SumAmounts(unspent_coins') = SumAmounts(unspent_coins) + c.amount
    BY <2>1, <2>2, SumAmountsAppend DEF MixerInv, HandlerTypeOK
  <2>5. Owed(liabilities') \in Nat
    <3>1. LedgerInv'
      BY <1>5, ReceiveDepositLedger DEF MixerInv
    <3>2. IsFiniteSet(DOMAIN liabilities')
      BY <2>1, FS_AddElement DEF FiniteInv, CreditUser
    <3>3. LedgerOk(liabilities')
      BY <3>1, <3>2 DEF LedgerInv, LedgerOk
    <3> QED
      BY <3>3, OwedNat
  <2> QED
    BY <1>1, <2>1, <2>2, <2>3, <2>4, <2>5
<1>6. ASSUME NEW id \in OnChainIds(unspent_coins), ConsolidateIntoPool(id)
      PROVE  FALSE
  <2>1. consumed \in Seq([coin : CoinRecord, ok : BOOLEAN])
    BY DEF MixerInv, HandlerTypeOK
  <2>2. \E e : consumed' = Append(consumed, e)
    BY <1>6 DEF ConsolidateIntoPool
  <2>3. Len(consumed') = Len(consumed) + 1 /\ Len(consumed) \in Nat
    BY <2>1, <2>2
  <2> QED
    BY <2>3
<1>7. ASSUME NEW u \in User, NEW x \in WithdrawAmount, NEW c \in Destination,
             QueueWithdrawal(u, x, c)
      PROVE  Kept
  <2> DEFINE total == ReservedTotal(x, WithdrawalServiceFee)
  <2>1. total \in 0 .. MaxAmount
    BY AmountAssumption, SaturatingAddBounds DEF ReservedTotal
  <2>2. /\ u \in DOMAIN liabilities
        /\ liabilities' = DebitUser(liabilities, u, total)
        /\ unspent_coins' = unspent_coins /\ Balances' = Balances
    BY <1>7 DEF QueueWithdrawal, CanDebit, Balances
  <2> HIDE DEF total
  <2>3. Owed(liabilities') <= Owed(liabilities) /\ Owed(liabilities') \in Nat
    BY <2>1, <2>2, DebitUserOwed DEF MixerInv
  <2> QED
    BY <1>1, <2>2, <2>3
<1>8. CASE \/ \E r \in DOMAIN requests : ProcessSingleWithdrawal(r)
           \/ \E rs \in Batches : ProcessBatchedWithdrawals(rs)
  BY <1>2, <1>8 DEF ProcessSingleWithdrawal, ProcessBatchedWithdrawals, Deliver
<1> QED
  BY <1>3, <1>4, <1>5, <1>6, <1>7, <1>8 DEF Next

\* Deposits, withdrawal requests, deliveries, new accounts and blocks keep a
\* solvent pool solvent, as far as check_solvency's sums do not overflow: only
\* a consolidation can make it insolvent.
THEOREM SolvencyKeptHolds == Spec => SolvencyKept
<1> DEFINE Inv == MixerInv /\ FiniteInv
           Kept == SumsFit /\ CheckSolvency /\ consumed' = consumed /\ SumsFit'
                     => CheckSolvency'
<1>1. Inv /\ Inv' /\ [Next]_vars => [Kept]_vars
  <2> SUFFICES ASSUME Inv, Inv', [Next]_vars, SumsFit, CheckSolvency,
                      consumed' = consumed, SumsFit'
               PROVE  CheckSolvency'
    OBVIOUS
  <2>1. Owed(liabilities) <= SumAmounts(unspent_coins) + Balances
    BY SolvencyCompared
  <2>2. Owed(liabilities') <= SumAmounts(unspent_coins') + Balances'
    BY <2>1, MarginKept
  <2>3. (CheckSolvency <=> Owed(liabilities)
                             <= SumAmounts(unspent_coins) + Balances)'
    <3>1. (MixerInv /\ FiniteInv /\ SumsFit)'
      OBVIOUS
    <3> QED
      BY <3>1, SolvencyCompared, PTL
  <2> QED
    BY <2>2, <2>3
<1>2. Spec => []Inv
  BY MixerInvHolds, FiniteInvHolds, PTL
<1> QED
  BY <1>1, <1>2, PTL DEF Spec, SolvencyKept
=============================================================================
