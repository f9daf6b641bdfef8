--------------------------- MODULE BankingProofs ---------------------------
(***************************************************************************)
(* Proofs about Banking and BankingTools, for any accounts, amounts, keys, *)
(* beneficiaries and number of drafts.                                     *)
(***************************************************************************)
EXTENDS BankingTools, FiniteSetTheorems, TLAPS

Completed(d) == drafts[d].status = "COMPLETED"

\* The key of a completed draft is remembered, so that no other draft with it
\* passes submit_transfer's second look at the completed keys.
KeysRemembered ==
  \A d \in DraftIds : Completed(d) /\ drafts[d].key # NoKey => drafts[d].key \in completed

BankInv == BankTypeOK /\ NoOverdraft /\ KeysRemembered /\ KeyPaysOnce

\* A stored draft has every field of a draft.
LEMMA DraftFields ==
  ASSUME BankTypeOK, NEW d \in DraftIds, drafts[d] # NoDraft
  PROVE  /\ drafts[d] \in TransferDraft
         /\ drafts[d].source \in Accounts
         /\ drafts[d].amount \in Float
         /\ drafts[d].key \in IdemKeys \cup {NoKey}
         /\ drafts[d].status \in TransferStatus
BY DEF BankTypeOK, TransferDraft

\* The empty repository with its fixtures satisfies the invariant.
LEMMA BankInitInv == BankInit => BankInv
<1> SUFFICES ASSUME BankInit PROVE BankInv
  OBVIOUS
<1> USE BankingAssumption DEF BankInit
<1>1. BankTypeOK
  BY DEF BankTypeOK, Float
<1>2. NoOverdraft
  BY DEF NoOverdraft
<1>3. \A d \in DraftIds : ~Completed(d)
  BY DEF Completed, NoDraft
<1> QED
  BY <1>1, <1>2, <1>3 DEF BankInv, KeysRemembered, KeyPaysOnce, Completed

\* A step that changes one draft, neither from nor to COMPLETED, and no money keeps it.
LEMMA OtherStatus ==
  ASSUME BankInv, BankTypeOK',
         NEW d \in DraftIds, ~Completed(d), NEW new, new.status # "COMPLETED",
         drafts' = [drafts EXCEPT ![d] = new],
         UNCHANGED <<balance, completed>>
  PROVE  BankInv'
<1>1. /\ \A e \in DraftIds : Completed(e)' => Completed(e) /\ drafts'[e] = drafts[e]
      /\ \A e \in DraftIds : Completed(e) => Completed(e)' /\ drafts'[e] = drafts[e]
  BY DEF Completed, BankInv, BankTypeOK
<1>2. NoOverdraft'
  <2>1. \A a \in Accounts : PaidNaN(a) => PaidNaN(a)'
    BY <1>1 DEF PaidNaN, Paid, Completed
  <2> QED
    BY <2>1 DEF BankInv, NoOverdraft
<1>3. KeysRemembered'
  BY <1>1 DEF BankInv, KeysRemembered, Completed
<1>4. KeyPaysOnce'
  BY <1>1 DEF BankInv, KeyPaysOnce, Completed
<1> QED
  BY <1>2, <1>3, <1>4 DEF BankInv

\* submit_transfer: the new balance is not negative because the balance is
\* compared again, and the key is new because it is looked up again.
LEMMA SubmitKeeps ==
  ASSUME BankInv, NEW d \in DraftIds, NEW user \in Users, submit_transfer(d, user)
  PROVE  BankInv'
<1> DEFINE a == drafts[d].source
<1> USE BankingAssumption
<1>0. drafts[d] # NoDraft
  BY DEF submit_transfer, Submittable, NoDraft
<1>1. /\ a \in Accounts
      /\ drafts[d].amount \in Float
      /\ drafts[d].key \in IdemKeys \cup {NoKey}
      /\ drafts[d] \in TransferDraft
  BY <1>0, DraftFields DEF BankInv
<1>2. /\ balance' = [balance EXCEPT ![a] = Less(@, drafts[d].amount)]
      /\ drafts' = [drafts EXCEPT ![d].status = "COMPLETED"]
      /\ transactions' = [transactions EXCEPT ![a] = @ + 1]
      /\ completed' = completed \cup ({drafts[d].key} \ {NoKey})
      /\ expired' = expired
      /\ Covers(balance[a], drafts[d].amount)
      /\ drafts[d].key \notin completed
      /\ drafts[d].status = "DRAFT"
  BY DEF submit_transfer, Execute, Submittable
<1>3. BankTypeOK'
  <2>0. balance[a] \in Float
    BY <1>1 DEF BankInv, BankTypeOK
  <2>1. balance' \in [Accounts -> Float]
    <3>1. Less(balance[a], drafts[d].amount) \in Float
      BY <1>1, <2>0 DEF Less, Float
    <3> QED
      BY <1>1, <1>2, <3>1 DEF BankInv, BankTypeOK
  <2>2. [drafts[d] EXCEPT !.status = "COMPLETED"] \in TransferDraft
    BY <1>1 DEF TransferDraft, TransferStatus
  <2>3. drafts' \in [DraftIds -> TransferDraft \cup {NoDraft}]
    BY <2>2, <1>2 DEF BankInv, BankTypeOK
  <2>4. completed' \subseteq IdemKeys
    BY <1>1, <1>2 DEF BankInv, BankTypeOK
  <2>5. transactions' \in [Accounts -> Nat]
    BY <1>1, <1>2 DEF BankInv, BankTypeOK
  <2> QED
    BY <2>1, <2>3, <2>4, <2>5, <1>2 DEF BankInv, BankTypeOK
<1>4. NoOverdraft'
  <2> SUFFICES ASSUME NEW b \in Accounts, ~PaidNaN(b)'
               PROVE  balance'[b] \in Int /\ balance'[b] >= 0
    BY DEF NoOverdraft
  <2>1. ~PaidNaN(b)
    <3>1. \A e \in DraftIds : e # d => drafts'[e] = drafts[e]
      BY <1>2 DEF BankInv, BankTypeOK
    <3> QED
      BY <1>2, <3>1 DEF PaidNaN, Paid
  <2>2. balance[b] \in Int /\ balance[b] >= 0
    BY <2>1 DEF BankInv, NoOverdraft
  <2>3. CASE b # a
    BY <1>2, <2>2, <2>3 DEF BankInv, BankTypeOK
  <2>4. CASE b = a
    <3>1. drafts'[d].status = "COMPLETED" /\ drafts'[d].source = b
          /\ drafts'[d].amount = drafts[d].amount
      BY <1>1, <1>2, <2>4 DEF BankInv, BankTypeOK, TransferDraft
    <3>2. drafts[d].amount # NaN
      BY <3>1 DEF PaidNaN, Paid
    <3>3. drafts[d].amount \in Int /\ balance[b] # NaN
      BY <1>1, <2>2, <3>2 DEF Float
    <3>4. balance'[b] = balance[b] - drafts[d].amount
      BY <1>1, <1>2, <2>4, <3>2, <3>3 DEF BankInv, BankTypeOK, Less
    <3>5. balance[b] >= drafts[d].amount
      BY <1>2, <2>2, <2>4, <3>3 DEF Covers
    <3> QED
      BY <2>2, <3>3, <3>4, <3>5
  <2> QED
    BY <2>3, <2>4
<1>5. /\ drafts'[d].key = drafts[d].key
      /\ \A e \in DraftIds \ {d} : drafts'[e] = drafts[e]
  BY <1>1, <1>2 DEF BankInv, BankTypeOK, TransferDraft
<1>6. KeysRemembered'
  BY <1>1, <1>2, <1>5 DEF BankInv, KeysRemembered, Completed
<1>7. \A e \in DraftIds \ {d} :
        Completed(e) /\ drafts[e].key # NoKey => drafts[e].key # drafts[d].key
  BY <1>2 DEF BankInv, KeysRemembered
<1>8. KeyPaysOnce'
  BY <1>5, <1>7 DEF BankInv, KeyPaysOnce, Completed
<1> QED
  BY <1>3, <1>4, <1>6, <1>8 DEF BankInv

\* Every operation of the repository keeps the invariant.
LEMMA BankStep == BankInv /\ [BankNext]_bankVars => BankInv'
<1> SUFFICES ASSUME BankInv, [BankNext]_bankVars PROVE BankInv'
  OBVIOUS
<1> USE BankingAssumption
<1>1. ASSUME NEW d \in DraftIds, NEW user \in Users, NEW a \in Accounts,
             NEW amount \in Amounts, NEW key \in IdemKeys \cup {NoKey},
             create_transfer_draft(d, a, amount, user, key)
      PROVE  BankInv'
  <2> DEFINE new == [status |-> "DRAFT", source |-> a, amount |-> amount, key |-> key]
  <2>1. new \in TransferDraft /\ new.status # "COMPLETED"
    BY DEF TransferDraft, TransferStatus, Float
  <2>2. /\ drafts' = [drafts EXCEPT ![d] = new]
        /\ UNCHANGED <<balance, expired, completed, transactions>>
        /\ ~Completed(d)
    BY <1>1 DEF create_transfer_draft, Unused, NoDraft, Completed
  <2>3. BankTypeOK'
    BY <2>1, <2>2 DEF BankInv, BankTypeOK
  <2> QED
    BY <2>1, <2>2, <2>3, OtherStatus
<1>2. ASSUME NEW d \in DraftIds, NEW status \in {"FAILED", "CANCELLED"},
             drafts[d] # NoDraft, ~Completed(d),
             drafts' = [drafts EXCEPT ![d].status = status],
             UNCHANGED <<balance, expired, completed, transactions>>
      PROVE  BankInv'
  <2> DEFINE new == [drafts[d] EXCEPT !.status = status]
  <2>1. new \in TransferDraft /\ new.status # "COMPLETED"
    BY <1>2, DraftFields DEF BankInv, TransferDraft, TransferStatus
  <2>2. drafts' = [drafts EXCEPT ![d] = new]
    BY <1>2
  <2>3. BankTypeOK'
    BY <1>2, <2>1, <2>2 DEF BankInv, BankTypeOK
  <2> QED
    BY <1>2, <2>1, <2>2, <2>3, OtherStatus
<1>3. ASSUME NEW d \in DraftIds, NEW user \in Users, SubmitExpired(d, user)
      PROVE  BankInv'
  <2>1. drafts[d] # NoDraft /\ ~Completed(d)
    BY <1>3 DEF SubmitExpired, Submittable, NoDraft, Completed
  <2>2. /\ drafts' = [drafts EXCEPT ![d].status = "FAILED"]
        /\ UNCHANGED <<balance, expired, completed, transactions>>
    BY <1>3 DEF SubmitExpired
  <2> QED
    BY <1>2, <2>1, <2>2
<1>4. ASSUME NEW d \in DraftIds, NEW user \in Users, cancel_transfer(d, user)
      PROVE  BankInv'
  <2>1. drafts[d] # NoDraft /\ ~Completed(d)
    BY <1>4 DEF cancel_transfer, NoDraft, Completed
  <2>2. /\ drafts' = [drafts EXCEPT ![d].status = "CANCELLED"]
        /\ UNCHANGED <<balance, expired, completed, transactions>>
    BY <1>4 DEF cancel_transfer
  <2> QED
    BY <1>2, <2>1, <2>2
<1>5. ASSUME NEW d \in DraftIds, DraftExpires(d)
      PROVE  BankInv'
  BY <1>5 DEF DraftExpires, BankInv, BankTypeOK, NoOverdraft, PaidNaN, Paid, KeysRemembered,
              KeyPaysOnce, Completed
<1>6. CASE UNCHANGED bankVars
  BY <1>6 DEF bankVars, BankInv, BankTypeOK, NoOverdraft, PaidNaN, Paid, KeysRemembered,
              KeyPaysOnce, Completed
<1> QED
  BY <1>1, <1>3, <1>4, <1>5, <1>6, SubmitKeeps DEF BankNext

\* The inductive invariant holds in every reachable state.
LEMMA BankInvariant == BankSpec => []BankInv
BY BankInitInv, BankStep, PTL DEF BankSpec

\* No interleaving of drafts, submissions and cancellations overdraws an account that
\* pays only numbers: submit_transfer compares the balance at the moment it debits it.
\* Accounts that have paid a draft of NaN are left out, as NoOverdraft says.
THEOREM BankNeverOverdraws == BankSpec => []NoOverdraft
BY BankInvariant, PTL DEF BankInv

\* An idempotency key completes at most one transfer, however many drafts carry it.
THEOREM BankKeyPaysOnce == BankSpec => []KeyPaysOnce
BY BankInvariant, PTL DEF BankInv

\* A settled draft stays as it is, and money moves only when a draft completes.
THEOREM BankDraftsAreFinal == BankSpec => DraftsAreFinal
<1> DEFINE Final ==
      /\ \A d \in DraftIds :
           drafts[d].status \in {"COMPLETED", "CANCELLED", "FAILED"} => drafts'[d] = drafts[d]
      /\ balance' # balance =>
           \E d \in DraftIds : drafts[d].status = "DRAFT" /\ drafts'[d].status = "COMPLETED"
<1>1. BankInv /\ [BankNext]_bankVars => [Final]_bankVars
  <2> SUFFICES ASSUME BankInv, BankNext PROVE Final
    OBVIOUS
  <2> USE DEF BankInv, BankTypeOK
  <2>1. ASSUME NEW d \in DraftIds, NEW user \in Users, NEW a \in Accounts,
               NEW amount \in Amounts, NEW key \in IdemKeys \cup {NoKey},
               create_transfer_draft(d, a, amount, user, key)
        PROVE  Final
    BY <2>1 DEF create_transfer_draft, Unused, NoDraft
  <2>2. ASSUME NEW d \in DraftIds, NEW user \in Users, SubmitExpired(d, user)
        PROVE  Final
    BY <2>2 DEF SubmitExpired, Submittable
  <2>3. ASSUME NEW d \in DraftIds, NEW user \in Users, submit_transfer(d, user)
        PROVE  Final
    <3>1. drafts[d].status = "DRAFT" /\ drafts' = [drafts EXCEPT ![d].status = "COMPLETED"]
      BY <2>3 DEF submit_transfer, Submittable, Execute
    <3>2. drafts[d] \in TransferDraft
      BY <3>1, DraftFields DEF NoDraft
    <3>3. drafts'[d].status = "COMPLETED"
      BY <3>1, <3>2 DEF TransferDraft
    <3> QED
      BY <3>1, <3>3
  <2>4. ASSUME NEW d \in DraftIds, NEW user \in Users, cancel_transfer(d, user)
        PROVE  Final
    BY <2>4 DEF cancel_transfer
  <2>5. ASSUME NEW d \in DraftIds, DraftExpires(d)
        PROVE  Final
    BY <2>5 DEF DraftExpires
  <2> QED
    BY <2>1, <2>2, <2>3, <2>4, <2>5 DEF BankNext
<1> QED
  BY <1>1, BankInvariant, PTL DEF BankSpec, DraftsAreFinal

-----------------------------------------------------------------------------
(* The books: what left an account is the sum of its completed drafts.  A  *)
(* sum over a set is a recursion that takes the elements in an unspecified *)
(* order.  It is computed here by counting: a draft of amount n is n       *)
(* units, and the sum is the number of units of the set.                   *)

SumOf(drs, S) == MapThenSumSet(LAMBDA d : drs[d].amount, S)

Units(drs, S) == {u \in S \X (1..Limit) : u[2] <= drs[u[1]].amount}

Affordable(drs, S) == IsFiniteSet(S) /\ \A d \in S : drs[d].amount \in 1..Limit

\* A set has finitely many units, and the amount of a draft more than without it.
LEMMA UnitsOfOneMore ==
  ASSUME NEW drs, NEW S, Affordable(drs, S), NEW x \in S
  PROVE  /\ IsFiniteSet(Units(drs, S))
         /\ Cardinality(Units(drs, S)) \in Nat
         /\ Cardinality(Units(drs, S \ {x})) \in Nat
         /\ Cardinality(Units(drs, S)) = drs[x].amount + Cardinality(Units(drs, S \ {x}))
<1> DEFINE n == drs[x].amount
           mine == {x} \X (1..n)
           rest == Units(drs, S \ {x})
<1> USE BankingAssumption
<1>1. n \in 1..Limit
  BY DEF Affordable
<1>2. IsFiniteSet(mine) /\ Cardinality(mine) = n
  <2>1. IsFiniteSet({x}) /\ Cardinality({x}) = 1
    BY FS_Singleton
  <2>2. IsFiniteSet(1..n) /\ Cardinality(1..n) = n
    <3> HIDE DEF n
    <3>1. n \in Int /\ n >= 1 /\ 1 \in Int
      BY <1>1
    <3>2. Cardinality(1..n) = IF 1 > n THEN 0 ELSE n - 1 + 1
      BY <3>1, FS_Interval
    <3> QED
      BY <3>1, <3>2, FS_Interval
  <2>3. IsFiniteSet(mine) /\ Cardinality(mine) = Cardinality({x}) * Cardinality(1..n)
    BY <2>1, <2>2, FS_Product
  <2>4. 1 * n = n
    BY <1>1
  <2> QED
    BY <2>1, <2>2, <2>3, <2>4
<1>3. IsFiniteSet(rest)
  <2>1. IsFiniteSet(S \ {x}) /\ IsFiniteSet(1..Limit)
    BY FS_RemoveElement, FS_Interval DEF Affordable
  <2>2. IsFiniteSet((S \ {x}) \X (1..Limit))
    BY <2>1, FS_Product
  <2>3. rest \in SUBSET ((S \ {x}) \X (1..Limit))
    BY DEF Units
  <2> QED
    BY <2>2, <2>3, FS_Subset
<1>4. Units(drs, S) = rest \cup mine
  <2>1. ASSUME NEW u \in Units(drs, S) PROVE u \in rest \cup mine
    <3>1. PICK e \in S, i \in 1..Limit : u = <<e, i>> /\ i <= drs[e].amount
      BY DEF Units
    <3>2. CASE e = x
      BY <1>1, <3>1, <3>2
    <3>3. CASE e # x
      BY <3>1, <3>3 DEF Units
    <3> QED
      BY <3>2, <3>3
  <2>2. ASSUME NEW u \in rest PROVE u \in Units(drs, S)
    BY DEF Units
  <2>3. ASSUME NEW u \in mine PROVE u \in Units(drs, S)
    <3>1. PICK i \in 1..n : u = <<x, i>>
      OBVIOUS
    <3>2. i \in 1..Limit /\ i <= n
      BY <1>1
    <3> QED
      BY <3>1, <3>2 DEF Units
  <2> QED
    BY <2>1, <2>2, <2>3
<1>5. rest \cap mine = {}
  BY DEF Units
<1>6. /\ IsFiniteSet(rest \cup mine)
      /\ Cardinality(rest \cup mine) = Cardinality(rest) + Cardinality(mine) - Cardinality({})
  BY <1>2, <1>3, <1>5, FS_Union
<1>7. Cardinality({}) = 0 /\ Cardinality(rest) \in Nat /\ Cardinality(rest \cup mine) \in Nat
  BY <1>3, <1>6, FS_EmptySet, FS_CardinalityType
<1>8. Cardinality(rest \cup mine) = n + Cardinality(rest)
  <2> HIDE DEF n, mine, rest
  <2>1. n \in Int
    BY <1>1
  <2> QED
    BY <1>2, <1>6, <1>7, <2>1
<1> QED
  BY <1>4, <1>6, <1>7, <1>8

\* The recursion behind MapThenSumSet, whatever element it takes first.
Adds(drs, S, f) ==
  f = [T \in SUBSET S |->
         IF T = {} THEN 0
         ELSE drs[CHOOSE x \in T : TRUE].amount + f[T \ {CHOOSE x \in T : TRUE}]]

\* The sum is the number of units: counting them satisfies the recursion, and
\* nothing else does.
LEMMA SumCountsUnits ==
  ASSUME NEW drs, NEW S, Affordable(drs, S)
  PROVE  SumOf(drs, S) = Cardinality(Units(drs, S))
<1> DEFINE first(T) == CHOOSE x \in T : TRUE
           count == [T \in SUBSET S |-> Cardinality(Units(drs, T))]
<1>1. \A T \in SUBSET S : Affordable(drs, T)
  BY FS_Subset DEF Affordable
<1>2. \A T \in SUBSET S : T # {} => first(T) \in T /\ T \ {first(T)} \in SUBSET S
  OBVIOUS
<1>3. count[{}] = 0
  <2>1. Units(drs, {}) = {}
    BY DEF Units
  <2> QED
    BY <2>1, FS_EmptySet
<1>4. ASSUME NEW T \in SUBSET S, T # {}
      PROVE  count[T] = drs[first(T)].amount + count[T \ {first(T)}]
  <2> HIDE DEF first
  <2>1. Cardinality(Units(drs, T)) =
          drs[first(T)].amount + Cardinality(Units(drs, T \ {first(T)}))
    BY <1>1, <1>2, <1>4, UnitsOfOneMore
  <2> QED
    BY <1>2, <1>4, <2>1
<1>5. Adds(drs, S, count)
  <2> HIDE DEF first
  <2>1. \A T \in SUBSET S :
          count[T] = IF T = {} THEN 0 ELSE drs[first(T)].amount + count[T \ {first(T)}]
    BY <1>3, <1>4
  <2>2. count = [T \in SUBSET S |->
                   IF T = {} THEN 0 ELSE drs[first(T)].amount + count[T \ {first(T)}]]
    BY <2>1
  <2> QED
    BY <2>2 DEF Adds, first
<1> DEFINE sum == CHOOSE f : Adds(drs, S, f)
<1>6. SumOf(drs, S) = sum[S]
  BY DEF SumOf, MapThenSumSet, MapThenFoldSet, Adds
<1>7. Adds(drs, S, sum)
  BY <1>5
<1> HIDE DEF sum
<1>8. ASSUME NEW T \in SUBSET S
      PROVE  sum[T] = IF T = {} THEN 0 ELSE drs[first(T)].amount + sum[T \ {first(T)}]
  BY <1>7 DEF Adds
<1> DEFINE differ == {T \in SUBSET S : sum[T] # count[T]}
<1>9. differ = {}
  <2> HIDE DEF count, first
  <2>1. SUFFICES ASSUME differ # {} PROVE FALSE
    OBVIOUS
  <2>2. IsWellFoundedOn(StrictSubsetOrdering(S), SUBSET S)
    BY FS_StrictSubsetOrderingWellFounded, FS_FiniteSubsetsOfFinite DEF Affordable
  <2>3. PICK T \in differ : \A U \in differ : <<U, T>> \notin StrictSubsetOrdering(S)
    <3>1. differ \subseteq SUBSET S
      OBVIOUS
    <3> HIDE DEF differ
    <3> QED
      BY <2>1, <2>2, <3>1, WFMin
  <2>4. T # {}
    BY <1>3, <1>8
  <2>5. /\ first(T) \in T
        /\ T \ {first(T)} \in SUBSET S
    BY <1>2, <2>4
  <2>6. <<T \ {first(T)}, T>> \in StrictSubsetOrdering(S)
    BY <2>5 DEF StrictSubsetOrdering
  <2>7. sum[T \ {first(T)}] = count[T \ {first(T)}]
    BY <2>3, <2>5, <2>6
  <2> QED
    BY <1>4, <1>8, <2>4, <2>7
<1> QED
  BY <1>6, <1>9

\* One more draft adds its amount.
LEMMA SumOfOneMore ==
  ASSUME NEW drs, NEW S, NEW x, x \notin S, Affordable(drs, S \cup {x})
  PROVE  SumOf(drs, S \cup {x}) = drs[x].amount + SumOf(drs, S)
<1>1. (S \cup {x}) \ {x} = S
  OBVIOUS
<1>2. S \in SUBSET (S \cup {x})
  OBVIOUS
<1>3. Affordable(drs, S)
  BY <1>2, FS_Subset DEF Affordable
<1>4. Cardinality(Units(drs, S \cup {x})) = drs[x].amount + Cardinality(Units(drs, S))
  BY <1>1, UnitsOfOneMore
<1> QED
  BY <1>3, <1>4, SumCountsUnits

\* A sum of natural numbers is one.
LEMMA SumOfType ==
  ASSUME NEW drs, NEW S, Affordable(drs, S)
  PROVE  SumOf(drs, S) \in Nat
<1>1. IsFiniteSet(S \X (1..Limit)) /\ Units(drs, S) \in SUBSET (S \X (1..Limit))
  <2>1. IsFiniteSet(S) /\ IsFiniteSet(1..Limit)
    BY BankingAssumption, FS_Interval DEF Affordable
  <2>2. IsFiniteSet(S \X (1..Limit))
    BY <2>1, FS_Product
  <2> QED
    BY <2>2 DEF Units
<1> QED
  BY <1>1, FS_Subset, FS_CardinalityType, SumCountsUnits

\* Only the amounts of the summed drafts count.
LEMMA SumOfSame ==
  ASSUME NEW drs, NEW drs2, NEW S, Affordable(drs, S),
         \A d \in S : drs2[d].amount = drs[d].amount
  PROVE  Affordable(drs2, S) /\ SumOf(drs2, S) = SumOf(drs, S)
<1>1. Affordable(drs2, S)
  BY DEF Affordable
<1>2. Units(drs2, S) = Units(drs, S)
  BY DEF Units
<1> QED
  BY <1>1, <1>2, SumCountsUnits

\* What the two amount checks of create_transfer_draft let through.
AmountsValid ==
  \A d \in DraftIds : drafts[d] # NoDraft => drafts[d].amount \in (1..Limit) \cup {NaN}

Numeric(a) == {d \in Paid(a) : drafts[d].amount # NaN}

\* The books of one account.
Books(a) ==
  /\ IsFiniteSet(Paid(a))
  /\ ~PaidNaN(a) => balance[a] = Opening[a] - SumOf(drafts, Numeric(a))
  /\ PaidNaN(a) => balance[a] = NaN
  /\ transactions[a] = Cardinality(Paid(a))

BookInv == BankInv /\ AmountsValid /\ \A a \in Accounts : Books(a)

\* What an account has paid out is the sum over its drafts that are numbers.
LEMMA PaidOutIsSum == \A a \in Accounts : PaidOut(a) = SumOf(drafts, Numeric(a))
BY DEF PaidOut, SumOf, Numeric, MapThenSumSet, MapThenFoldSet

\* The books as the property states them.
LEMMA BooksAgree == BookInv => MoneyAccountedFor
BY PaidOutIsSum DEF BookInv, Books, MoneyAccountedFor

\* No draft is completed at first.
LEMMA BooksInit == BankInit => BookInv
<1> SUFFICES ASSUME BankInit PROVE BookInv
  OBVIOUS
<1>1. AmountsValid
  BY DEF BankInit, AmountsValid
<1>2. ASSUME NEW a \in Accounts PROVE Books(a)
  <2>1. Paid(a) = {} /\ Numeric(a) = {} /\ ~PaidNaN(a)
    BY DEF Paid, Numeric, PaidNaN, BankInit, NoDraft
  <2>2. IsFiniteSet({}) /\ Cardinality({}) = 0
    BY FS_EmptySet
  <2>3. Affordable(drafts, {})
    BY <2>2 DEF Affordable
  <2>4. SumOf(drafts, {}) = 0
    <3>1. Units(drafts, {}) = {}
      BY DEF Units
    <3> QED
      BY <2>2, <2>3, <3>1, SumCountsUnits
  <2>5. balance[a] = Opening[a] /\ Opening[a] \in Int /\ transactions[a] = 0
    BY BankingAssumption DEF BankInit
  <2>6. Opening[a] = Opening[a] - 0
    BY <2>5
  <2> QED
    BY <2>1, <2>2, <2>4, <2>5, <2>6 DEF Books
<1> QED
  BY <1>1, <1>2, BankInitInv DEF BookInv

\* The completed drafts of an account have amounts that can be summed.
LEMMA PaidAffordable ==
  ASSUME BookInv, NEW a \in Accounts
  PROVE  Affordable(drafts, Numeric(a))
<1>1. IsFiniteSet(Paid(a)) /\ Numeric(a) \in SUBSET Paid(a)
  BY DEF BookInv, Books, Numeric
<1>2. IsFiniteSet(Numeric(a))
  BY <1>1, FS_Subset
<1>3. \A d \in Numeric(a) : drafts[d].amount \in 1..Limit
  BY DEF BookInv, AmountsValid, Numeric, Paid, NoDraft
<1> QED
  BY <1>2, <1>3 DEF Affordable

\* A step that changes one draft, neither from nor to COMPLETED, and moves no
\* money leaves the books as they are.
LEMMA OtherStatusBooks ==
  ASSUME BookInv, BankInv', NEW d \in DraftIds, NEW new,
         drafts[d].status # "COMPLETED", new.status # "COMPLETED",
         new.amount \in (1..Limit) \cup {NaN},
         drafts' = [drafts EXCEPT ![d] = new],
         UNCHANGED <<balance, transactions>>
  PROVE  BookInv'
<1>1. \A e \in DraftIds : drafts'[e] = IF e = d THEN new ELSE drafts[e]
  BY DEF BookInv, BankInv, BankTypeOK
<1>2. AmountsValid'
  BY <1>1 DEF BookInv, AmountsValid
<1>3. ASSUME NEW a \in Accounts PROVE Books(a)'
  <2>1. Paid(a)' = Paid(a)
    BY <1>1 DEF Paid
  <2>2. \A e \in Paid(a) : drafts'[e].amount = drafts[e].amount
    BY <1>1 DEF Paid
  <2>3. Numeric(a)' = Numeric(a) /\ PaidNaN(a)' = PaidNaN(a)
    BY <2>1, <2>2 DEF Numeric, PaidNaN
  <2>4. \A e \in Numeric(a) : drafts'[e].amount = drafts[e].amount
    BY <2>2 DEF Numeric
  <2>5. SumOf(drafts', Numeric(a)) = SumOf(drafts, Numeric(a))
    <3> DEFINE N == Numeric(a)
               after == drafts'
    <3>1. Affordable(drafts, N) /\ \A e \in N : after[e].amount = drafts[e].amount
      BY <2>4, PaidAffordable
    <3> HIDE DEF N, after
    <3>2. SumOf(after, N) = SumOf(drafts, N)
      BY <3>1, SumOfSame
    <3> QED
      BY <3>2 DEF N, after
  <2>6. SumOf(drafts', Numeric(a)') = SumOf(drafts, Numeric(a))
    BY <2>3, <2>5
  <2> QED
    BY <2>1, <2>3, <2>6 DEF BookInv, Books
<1> QED
  BY <1>2, <1>3 DEF BookInv

\* submit_transfer debits the amount of the draft that joins the completed ones of
\* its account, and records one transaction.
LEMMA SubmitBooks ==
  ASSUME BookInv, BankInv', NEW d \in DraftIds, NEW user \in Users, submit_transfer(d, user)
  PROVE  BookInv'
<1>0. BankTypeOK
  BY DEF BookInv, BankInv
<1>1. drafts[d].status = "DRAFT" /\ drafts[d] # NoDraft
  BY DEF NoDraft, submit_transfer, Submittable
<1>2. PICK a \in Accounts, n \in Float :
        a = drafts[d].source /\ n = drafts[d].amount /\ drafts[d] \in TransferDraft
  BY <1>0, <1>1, DraftFields
<1>3. /\ drafts[d].status = "DRAFT"
      /\ balance' = [balance EXCEPT ![a] = Less(@, n)]
      /\ drafts' = [drafts EXCEPT ![d].status = "COMPLETED"]
      /\ transactions' = [transactions EXCEPT ![a] = @ + 1]
  BY <1>2 DEF submit_transfer, Execute, Submittable
<1>4. n \in (1..Limit) \cup {NaN}
  BY <1>1, <1>2 DEF BookInv, AmountsValid
<1>5. /\ \A e \in DraftIds : e # d => drafts'[e] = drafts[e]
      /\ drafts'[d].status = "COMPLETED" /\ drafts'[d].source = a /\ drafts'[d].amount = n
  BY <1>0, <1>3, <1>2 DEF BankTypeOK, TransferDraft
<1>6. AmountsValid'
  BY <1>4, <1>5 DEF BookInv, AmountsValid
<1>7. ASSUME NEW b \in Accounts, b # a PROVE Books(b)'
  <2>0. d \notin Paid(b)
    BY <1>3 DEF Paid
  <2>1. Paid(b)' = Paid(b)
    BY <1>5, <1>7, <2>0 DEF Paid
  <2>2. \A e \in Paid(b) : drafts'[e].amount = drafts[e].amount
    BY <1>5, <2>0 DEF Paid
  <2>3. Numeric(b)' = Numeric(b) /\ PaidNaN(b)' = PaidNaN(b)
    BY <2>1, <2>2 DEF Numeric, PaidNaN
  <2>4. SumOf(drafts', Numeric(b)) = SumOf(drafts, Numeric(b))
    <3>1. \A e \in Numeric(b) : drafts'[e].amount = drafts[e].amount
      BY <2>2 DEF Numeric
    <3> QED
      BY <3>1, PaidAffordable, SumOfSame
  <2>5. balance'[b] = balance[b] /\ transactions'[b] = transactions[b]
    BY <1>0, <1>3, <1>7 DEF BankTypeOK
  <2>6. SumOf(drafts', Numeric(b)') = SumOf(drafts, Numeric(b))
    BY <2>3, <2>4
  <2> QED
    BY <2>1, <2>3, <2>5, <2>6 DEF BookInv, Books
<1>8. Books(a)'
  <2> DEFINE P == Paid(a)
             N == Numeric(a)
  <2>0. /\ IsFiniteSet(P)
        /\ ~PaidNaN(a) => balance[a] = Opening[a] - SumOf(drafts, N)
        /\ PaidNaN(a) => balance[a] = NaN
        /\ transactions[a] = Cardinality(P)
    BY <1>2 DEF BookInv, Books
  <2>1. d \notin P
    BY <1>3 DEF Paid
  <2>2. Paid(a)' = P \cup {d}
    BY <1>5 DEF Paid
  <2>3. \A e \in P : e # d /\ drafts'[e] = drafts[e]
    BY <1>5, <2>1 DEF Paid
  <2>4. IsFiniteSet(P \cup {d}) /\ Cardinality(P \cup {d}) = Cardinality(P) + 1
    BY <2>0, <2>1, FS_AddElement
  <2>5. transactions'[a] = transactions[a] + 1 /\ balance'[a] = Less(balance[a], n)
    BY <1>0, <1>3, <1>2 DEF BankTypeOK
  <2>6. IsFiniteSet(Paid(a)') /\ transactions'[a] = Cardinality(Paid(a)')
    BY <2>0, <2>2, <2>4, <2>5
  <2>7. PaidNaN(a)' <=> PaidNaN(a) \/ n = NaN
    BY <1>5, <2>2, <2>3 DEF PaidNaN
  <2>8. CASE n = NaN \/ PaidNaN(a)
    BY <2>0, <2>5, <2>6, <2>7, <2>8 DEF Books, Less
  <2>9. CASE n # NaN /\ ~PaidNaN(a)
    <3>1. d \notin N /\ \A e \in N : drafts'[e].amount = drafts[e].amount
      BY <2>1, <2>3 DEF Numeric
    <3>2. Numeric(a)' = N \cup {d}
      BY <1>5, <2>2, <2>3, <2>9 DEF Numeric
    <3>3. Affordable(drafts, N)
      BY <1>2, PaidAffordable
    <3> HIDE DEF N, P
    <3>4. Affordable(drafts', N) /\ SumOf(drafts', N) = SumOf(drafts, N)
      BY <3>1, <3>3, SumOfSame
    <3>5. IsFiniteSet(N \cup {d})
      BY <3>3, FS_AddElement DEF Affordable
    <3>6. Affordable(drafts', N \cup {d})
      BY <1>4, <1>5, <2>9, <3>4, <3>5 DEF Affordable
    <3>7. SumOf(drafts', N \cup {d}) = n + SumOf(drafts, N)
      <4>1. SumOf(drafts', N \cup {d}) = drafts'[d].amount + SumOf(drafts', N)
        BY <3>1, <3>6, SumOfOneMore
      <4> QED
        BY <1>5, <3>4, <4>1
    <3>8. SumOf(drafts, N) \in Int /\ Opening[a] \in Int /\ n \in Int
      BY <1>2, <1>4, <2>9, <3>3, SumOfType, BankingAssumption
    <3>9. balance[a] \in Int /\ balance[a] # NaN
      BY <2>0, <2>9, <3>8, BankingAssumption
    <3>10. balance'[a] = balance[a] - n
      BY <2>5, <2>9, <3>9 DEF Less
    <3>11. balance'[a] = Opening[a] - (n + SumOf(drafts, N))
      BY <2>0, <2>9, <3>8, <3>10
    <3>12. SumOf(drafts', Numeric(a)') = n + SumOf(drafts, N)
      BY <3>2, <3>7
    <3> QED
      BY <2>6, <2>7, <2>9, <3>11, <3>12 DEF Books
  <2> QED
    BY <2>8, <2>9
<1> QED
  BY <1>6, <1>7, <1>8 DEF BookInv

\* Every operation of the repository keeps the books.
LEMMA BookStep == BookInv /\ [BankNext]_bankVars => BookInv'
<1> SUFFICES ASSUME BookInv, [BankNext]_bankVars PROVE BookInv'
  OBVIOUS
<1>0. BankInv /\ BankInv' /\ BankTypeOK
  BY BankStep DEF BookInv, BankInv
<1>1. ASSUME NEW d \in DraftIds, NEW user \in Users, NEW a \in Accounts,
             NEW amount \in Amounts, NEW key \in IdemKeys \cup {NoKey},
             create_transfer_draft(d, a, amount, user, key)
      PROVE  BookInv'
  <2> DEFINE new == [status |-> "DRAFT", source |-> a, amount |-> amount, key |-> key]
  <2>1. /\ drafts' = [drafts EXCEPT ![d] = new]
        /\ UNCHANGED <<balance, transactions>>
        /\ drafts[d].status # "COMPLETED"
    BY <1>1 DEF create_transfer_draft, Unused, NoDraft
  <2>2. new.status # "COMPLETED" /\ new.amount = amount
    OBVIOUS
  <2>3. amount \in (1..Limit) \cup {NaN}
    BY <1>1, BankingAssumption DEF create_transfer_draft, ValidAmount
  <2> HIDE DEF new
  <2> QED
    BY <1>0, <2>1, <2>2, <2>3, OtherStatusBooks
<1>2. ASSUME NEW d \in DraftIds, NEW status \in {"FAILED", "CANCELLED"},
             drafts[d].status \in {"DRAFT", "PENDING"},
             drafts' = [drafts EXCEPT ![d].status = status],
             UNCHANGED <<balance, transactions>>
      PROVE  BookInv'
  <2> DEFINE new == [drafts[d] EXCEPT !.status = status]
  <2>1. drafts[d] # NoDraft
    BY <1>2 DEF NoDraft
  <2>2. new.status # "COMPLETED" /\ new.amount = drafts[d].amount
    BY <1>0, <2>1, DraftFields DEF TransferDraft
  <2>3. drafts[d].amount \in (1..Limit) \cup {NaN}
    BY <2>1 DEF BookInv, AmountsValid
  <2>4. drafts' = [drafts EXCEPT ![d] = new]
    BY <1>2
  <2> HIDE DEF new
  <2> QED
    BY <1>0, <1>2, <2>2, <2>3, <2>4, OtherStatusBooks
<1>3. ASSUME NEW d \in DraftIds, NEW user \in Users,
             SubmitExpired(d, user) \/ cancel_transfer(d, user)
      PROVE  BookInv'
  BY <1>2, <1>3 DEF SubmitExpired, Submittable, cancel_transfer
<1>4. ASSUME NEW d \in DraftIds, NEW user \in Users, submit_transfer(d, user)
      PROVE  BookInv'
  BY <1>0, <1>4, SubmitBooks
<1>5. ASSUME UNCHANGED <<balance, drafts, transactions>>
      PROVE  BookInv'
  BY <1>0, <1>5 DEF BookInv, AmountsValid, Books, Paid, Numeric, PaidNaN
<1>6. ASSUME NEW d \in DraftIds, DraftExpires(d)
      PROVE  BookInv'
  BY <1>5, <1>6 DEF DraftExpires
<1>7. CASE UNCHANGED bankVars
  BY <1>5, <1>7 DEF bankVars
<1> QED
  BY <1>1, <1>3, <1>4, <1>6, <1>7 DEF BankNext

\* The balance of an account is its opening balance less the sum of its completed
\* drafts, and NaN from the first draft of NaN on; each draft is one transaction.
THEOREM BankMoneyAccountedFor == BankSpec => []MoneyAccountedFor
BY BooksInit, BookStep, BooksAgree, PTL DEF BankSpec

\* However many drafts are open at a time, those of an account that complete never
\* add up to more than the account was opened with, unless one of them was NaN.
THEOREM BankPaysWithinOpening ==
  BankSpec => [](\A a \in Accounts : ~PaidNaN(a) => PaidOut(a) <= Opening[a])
<1>1. BookInv => \A a \in Accounts : ~PaidNaN(a) => PaidOut(a) <= Opening[a]
  <2> SUFFICES ASSUME BookInv, NEW a \in Accounts, ~PaidNaN(a)
               PROVE  SumOf(drafts, Numeric(a)) <= Opening[a]
    BY PaidOutIsSum
  <2>1. SumOf(drafts, Numeric(a)) \in Nat /\ Opening[a] \in Nat
    BY PaidAffordable, SumOfType, BankingAssumption
  <2>2. balance[a] = Opening[a] - SumOf(drafts, Numeric(a)) /\ balance[a] >= 0
    BY DEF BookInv, Books, BankInv, NoOverdraft
  <2> QED
    BY <2>1, <2>2
<1> QED
  BY <1>1, BooksInit, BookStep, PTL DEF BankSpec

-----------------------------------------------------------------------------
(* The tools                                                               *)

\* A tool call is an operation of the repository, or a reply that leaves it alone.
LEMMA ToolsStep == [ToolsNext]_toolVars => [BankNext]_bankVars
<1> SUFFICES ASSUME ToolsNext PROVE [BankNext]_bankVars
  BY DEF toolVars
<1>1. ASSUME NEW user \in Users, NEW a \in Accounts, NEW amount \in Amounts,
             NEW key \in IdemKeys \cup {NoKey}, NEW d \in DraftIds,
             CreateDraft(d, a, amount, user, key)
      PROVE  BankNext
  BY <1>1 DEF CreateDraft, BankNext
<1>2. ASSUME NEW user \in Users, NEW d \in DraftIds,
             Submit(d, user) \/ SubmitTooLate(d, user) \/ Cancel(d, user)
      PROVE  BankNext
  BY <1>2 DEF Submit, SubmitTooLate, Cancel, BankNext
<1>3. ASSUME NEW d \in DraftIds, TimePasses(d)
      PROVE  BankNext
  BY <1>3 DEF TimePasses, BankNext
<1>4. ASSUME NEW user \in Users, NEW a \in Accounts,
             \/ ReadAccount(a, user)
             \/ \E amount \in Amounts, key \in IdemKeys \cup {NoKey}, b \in Beneficiaries :
                  CreateRefused(a, amount, user, key, b)
      PROVE  UNCHANGED bankVars
  BY <1>4 DEF ReadAccount, CreateRefused
<1>5. ASSUME NEW user \in Users, NEW d \in DraftIds,
             SubmitRefused(d, user) \/ CancelRefused(d, user)
      PROVE  UNCHANGED bankVars
  BY <1>5 DEF SubmitRefused, CancelRefused
<1>6. ASSUME NEW d \in DraftIds, TransferStatusOf(d)
      PROVE  UNCHANGED bankVars
  BY <1>6 DEF TransferStatusOf
<1>7. ASSUME (\E b \in Beneficiaries \cup {"other"} : FindBeneficiary(b))
             \/ ReportSuspicious \/ BadCall
      PROVE  UNCHANGED bankVars
  BY <1>7 DEF FindBeneficiary, ReportSuspicious, BadCall
<1> QED
  BY <1>1, <1>2, <1>3, <1>4, <1>5, <1>6, <1>7 DEF ToolsNext

\* The tools behind the MCP server promise no more and no less than the repository:
\* whatever is called, in whatever order, its state changes as BankSpec says.
THEOREM ToolsImplementBanking == ToolsSpec => BankSpec
<1>1. ToolsInit => BankInit
  BY DEF ToolsInit
<1> QED
  BY <1>1, ToolsStep, PTL DEF ToolsSpec, BankSpec

\* The books and the reply keep their types.
THEOREM ToolsTypeCorrect == ToolsSpec => []ToolsTypeOK
<1> DEFINE ReplyOK == reply \in [tool : ToolNames, ok : BOOLEAN]
<1>1. ToolsInit => ReplyOK
  BY DEF ToolsInit, ToolNames
<1>2. ReplyOK /\ [ToolsNext]_toolVars => ReplyOK'
  <2>1. \A tool \in ToolNames, success \in BOOLEAN : Answer(tool, success) => ReplyOK'
    BY DEF Answer
  <2> HIDE DEF ReplyOK
  <2>2. /\ \A success \in BOOLEAN : Answer("other", success) => ReplyOK'
        /\ Answer("create", TRUE) \/ Answer("submit", TRUE) \/ Answer("cancel", TRUE) => ReplyOK'
        /\ Answer("create", FALSE) \/ Answer("submit", FALSE) \/ Answer("cancel", FALSE) => ReplyOK'
        /\ Answer("other", TRUE) \/ Answer("other", FALSE) => ReplyOK'
    BY <2>1 DEF ToolNames
  <2>3. \A user \in Users, a \in Accounts : ReadAccount(a, user) => ReplyOK'
    BY <2>2 DEF ReadAccount
  <2>4. \A b \in Beneficiaries \cup {"other"} : FindBeneficiary(b) => ReplyOK'
    <3> SUFFICES ASSUME NEW b \in Beneficiaries \cup {"other"}, FindBeneficiary(b) PROVE ReplyOK'
      OBVIOUS
    <3>1. (b \in Beneficiaries) \in BOOLEAN
      OBVIOUS
    <3>2. Answer("other", b \in Beneficiaries)
      BY DEF FindBeneficiary
    <3> QED
      BY <2>2, <3>1, <3>2
  <2>5. \A d \in DraftIds : TransferStatusOf(d) => ReplyOK'
    BY <2>2 DEF TransferStatusOf, Unused
  <2>6. ReplyOK /\ UNCHANGED reply => ReplyOK'
    BY DEF ReplyOK
  <2>7. CASE ToolsNext
    BY <2>2, <2>3, <2>4, <2>5, <2>6 DEF ToolsNext, toolVars, CreateDraft, CreateRefused, Submit,
       SubmitTooLate, SubmitRefused, Cancel, CancelRefused, ReportSuspicious, BadCall, TimePasses
  <2> QED
    BY <2>6, <2>7 DEF toolVars
<1>3. BankInv => BankTypeOK
  BY DEF BankInv
<1>4. ToolsSpec => []BankInv
  BY ToolsImplementBanking, BankInvariant
<1> QED
  BY <1>1, <1>2, <1>3, <1>4, PTL DEF ToolsSpec, ToolsTypeOK

\* No sequence of tool calls overdraws an account that pays only numbers.
THEOREM ToolsNeverOverdraw == ToolsSpec => []NoOverdraft
BY ToolsImplementBanking, BankNeverOverdraws

\* No sequence of tool calls pays twice under one idempotency key.
THEOREM ToolsKeyPaysOnce == ToolsSpec => []KeyPaysOnce
BY ToolsImplementBanking, BankKeyPaysOnce

\* No sequence of tool calls moves money that the completed drafts do not account for.
THEOREM ToolsMoneyAccountedFor == ToolsSpec => []MoneyAccountedFor
BY ToolsImplementBanking, BankMoneyAccountedFor

\* What a caller is told is what happened: a submission answered with success has
\* paid exactly one draft, nothing else moves money, an error reply has settled
\* nothing but an expired draft, and the other tools touch no draft.
THEOREM ToolsReplyTellsTruth == ToolsSpec => ReplyTellsTruth
<1> DEFINE Paying == Told("submit") => \E d \in DraftIds : PaysDraft(d)
           Quiet == ~Told("submit") => UNCHANGED <<balance, completed, transactions>>
           Error == ~reply'.ok => \A d \in DraftIds : drafts'[d] # drafts[d] =>
                      drafts[d].status = "DRAFT" /\ drafts'[d].status = "FAILED" /\ d \in expired
           Other == reply'.tool = "other" => UNCHANGED drafts
           Truth == expired' = expired => Paying /\ Quiet /\ Error /\ Other
<1>1. BankInv /\ [ToolsNext]_toolVars => [Truth]_toolVars
  <2> SUFFICES ASSUME BankInv, ToolsNext PROVE Truth
    OBVIOUS
  <2>1. ASSUME UNCHANGED bankVars, ~Told("submit") PROVE Truth
    BY <2>1 DEF bankVars
  <2>2. ASSUME NEW d \in DraftIds, NEW status \in TransferStatus, drafts[d].status = "DRAFT",
               drafts' = [drafts EXCEPT ![d].status = status]
        PROVE  /\ drafts'[d].status = status
               /\ \A e \in DraftIds : drafts'[e] # drafts[e] => e = d
    <3>1. drafts[d] \in TransferDraft
      BY <2>2, DraftFields DEF BankInv, NoDraft
    <3> QED
      BY <2>2, <3>1 DEF BankInv, BankTypeOK, TransferDraft
  <2>3. ASSUME NEW user \in Users, NEW d \in DraftIds, Submit(d, user)
        PROVE  Truth
    <3>1. PaysDraft(d) /\ Told("submit")
      BY <2>3 DEF Submit, submit_transfer, Submittable, Execute, Answer, Told, PaysDraft
    <3> QED
      BY <3>1 DEF Told
  <2>4. ASSUME NEW user \in Users, NEW d \in DraftIds, SubmitTooLate(d, user)
        PROVE  Truth
    <3>1. /\ drafts[d].status = "DRAFT" /\ d \in expired
          /\ drafts' = [drafts EXCEPT ![d].status = "FAILED"]
          /\ UNCHANGED <<balance, completed, transactions>>
          /\ reply'.tool = "submit" /\ ~reply'.ok
      BY <2>4 DEF SubmitTooLate, SubmitExpired, Submittable, Answer
    <3>2. drafts'[d].status = "FAILED" /\ \A e \in DraftIds : drafts'[e] # drafts[e] => e = d
      BY <2>2, <3>1 DEF TransferStatus
    <3>3. ~Told("submit")
      BY <3>1 DEF Told
    <3> QED
      BY <3>1, <3>2, <3>3
  <2>5. ASSUME NEW user \in Users, NEW d \in DraftIds, Cancel(d, user)
        PROVE  Truth
    BY <2>5 DEF Cancel, cancel_transfer, Answer, Told
  <2>6. ASSUME NEW user \in Users, NEW a \in Accounts, NEW amount \in Amounts,
               NEW key \in IdemKeys \cup {NoKey}, NEW d \in DraftIds,
               CreateDraft(d, a, amount, user, key)
        PROVE  Truth
    BY <2>6 DEF CreateDraft, create_transfer_draft, Answer, Told
  <2>7. ASSUME NEW d \in DraftIds, TimePasses(d)
        PROVE  Truth
    BY <2>7 DEF TimePasses, DraftExpires
  <2>8. ASSUME NEW user \in Users, NEW a \in Accounts,
               \/ ReadAccount(a, user)
               \/ \E amount \in Amounts, key \in IdemKeys \cup {NoKey}, b \in Beneficiaries :
                    CreateRefused(a, amount, user, key, b)
        PROVE  UNCHANGED bankVars /\ ~Told("submit")
    BY <2>8 DEF ReadAccount, CreateRefused, Answer, Told
  <2>9. ASSUME NEW user \in Users, NEW d \in DraftIds,
               SubmitRefused(d, user) \/ CancelRefused(d, user)
        PROVE  UNCHANGED bankVars /\ ~Told("submit")
    BY <2>9 DEF SubmitRefused, CancelRefused, Answer, Told
  <2>10. ASSUME \/ \E d \in DraftIds : TransferStatusOf(d)
                \/ \E b \in Beneficiaries \cup {"other"} : FindBeneficiary(b)
                \/ ReportSuspicious \/ BadCall
         PROVE  UNCHANGED bankVars /\ ~Told("submit")
    BY <2>10 DEF TransferStatusOf, FindBeneficiary, ReportSuspicious, BadCall, Answer, Told
  <2> QED
    BY <2>1, <2>3, <2>4, <2>5, <2>6, <2>7, <2>8, <2>9, <2>10 DEF ToolsNext
<1>2. ToolsSpec => []BankInv
  BY ToolsImplementBanking, BankInvariant
<1> QED
  BY <1>1, <1>2, PTL DEF ToolsSpec, ReplyTellsTruth

=============================================================================
