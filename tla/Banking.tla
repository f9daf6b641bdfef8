------------------------------ MODULE Banking ------------------------------
(***************************************************************************)
(* BankingRepository (banking/repository.py): the accounts, the transfer   *)
(* drafts and the completed idempotency keys behind the banking tools.     *)
(* A tool runs to its end without an await, so each operation is one step; *)
(* what interleaves are the operations themselves, of all conversations,   *)
(* and the clock that lets drafts expire.  A call that returns an error    *)
(* without touching the repository is a stuttering step.                   *)
(*                                                                         *)
(* Amounts are whole numbers of the smallest unit, or NaN: the tool makes  *)
(* a float of what the caller sent, every comparison with NaN is false and *)
(* every difference with it is NaN.  The rounding of floats is left out.   *)
(***************************************************************************)
EXTENDS Integers, FiniteSetsExt

CONSTANTS Accounts, Users,
          Owner,      \* account -> owner_id
          Active,     \* accounts whose active flag is set
          Opening,    \* account -> balance of the fixture
          Amounts,    \* amounts a caller may ask for
          NaN,        \* float("nan")
          Limit,      \* DEFAULT_TRANSACTION_LIMIT
          IdemKeys,       \* non-empty idempotency keys
          NoKey,      \* the empty idempotency key
          DraftIds    \* uuids, so many drafts at most

ASSUME BankingAssumption ==
  /\ Owner \in [Accounts -> Users]
  /\ Active \subseteq Accounts
  /\ Opening \in [Accounts -> Nat]
  /\ NaN \notin Int /\ Amounts \subseteq Int \cup {NaN}
  /\ Limit \in Nat
  /\ NoKey \notin IdemKeys

VARIABLES balance,        \* account -> balance
          drafts,         \* draft id -> draft
          expired,        \* drafts whose expires_at has passed
          completed,      \* _completed_transfers
          transactions    \* account -> number of recorded transactions, one per transfer

bankVars == <<balance, drafts, expired, completed, transactions>>

TransferStatus == {"DRAFT", "PENDING", "COMPLETED", "CANCELLED", "FAILED"}

Float == Int \cup {NaN}

TransferDraft ==
  [status : TransferStatus, source : Accounts, amount : Float, key : IdemKeys \cup {NoKey}]

NoDraft == [status |-> "NONE"]

Unused(d) == drafts[d] = NoDraft

BankTypeOK ==
  /\ balance \in [Accounts -> Float]
  /\ drafts \in [DraftIds -> TransferDraft \cup {NoDraft}]
  /\ expired \subseteq DraftIds
  /\ completed \subseteq IdemKeys
  /\ transactions \in [Accounts -> Nat]

BankInit ==
  /\ balance = Opening
  /\ drafts = [d \in DraftIds |-> NoDraft]
  /\ expired = {}
  /\ completed = {}
  /\ transactions = [a \in Accounts |-> 0]

-----------------------------------------------------------------------------

\* Neither amount <= 0 nor amount > Limit, which NaN is not either.
ValidAmount(amount) == amount \in Int => amount > 0 /\ amount <= Limit

\* Not funds < amount.
Covers(funds, amount) == funds \in Int /\ amount \in Int => funds >= amount

Less(funds, amount) == IF funds = NaN \/ amount = NaN THEN NaN ELSE funds - amount

\* Nothing is reserved: the balance is only compared with.
create_transfer_draft(d, a, amount, user, key) ==
  /\ Unused(d)
  /\ a \in Active /\ Owner[a] = user
  /\ ValidAmount(amount)
  /\ Covers(balance[a], amount)
  /\ key \notin completed
  /\ drafts' = [drafts EXCEPT ![d] =
                  [status |-> "DRAFT", source |-> a, amount |-> amount, key |-> key]]
  /\ UNCHANGED <<balance, expired, completed, transactions>>

Submittable(d, user) == drafts[d].status = "DRAFT" /\ Owner[drafts[d].source] = user

\* submit_transfer of a draft whose time is over.
SubmitExpired(d, user) ==
  /\ Submittable(d, user)
  /\ d \in expired
  /\ drafts' = [drafts EXCEPT ![d].status = "FAILED"]
  /\ UNCHANGED <<balance, expired, completed, transactions>>

\* What submit_transfer does once every check has passed.
Execute(d) ==
  LET a == drafts[d].source
  IN /\ balance' = [balance EXCEPT ![a] = Less(@, drafts[d].amount)]
     /\ drafts' = [drafts EXCEPT ![d].status = "COMPLETED"]
     /\ transactions' = [transactions EXCEPT ![a] = @ + 1]
     /\ completed' = completed \cup ({drafts[d].key} \ {NoKey})
     /\ UNCHANGED expired

\* Mutant: the balance that was checked for the draft is trusted.
submit_transfer_StaleBalance(d, user) ==
  /\ Submittable(d, user) /\ d \notin expired
  /\ drafts[d].key \notin completed
  /\ Execute(d)

\* Mutant: the key was looked up when the draft was made, so not again.
submit_transfer_StaleKey(d, user) ==
  /\ Submittable(d, user) /\ d \notin expired
  /\ Covers(balance[drafts[d].source], drafts[d].amount)
  /\ Execute(d)

submit_transfer(d, user) ==
  /\ Submittable(d, user) /\ d \notin expired
  /\ drafts[d].key \notin completed
  /\ Covers(balance[drafts[d].source], drafts[d].amount)
  /\ Execute(d)

\* Mutant: a draft can be cancelled whatever became of it.
cancel_transfer_Always(d, user) ==
  /\ ~Unused(d) /\ Owner[drafts[d].source] = user
  /\ drafts' = [drafts EXCEPT ![d].status = "CANCELLED"]
  /\ UNCHANGED <<balance, expired, completed, transactions>>

cancel_transfer(d, user) ==
  /\ drafts[d].status \in {"DRAFT", "PENDING"}
  /\ Owner[drafts[d].source] = user
  /\ drafts' = [drafts EXCEPT ![d].status = "CANCELLED"]
  /\ UNCHANGED <<balance, expired, completed, transactions>>

\* The clock passes the expires_at of a draft.
DraftExpires(d) ==
  /\ ~Unused(d) /\ d \notin expired
  /\ expired' = expired \cup {d}
  /\ UNCHANGED <<balance, drafts, completed, transactions>>

BankNext ==
  \E d \in DraftIds :
    \/ \E user \in Users :
         \/ \E a \in Accounts, amount \in Amounts, key \in IdemKeys \cup {NoKey} :
              create_transfer_draft(d, a, amount, user, key)
         \/ SubmitExpired(d, user) \/ submit_transfer(d, user) \/ cancel_transfer(d, user)
    \/ DraftExpires(d)

BankSpec == BankInit /\ [][BankNext]_bankVars

-----------------------------------------------------------------------------
(* Properties                                                              *)

Paid(a) == {d \in DraftIds : drafts[d].status = "COMPLETED" /\ drafts[d].source = a}

PaidNaN(a) == \E d \in Paid(a) : drafts[d].amount = NaN

\* No account is overdrawn, although several drafts may be open at a time that
\* together exceed its balance.  The exception is an account that has paid a draft
\* of NaN: nothing is compared with its balance any more (see SufficientBalance).
NoOverdraft ==
  \A a \in Accounts : ~PaidNaN(a) => balance[a] \in Int /\ balance[a] >= 0

\* What the completed drafts of an account add up to, those of NaN left out.
PaidOut(a) ==
  MapThenSumSet(LAMBDA d : drafts[d].amount, {d \in Paid(a) : drafts[d].amount # NaN})

\* The balance, the completed drafts and the transaction list of an account agree:
\* what left the account is the sum of its completed drafts, each recorded once, and
\* the balance is a number until a draft of NaN is paid and none from then on.  It
\* holds up to the rounding of floats, which the model leaves out.
MoneyAccountedFor ==
  \A a \in Accounts :
    /\ balance[a] = IF PaidNaN(a) THEN NaN ELSE Opening[a] - PaidOut(a)
    /\ transactions[a] = Cardinality(Paid(a))

\* What docs/banking-tool-policy.md requires of a transfer: it is covered by the
\* balance, so that an account never pays more than it was opened with.  Not so once
\* a draft of NaN has made the balance NaN: from then on every draft is covered.
SufficientBalance == \A a \in Accounts : PaidOut(a) <= Opening[a]

\* One idempotency key pays at most once, also when several drafts were created
\* under it before the first was submitted.
KeyPaysOnce ==
  \A d, e \in DraftIds :
    /\ drafts[d].status = "COMPLETED" /\ drafts[e].status = "COMPLETED"
    /\ drafts[d].key = drafts[e].key /\ drafts[d].key # NoKey
    => d = e

\* A completed, cancelled or failed draft never changes again, and no step other
\* than the completion of a draft moves money.
DraftsAreFinal ==
  [][/\ \A d \in DraftIds :
          drafts[d].status \in {"COMPLETED", "CANCELLED", "FAILED"} => drafts'[d] = drafts[d]
     /\ balance' # balance =>
          \E d \in DraftIds : drafts[d].status = "DRAFT" /\ drafts'[d].status = "COMPLETED"
    ]_bankVars

=============================================================================
