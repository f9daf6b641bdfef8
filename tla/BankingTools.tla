--------------------------- MODULE BankingTools ---------------------------
(***************************************************************************)
(* The nine banking tools (banking/tools.py) as BankingMCPServer and the   *)
(* MCP client answer them: the operations of Banking together with what    *)
(* the caller is told: which tool was called and whether it was answered   *)
(* with content or an error.  What a reply says is left out.               *)
(***************************************************************************)
EXTENDS Banking

CONSTANTS Beneficiaries,        \* beneficiary ids of the fixture
          ActiveBeneficiaries   \* those whose active flag is set

ASSUME BeneficiaryAssumption == ActiveBeneficiaries \subseteq Beneficiaries

VARIABLE reply   \* to the last call

toolVars == <<bankVars, reply>>

\* The tools that change the books, and all the others together.
ToolNames == {"create", "submit", "cancel", "other"}

ToolsTypeOK == BankTypeOK /\ reply \in [tool : ToolNames, ok : BOOLEAN]

ToolsInit == BankInit /\ reply = [tool |-> "other", ok |-> TRUE]

\* MCPToolResult: content if the tool returned no error.
Answer(tool, success) == reply' = [tool |-> tool, ok |-> success]

\* get_account_summary, get_balance, list_transactions: the repository returns None,
\* and the tool an error, to anyone but the owner.
ReadAccount(a, user) ==
  /\ Answer("other", Owner[a] = user)
  /\ UNCHANGED bankVars

\* "other" is an id the fixture does not have.
FindBeneficiary(b) ==
  /\ Answer("other", b \in Beneficiaries)
  /\ UNCHANGED bankVars

CreateDraft(d, a, amount, user, key) ==
  /\ \E b \in ActiveBeneficiaries : create_transfer_draft(d, a, amount, user, key)
  /\ Answer("create", TRUE)

\* One of the checks fails: account, beneficiary, amount, balance, key.
CreateRefused(a, amount, user, key, b) ==
  /\ ~(/\ a \in Active /\ Owner[a] = user /\ b \in ActiveBeneficiaries
       /\ ValidAmount(amount) /\ Covers(balance[a], amount) /\ key \notin completed)
  /\ Answer("create", FALSE)
  /\ UNCHANGED bankVars

Submit(d, user) == submit_transfer(d, user) /\ Answer("submit", TRUE)

SubmitTooLate(d, user) == SubmitExpired(d, user) /\ Answer("submit", FALSE)

\* Mutant: the money is taken before the key is looked up.
SubmitRefused_AfterDebit(d, user) ==
  /\ Submittable(d, user) /\ d \notin expired /\ drafts[d].key \in completed
  /\ balance' = [balance EXCEPT ![drafts[d].source] = Less(@, drafts[d].amount)]
  /\ Answer("submit", FALSE)
  /\ UNCHANGED <<drafts, expired, completed, transactions>>

\* The draft is unknown, settled or another user's, or its key or balance is used up.
SubmitRefused(d, user) ==
  /\ \/ ~Submittable(d, user)
     \/ /\ Submittable(d, user) /\ d \notin expired
        /\ drafts[d].key \in completed \/ ~Covers(balance[drafts[d].source], drafts[d].amount)
  /\ Answer("submit", FALSE)
  /\ UNCHANGED bankVars

Cancel(d, user) == cancel_transfer(d, user) /\ Answer("cancel", TRUE)

CancelRefused(d, user) ==
  /\ drafts[d].status \in {"DRAFT", "PENDING"} => Owner[drafts[d].source] # user
  /\ Answer("cancel", FALSE)
  /\ UNCHANGED bankVars

\* No owner is asked for.
TransferStatusOf(d) ==
  /\ Answer("other", ~Unused(d))
  /\ UNCHANGED bankVars

\* Only logged.
ReportSuspicious ==
  /\ Answer("other", TRUE)
  /\ UNCHANGED bankVars

\* execute: an unknown tool or id, a missing argument or one of the wrong type, a currency
\* that is not supported.
BadCall == Answer("other", FALSE) /\ UNCHANGED bankVars

TimePasses(d) == DraftExpires(d) /\ UNCHANGED reply

ToolsNext ==
  \/ \E user \in Users, a \in Accounts :
       \/ ReadAccount(a, user)
       \/ \E amount \in Amounts, key \in IdemKeys \cup {NoKey} :
            \/ \E d \in DraftIds : CreateDraft(d, a, amount, user, key)
            \/ \E b \in Beneficiaries : CreateRefused(a, amount, user, key, b)
  \/ \E user \in Users, d \in DraftIds :
       \/ Submit(d, user) \/ SubmitTooLate(d, user) \/ SubmitRefused(d, user)
       \/ Cancel(d, user) \/ CancelRefused(d, user)
  \/ \E d \in DraftIds : TransferStatusOf(d) \/ TimePasses(d)
  \/ \E b \in Beneficiaries \cup {"other"} : FindBeneficiary(b)
  \/ ReportSuspicious \/ BadCall

ToolsSpec == ToolsInit /\ [][ToolsNext]_toolVars

-----------------------------------------------------------------------------
(* Properties                                                              *)

Told(tool) == reply' = [tool |-> tool, ok |-> TRUE]

\* submit_transfer of d as the caller understands it: one draft completed, its amount
\* debited and one transaction recorded.
PaysDraft(d) ==
  LET a == drafts[d].source
  IN /\ drafts[d].status = "DRAFT"
     /\ drafts' = [drafts EXCEPT ![d].status = "COMPLETED"]
     /\ balance' = [balance EXCEPT ![a] = Less(@, drafts[d].amount)]
     /\ transactions' = [transactions EXCEPT ![a] = @ + 1]

\* The reply tells the truth about what happened (the clock, which answers nobody,
\* is the only other step): a submission answered with success has paid exactly one
\* draft, nothing else moves money or uses up a key, a call answered with an error has
\* settled no draft but one whose time was over, and neither a read nor a report
\* touches a draft.
ReplyTellsTruth ==
  [][expired' = expired =>
       /\ Told("submit") => \E d \in DraftIds : PaysDraft(d)
       /\ ~Told("submit") => UNCHANGED <<balance, completed, transactions>>
       /\ ~reply'.ok => \A d \in DraftIds : drafts'[d] # drafts[d] =>
            drafts[d].status = "DRAFT" /\ drafts'[d].status = "FAILED" /\ d \in expired
       /\ reply'.tool = "other" => UNCHANGED drafts
    ]_toolVars

=============================================================================
