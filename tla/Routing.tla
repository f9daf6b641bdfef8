------------------------------ MODULE Routing ------------------------------
(***************************************************************************)
(* The intent router (routing/) and the tool registry bootstrap.py builds: *)
(* how a user message is mapped to an intent, an intent to a route and a   *)
(* tool to the kind of its operation.                                      *)
(*                                                                         *)
(* Which intent the keyword rules find in a text is left open; bootstrap   *)
(* gives the router no model to fall back to.                              *)
(***************************************************************************)
EXTENDS Sequences, AuthPolicy

\* Intents classify can return; the taxonomy has three more that no rule produces.
Intents ==
  {"ACCOUNT_QUERY", "TRANSACTION_QUERY", "BENEFICIARY_QUERY", "TRANSFER_CREATE",
   "TRANSFER_SUBMIT", "TRANSFER_CANCEL", "TRANSFER_STATUS", "POLICY_QUESTION",
   "SUSPICIOUS_ACTIVITY_REPORT", "COMPLEX_TASK", "GENERAL_UNSUPPORTED"}

RouteKinds == {"DIRECT", "TRANSFER_STATE_MACHINE", "RAG", "PLANNER", "REJECT"}

ReadTools ==
  {"get_account_summary", "get_balance", "list_transactions", "find_beneficiary",
   "get_transfer_status"}
WriteTools ==
  {"create_transfer_draft", "submit_transfer", "cancel_transfer",
   "report_suspicious_transaction"}
BankingTools == ReadTools \cup WriteTools

\* bootstrap.py: a tool has side effects unless its name begins like a read.
BankingKind == [t \in BankingTools |-> IF t \in ReadTools THEN "READ" ELSE "WRITE"]

\* Mutant: the whole life cycle of a transfer is a direct tool call.
RouteOf_TransfersDirect ==
  [i \in Intents |->
     CASE i \in {"ACCOUNT_QUERY", "TRANSACTION_QUERY", "BENEFICIARY_QUERY", "TRANSFER_STATUS",
                 "TRANSFER_CREATE", "TRANSFER_SUBMIT", "TRANSFER_CANCEL"} -> "DIRECT"
       [] i = "POLICY_QUESTION" -> "RAG"
       [] i \in {"COMPLEX_TASK", "SUSPICIOUS_ACTIVITY_REPORT"} -> "PLANNER"
       [] OTHER -> "REJECT"]

RouteOf ==
  [i \in Intents |->
     CASE i \in {"ACCOUNT_QUERY", "TRANSACTION_QUERY", "BENEFICIARY_QUERY", "TRANSFER_STATUS"}
            -> "DIRECT"
       [] i \in {"TRANSFER_CREATE", "TRANSFER_SUBMIT", "TRANSFER_CANCEL"}
            -> "TRANSFER_STATE_MACHINE"
       [] i = "POLICY_QUESTION" -> "RAG"
       [] i \in {"COMPLEX_TASK", "SUSPICIOUS_ACTIVITY_REPORT"} -> "PLANNER"
       [] OTHER -> "REJECT"]

SuggestedTools ==
  [i \in Intents |->
     CASE i = "ACCOUNT_QUERY" -> <<"get_balance", "get_account_summary">>
       [] i = "TRANSACTION_QUERY" -> <<"list_transactions">>
       [] i = "BENEFICIARY_QUERY" -> <<"find_beneficiary">>
       [] i = "TRANSFER_CREATE" -> <<"create_transfer_draft">>
       [] i = "TRANSFER_SUBMIT" -> <<"submit_transfer">>
       [] i = "TRANSFER_CANCEL" -> <<"cancel_transfer">>
       [] i = "TRANSFER_STATUS" -> <<"get_transfer_status">>
       [] i = "SUSPICIOUS_ACTIVITY_REPORT" -> <<"report_suspicious_transaction">>
       [] OTHER -> <<>>]

=============================================================================
