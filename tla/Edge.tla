------------------------------- MODULE Edge -------------------------------
(***************************************************************************)
(* What stands between a client and the agent: the rate limiter and the    *)
(* token verifier on one clock.  create_app installs the limiter only: the *)
(* verifier is a finished part that nothing calls yet.                     *)
(***************************************************************************)
EXTENDS OIDCVerifier, RateLimit

edgeVars == <<oidcVars, rateVars>>

EdgeInit == OIDCInit /\ RateInit

Tick == OIDCTick /\ RateTick

Limit(k) == (Admit(k) \/ Reject(k)) /\ Forget /\ UNCHANGED <<published, cached, cache, age, gone>>

Verify(t) ==
  /\ \/ BlockAlgorithm(t) \/ VerifyFromCache(t)
     \/ VerifyAfterFetch(t) \/ VerifyAfterForeignAnswer(t) \/ VerifyFetchFails(t)
  /\ UNCHANGED rateVars

Refresh == \E t \in Tokens : VerifyAfterFetch(t) /\ UNCHANGED rateVars

EdgeNext ==
  \/ Tick
  \/ \E k \in Callers : Limit(k)
  \/ \E t \in Tokens : Verify(t)
  \/ \E k \in Keys : (Publish(k) \/ Withdraw(k)) /\ UNCHANGED rateVars

\* Time goes on, tokens keep coming, and a fetch succeeds now and then.
EdgeSpec ==
  /\ EdgeInit /\ [][EdgeNext]_edgeVars
  /\ WF_edgeVars(Tick) /\ SF_edgeVars(Refresh)

=============================================================================
