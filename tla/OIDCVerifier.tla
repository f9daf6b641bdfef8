---------------------------- MODULE OIDCVerifier ----------------------------
(***************************************************************************)
(* OIDCVerifier of security/oidc.py: a token is checked against the key    *)
(* set of the issuer, which is cached for TTL and kept beyond that for as  *)
(* long as it cannot be fetched again.  verify blocks the event loop, so   *)
(* it is one step.  Cryptography is abstract: a token names a key and has  *)
(* been signed with one; its roles and scopes are copied and are left out. *)
(*                                                                         *)
(* Times are kept as ages that stop growing at TTL: the code compares with *)
(* nothing larger.                                                         *)
(***************************************************************************)
EXTENDS Naturals

CONSTANTS Keys,      \* key ids the issuer may publish
          NoKid,     \* a token without kid
          Tokens,    \* tokens that may be presented
          TTL        \* cache_ttl_seconds

Token ==
  [kid : Keys \cup {NoKid}, signer : Keys,
   alg : BOOLEAN,      \* in ALLOWED_ALGORITHMS
   claims : BOOLEAN,   \* required claims present, issuer, audience and times right
   sub : STRING, tenant_id : STRING]

ASSUME TokenAssumption == NoKid \notin Keys /\ Tokens \subseteq Token /\ TTL \in Nat \ {0}

VARIABLES published,   \* keys at the issuer's endpoint (external)
          cached,      \* _jwks_cache is not empty
          cache,       \* keys in it
          age,         \* now - _jwks_last_fetch
          gone,        \* key -> time since the issuer withdrew it, 0 while published
          source,      \* how the last verification got its keys
          context      \* TrustedRequestContexts of it: one, or none

oidcVars == <<published, cached, cache, age, gone, source, context>>

Tenants == {t.tenant_id : t \in Tokens} \cup {"default"}

OIDCTypeOK ==
  /\ published \subseteq Keys /\ cache \subseteq Keys /\ cached \in BOOLEAN
  /\ age \in 0..TTL /\ gone \in [Keys -> 0..TTL]
  /\ source \in {"none", "cache", "endpoint", "stale"}
  /\ context \subseteq [subject_id : STRING, tenant_id : Tenants, key : Keys]

OIDCInit ==
  /\ published \in SUBSET Keys
  /\ cached = FALSE /\ cache = {} /\ age = TTL
  /\ gone = [k \in Keys |-> IF k \in published THEN 0 ELSE TTL]
  /\ source = "none" /\ context = {}

\* A context lives no longer than its request.
Forget == source' = "none" /\ context' = {}

-----------------------------------------------------------------------------
(* The issuer and the clock                                                *)

Publish(k) ==
  /\ k \notin published
  /\ published' = published \cup {k} /\ gone' = [gone EXCEPT ![k] = 0]
  /\ Forget /\ UNCHANGED <<cached, cache, age>>

Withdraw(k) ==
  /\ k \in published
  /\ published' = published \ {k}
  /\ Forget /\ UNCHANGED <<cached, cache, age, gone>>

Older(t) == IF t = TTL THEN t ELSE t + 1

OIDCTick ==
  /\ age' = Older(age)
  /\ gone' = [k \in Keys |-> IF k \in published THEN 0 ELSE Older(gone[k])]
  /\ Forget /\ UNCHANGED <<published, cached, cache>>

-----------------------------------------------------------------------------
(* verify                                                                  *)

Fresh == cached /\ age < TTL

\* _find_key: without kid it returns an object that is no key, which decode refuses.
FindKey(jwks, kid) == {k \in jwks : k = kid}

\* verify and claims_to_context, with this key set.
Claims(t, jwks) ==
  {[subject_id |-> t.sub,
    tenant_id |-> IF t.tenant_id = "" THEN "default" ELSE t.tenant_id,
    key |-> k] :
      k \in {k \in FindKey(jwks, t.kid) : t.alg /\ t.claims /\ t.signer = k}}

\* A disallowed algorithm is refused before the keys are looked at.
BlockAlgorithm(t) ==
  /\ ~t.alg
  /\ Forget
  /\ UNCHANGED <<published, cached, cache, age, gone>>

\* Mutant: every use of the cache prolongs it.
VerifyFromCache_Prolongs(t) ==
  /\ t.alg /\ Fresh
  /\ source' = "cache" /\ context' = Claims(t, cache)
  /\ age' = 0
  /\ UNCHANGED <<published, cached, cache, gone>>

VerifyFromCache(t) ==
  /\ t.alg /\ Fresh
  /\ source' = "cache" /\ context' = Claims(t, cache)
  /\ UNCHANGED <<published, cached, cache, age, gone>>

VerifyAfterFetch(t) ==
  /\ t.alg /\ ~Fresh
  /\ cached' = TRUE /\ cache' = published /\ age' = 0
  /\ source' = "endpoint" /\ context' = Claims(t, published)
  /\ UNCHANGED <<published, gone>>

\* Any JSON is cached, also one that holds no keys: no token passes until it has expired.
\* An empty object counts as no cache, so the next token fetches again.
VerifyAfterForeignAnswer(t) ==
  /\ t.alg /\ ~Fresh
  /\ cached' \in BOOLEAN /\ cache' = {} /\ age' = 0
  /\ source' = "endpoint" /\ context' = {}
  /\ UNCHANGED <<published, gone>>

\* Mutant: a failed fetch counts as a fetch.
VerifyFetchFails_Restarts(t) ==
  /\ t.alg /\ ~Fresh
  /\ age' = 0
  /\ source' = "stale" /\ context' = Claims(t, cache)
  /\ UNCHANGED <<published, cached, cache, gone>>

\* The endpoint fails or sends no JSON: the old key set is used, however old.
VerifyFetchFails(t) ==
  /\ t.alg /\ ~Fresh
  /\ source' = "stale" /\ context' = Claims(t, cache)
  /\ UNCHANGED <<published, cached, cache, age, gone>>

-----------------------------------------------------------------------------
(* Properties                                                              *)

\* A key the issuer has withdrawn stops working: a token is accepted only under a key
\* that is published, that was withdrawn less than TTL ago, or while the endpoint
\* cannot be reached.
WithdrawalTakesEffect ==
  \A c \in context :
    c.key \in published \/ gone[c.key] < TTL \/ source = "stale"

\* A key the issuer publishes starts working: it is in the cache sooner or later,
\* although a known key set is not fetched again because a token names an unknown key,
\* and although what an endpoint answers instead of a key set is kept like one.
PublishedKeyIsLearnt ==
  \A k \in Keys : k \in published ~> (k \in cache \/ k \notin published)

=============================================================================
