------------------------------ MODULE EdgeProofs ------------------------------
(***************************************************************************)
(* What the key cache of the token verifier guarantees, for any number of  *)
(* keys, any tokens and any TTL, in whatever order the issuer publishes    *)
(* and withdraws, time passes and tokens are presented; and what the rate  *)
(* limiter lets through, for any limit and any window.                     *)
(***************************************************************************)
EXTENDS Edge, WellFoundedInduction, SequenceTheorems, TLAPS

\* A key that is published has not been gone.
PublishedIsNotGone == \A k \in Keys : k \in published => gone[k] = 0

\* A cached key can only have been withdrawn since the cache was filled.
CacheIsNoOlder == cached => \A k \in cache \ published : gone[k] <= age

CacheInv ==
  OIDCTypeOK /\ PublishedIsNotGone /\ CacheIsNoOlder /\ WithdrawalTakesEffect

\* An accepted token was signed with the key of the key set that it names.
LEMMA ClaimsFromKeySet ==
  ASSUME NEW t \in Tokens, NEW jwks \in SUBSET Keys
  PROVE  /\ \A c \in Claims(t, jwks) : c.key \in jwks
         /\ Claims(t, jwks) \subseteq
              [subject_id : STRING, tenant_id : Tenants, key : Keys]
<1>1. t \in Token
  BY TokenAssumption
<1>2. t.sub \in STRING
  BY <1>1 DEF Token
<1> SUFFICES ASSUME NEW c \in Claims(t, jwks)
             PROVE  /\ c.key \in jwks
                    /\ c \in [subject_id : STRING, tenant_id : Tenants, key : Keys]
  OBVIOUS
<1>3. PICK k \in jwks : c = [subject_id |-> t.sub,
                             tenant_id |-> IF t.tenant_id = "" THEN "default" ELSE t.tenant_id,
                             key |-> k]
  BY DEF Claims, FindKey
<1>4. (IF t.tenant_id = "" THEN "default" ELSE t.tenant_id) \in Tenants
  BY DEF Tenants
<1>5. c.key = k /\ k \in Keys
  BY <1>3
<1> QED
  BY <1>2, <1>3, <1>4, <1>5

LEMMA OlderType == ASSUME NEW t \in 0..TTL PROVE Older(t) \in 0..TTL /\ Older(t) >= t
BY TokenAssumption DEF Older

LEMMA OlderMonotone ==
  ASSUME NEW s \in 0..TTL, NEW t \in 0..TTL, s <= t PROVE Older(s) <= Older(t)
BY TokenAssumption DEF Older

LEMMA CacheInit == OIDCInit => CacheInv
<1> SUFFICES ASSUME OIDCInit PROVE CacheInv
  OBVIOUS
<1>1. OIDCTypeOK
  <2>1. TTL \in 0..TTL /\ 0 \in 0..TTL
    BY TokenAssumption
  <2>2. gone \in [Keys -> 0..TTL]
    BY <2>1 DEF OIDCInit
  <2> QED
    BY <2>1, <2>2 DEF OIDCInit, OIDCTypeOK
<1>2. PublishedIsNotGone
  BY DEF OIDCInit, PublishedIsNotGone
<1>3. CacheIsNoOlder /\ WithdrawalTakesEffect
  BY DEF OIDCInit, CacheIsNoOlder, WithdrawalTakesEffect
<1> QED
  BY <1>1, <1>2, <1>3 DEF CacheInv

LEMMA PublishKeeps == ASSUME NEW k \in Keys, CacheInv, Publish(k) PROVE CacheInv'
<1>1. OIDCTypeOK'
  BY TokenAssumption DEF CacheInv, OIDCTypeOK, Publish, Forget
<1>2. PublishedIsNotGone'
  BY DEF CacheInv, OIDCTypeOK, PublishedIsNotGone, Publish
<1>3. CacheIsNoOlder'
  BY DEF CacheInv, OIDCTypeOK, CacheIsNoOlder, Publish
<1>4. WithdrawalTakesEffect'
  BY DEF WithdrawalTakesEffect, Publish, Forget
<1> QED
  BY <1>1, <1>2, <1>3, <1>4 DEF CacheInv

LEMMA WithdrawKeeps == ASSUME NEW k \in Keys, CacheInv, Withdraw(k) PROVE CacheInv'
<1>1. OIDCTypeOK'
  BY DEF CacheInv, OIDCTypeOK, Withdraw, Forget
<1>2. PublishedIsNotGone'
  BY DEF CacheInv, OIDCTypeOK, PublishedIsNotGone, Withdraw
<1>3. CacheIsNoOlder'
  BY DEF CacheInv, OIDCTypeOK, PublishedIsNotGone, CacheIsNoOlder, Withdraw
<1>4. WithdrawalTakesEffect'
  BY DEF WithdrawalTakesEffect, Withdraw, Forget
<1> QED
  BY <1>1, <1>2, <1>3, <1>4 DEF CacheInv

LEMMA TickKeeps == ASSUME CacheInv, OIDCTick PROVE CacheInv'
<1>1. /\ age' = Older(age) /\ UNCHANGED <<published, cached, cache>>
      /\ gone' = [k \in Keys |-> IF k \in published THEN 0 ELSE Older(gone[k])]
      /\ source' = "none" /\ context' = {}
  BY DEF OIDCTick, Forget
<1>2. /\ age \in 0..TTL /\ \A k \in Keys : gone[k] \in 0..TTL
      /\ cache \subseteq Keys
  BY DEF CacheInv, OIDCTypeOK
<1>3. OIDCTypeOK'
  <2>1. age' \in 0..TTL
    BY <1>1, <1>2, OlderType
  <2>2. gone' \in [Keys -> 0..TTL]
    BY <1>1, <1>2, OlderType, TokenAssumption
  <2> QED
    BY <1>1, <2>1, <2>2 DEF CacheInv, OIDCTypeOK
<1>4. PublishedIsNotGone'
  BY <1>1 DEF PublishedIsNotGone
<1>5. CacheIsNoOlder'
  <2> SUFFICES ASSUME cached, NEW k \in cache \ published PROVE gone'[k] <= age'
    BY <1>1 DEF CacheIsNoOlder
  <2>1. gone[k] <= age
    BY DEF CacheInv, CacheIsNoOlder
  <2> QED
    BY <1>1, <1>2, <2>1, OlderMonotone
<1>6. WithdrawalTakesEffect'
  BY <1>1 DEF WithdrawalTakesEffect
<1> QED
  BY <1>3, <1>4, <1>5, <1>6 DEF CacheInv

\* A step that drops the context and leaves issuer and cache alone.
LEMMA ForgetKeeps ==
  ASSUME CacheInv, Forget, UNCHANGED <<published, cached, cache, age, gone>> PROVE CacheInv'
BY DEF CacheInv, OIDCTypeOK, PublishedIsNotGone, CacheIsNoOlder, WithdrawalTakesEffect, Forget

LEMMA VerifyKeeps ==
  ASSUME NEW t \in Tokens, CacheInv, Verify(t)
  PROVE  CacheInv'
<1>1. CASE BlockAlgorithm(t)
  BY <1>1, ForgetKeeps DEF BlockAlgorithm
<1>2. CASE VerifyFromCache(t)
  <2>1. /\ UNCHANGED <<published, cached, cache, age, gone>>
        /\ cached /\ age < TTL /\ source' = "cache" /\ context' = Claims(t, cache)
    BY <1>2 DEF VerifyFromCache, Fresh
  <2>2. cache \in SUBSET Keys
    BY DEF CacheInv, OIDCTypeOK
  <2>3. OIDCTypeOK'
    BY <2>1, <2>2, ClaimsFromKeySet DEF CacheInv, OIDCTypeOK
  <2>4. PublishedIsNotGone' /\ CacheIsNoOlder'
    BY <2>1 DEF CacheInv, PublishedIsNotGone, CacheIsNoOlder
  <2>5. WithdrawalTakesEffect'
    <3> SUFFICES ASSUME NEW c \in context' PROVE c.key \in published \/ gone[c.key] < TTL
      BY <2>1 DEF WithdrawalTakesEffect
    <3>1. c.key \in cache
      BY <2>1, <2>2, ClaimsFromKeySet
    <3>2. c.key \in published \/ gone[c.key] <= age
      BY <2>1, <3>1 DEF CacheInv, CacheIsNoOlder
    <3>3. age \in Nat /\ gone[c.key] \in Nat
      BY <2>2, <3>1 DEF CacheInv, OIDCTypeOK
    <3> QED
      BY <2>1, <3>2, <3>3, TokenAssumption
  <2> QED
    BY <2>3, <2>4, <2>5 DEF CacheInv
<1>3. CASE VerifyAfterFetch(t)
  <2>1. /\ UNCHANGED <<published, gone>>
        /\ cached' = TRUE /\ cache' = published /\ age' = 0
        /\ source' = "endpoint" /\ context' = Claims(t, published)
    BY <1>3 DEF VerifyAfterFetch
  <2>2. published \in SUBSET Keys
    BY DEF CacheInv, OIDCTypeOK
  <2>3. OIDCTypeOK'
    BY <2>1, <2>2, ClaimsFromKeySet, TokenAssumption DEF CacheInv, OIDCTypeOK
  <2>4. PublishedIsNotGone' /\ CacheIsNoOlder'
    BY <2>1 DEF CacheInv, PublishedIsNotGone, CacheIsNoOlder
  <2>5. WithdrawalTakesEffect'
    BY <2>1, <2>2, ClaimsFromKeySet DEF WithdrawalTakesEffect
  <2> QED
    BY <2>3, <2>4, <2>5 DEF CacheInv
<1>4. CASE VerifyFetchFails(t)
  <2>1. /\ UNCHANGED <<published, cached, cache, age, gone>>
        /\ source' = "stale" /\ context' = Claims(t, cache)
    BY <1>4 DEF VerifyFetchFails
  <2>2. cache \in SUBSET Keys
    BY DEF CacheInv, OIDCTypeOK
  <2>3. OIDCTypeOK'
    BY <2>1, <2>2, ClaimsFromKeySet DEF CacheInv, OIDCTypeOK
  <2>4. PublishedIsNotGone' /\ CacheIsNoOlder' /\ WithdrawalTakesEffect'
    BY <2>1 DEF CacheInv, PublishedIsNotGone, CacheIsNoOlder, WithdrawalTakesEffect
  <2> QED
    BY <2>3, <2>4 DEF CacheInv
<1>5. CASE VerifyAfterForeignAnswer(t)
  <2>1. /\ UNCHANGED <<published, gone>>
        /\ cached' \in BOOLEAN /\ cache' = {} /\ age' = 0
        /\ source' = "endpoint" /\ context' = {}
    BY <1>5 DEF VerifyAfterForeignAnswer
  <2>2. OIDCTypeOK'
    BY <2>1, TokenAssumption DEF CacheInv, OIDCTypeOK
  <2>3. PublishedIsNotGone' /\ CacheIsNoOlder' /\ WithdrawalTakesEffect'
    BY <2>1 DEF CacheInv, PublishedIsNotGone, CacheIsNoOlder, WithdrawalTakesEffect
  <2> QED
    BY <2>2, <2>3 DEF CacheInv
<1> QED
  BY <1>1, <1>2, <1>3, <1>4, <1>5 DEF Verify

\* Every step of the edge, the rate limiter's included, keeps the cache sound.
LEMMA CacheStep == CacheInv /\ [EdgeNext]_edgeVars => CacheInv'
<1> SUFFICES ASSUME CacheInv, [EdgeNext]_edgeVars PROVE CacheInv'
  OBVIOUS
<1>1. CASE Tick
  BY <1>1, TickKeeps DEF Tick
<1>2. ASSUME NEW k \in Callers, Limit(k) PROVE CacheInv'
  BY <1>2, ForgetKeeps DEF Limit
<1>3. ASSUME NEW t \in Tokens, Verify(t) PROVE CacheInv'
  BY <1>3, VerifyKeeps
<1>4. ASSUME NEW k \in Keys, Publish(k) \/ Withdraw(k) PROVE CacheInv'
  BY <1>4, PublishKeeps, WithdrawKeeps
<1>5. CASE UNCHANGED edgeVars
  BY <1>5 DEF edgeVars, oidcVars, CacheInv, OIDCTypeOK, PublishedIsNotGone, CacheIsNoOlder,
              WithdrawalTakesEffect
<1> QED
  BY <1>1, <1>2, <1>3, <1>4, <1>5 DEF EdgeNext

THEOREM CacheInvariant == EdgeSpec => []CacheInv
<1>1. EdgeInit => CacheInv
  BY CacheInit DEF EdgeInit
<1> QED
  BY <1>1, CacheStep, PTL DEF EdgeSpec

\* The verifier's state keeps its types.
THEOREM OIDCTypeCorrect == EdgeSpec => []OIDCTypeOK
<1>1. CacheInv => OIDCTypeOK
  BY DEF CacheInv
<1> QED
  BY <1>1, CacheInvariant, PTL

\* As long as the endpoint answers, no token is accepted under a key that the issuer
\* withdrew TTL or longer ago, whatever is presented and however often.
THEOREM WithdrawnKeysStopWorking == EdgeSpec => []WithdrawalTakesEffect
<1>1. CacheInv => WithdrawalTakesEffect
  BY DEF CacheInv
<1> QED
  BY <1>1, CacheInvariant, PTL

-----------------------------------------------------------------------------
(* The rate limiter                                                        *)

Ages == 0..Window

\* The list without its first m entries.
Rest(s, m) == [i \in 1..(Len(s) - m) |-> s[i + m]]

\* The first m entries, and no other, have left the window.
Cut(s, m) ==
  /\ m \in 0..Len(s)
  /\ \A i \in 1..m : ~Within(s[i])
  /\ \A i \in (m+1)..Len(s) : Within(s[i])

\* The oldest come first.
OldestFirst(s) == \A i, j \in 1..Len(s) : i <= j => s[j] <= s[i]

\* An entry is an age.
LEMMA EntryType ==
  ASSUME NEW s \in Seq(Ages), NEW i \in 1..Len(s)
  PROVE  s[i] \in 0..Window /\ s[i] \in Nat
<1>1. s[i] \in Ages
  OBVIOUS
<1> QED
  BY <1>1, RateAssumption DEF Ages

\* What is left of a list is a list of ages.
LEMMA RestType ==
  ASSUME NEW s \in Seq(Ages), NEW m \in 0..Len(s)
  PROVE  /\ Rest(s, m) \in Seq(Ages)
         /\ Len(Rest(s, m)) = Len(s) - m
         /\ \A i \in 1..(Len(s) - m) : Rest(s, m)[i] = s[i + m]
<1>1. Len(s) \in Nat /\ Len(s) - m \in Nat
  OBVIOUS
<1>2. \A i \in 1..(Len(s) - m) : i + m \in 1..Len(s) /\ s[i + m] \in Ages
  BY <1>1
<1> QED
  BY <1>1, <1>2 DEF Rest

\* Ageing keeps the length and adds one to each age, up to Window.
LEMMA AgeType ==
  ASSUME NEW s \in Seq(Ages)
  PROVE  /\ Age(s) \in Seq(Ages)
         /\ Len(Age(s)) = Len(s)
         /\ \A i \in 1..Len(s) : Age(s)[i] = IF s[i] = Window THEN Window ELSE s[i] + 1
<1>1. Len(s) \in Nat /\ DOMAIN s = 1..Len(s) /\ \A i \in 1..Len(s) : s[i] \in Ages
  OBVIOUS
<1>2. \A t \in Ages : (IF t = Window THEN Window ELSE t + 1) \in Ages
  BY RateAssumption DEF Ages
<1> HIDE DEF Ages
<1> QED
  BY <1>1, <1>2 DEF Age

\* A list with the oldest first has a place where the window begins.
LEMMA CutExists ==
  ASSUME NEW s \in Seq(Ages), OldestFirst(s)
  PROVE  \E m \in 0..Len(s) : Cut(s, m)
<1> DEFINE inside == {i \in 1..(Len(s) + 1) : i = Len(s) + 1 \/ Within(s[i])}
<1>0. Len(s) \in Nat /\ Len(s) + 1 \in Nat /\ \A i \in 1..Len(s) : s[i] \in Nat
  BY RateAssumption DEF Ages
<1>1. inside \subseteq Nat /\ Len(s) + 1 \in inside
  BY <1>0
<1>2. PICK x \in inside : \A y \in inside : ~(<<y, x>> \in OpToRel(<, Nat))
  <2> HIDE DEF inside
  <2> QED
    BY <1>1, NatLessThanWellFounded, WFMin
<1>3. \A y \in inside : ~(y < x)
  BY <1>1, <1>2 DEF OpToRel
<1>4. x - 1 \in 0..Len(s)
  BY <1>0
<1>5. \A i \in 1..(x - 1) : ~Within(s[i])
  BY <1>0, <1>3
<1>6. \A i \in ((x - 1) + 1)..Len(s) : Within(s[i])
  <2> SUFFICES ASSUME NEW i \in ((x - 1) + 1)..Len(s) PROVE Within(s[i])
    OBVIOUS
  <2>1. x \in 1..Len(s) /\ i \in 1..Len(s) /\ x <= i
    BY <1>0
  <2>2. Within(s[x])
    BY <1>0, <2>1
  <2>3. s[i] <= s[x]
    BY <2>1 DEF OldestFirst
  <2> QED
    BY <1>0, <2>1, <2>2, <2>3, RateAssumption DEF Within
<1> QED
  BY <1>4, <1>5, <1>6 DEF Cut

\* The recursion behind Recent.
Keeps(s, f) ==
  f = [n \in 0..Len(s) |->
         IF n = 0 THEN <<>> ELSE IF Within(s[n]) THEN Append(f[n-1], s[n]) ELSE f[n-1]]

\* What is kept of a list with the oldest first is what follows the cut.
LEMMA RecentIsRest ==
  ASSUME NEW s \in Seq(Ages), NEW m, Cut(s, m)
  PROVE  Recent(s) = Rest(s, m)
<1> DEFINE part == [n \in 0..Len(s) |-> IF n <= m THEN <<>> ELSE [i \in 1..(n - m) |-> s[i + m]]]
           kept == CHOOSE f : Keeps(s, f)
<1>0. Len(s) \in Nat /\ m \in 0..Len(s) /\ m \in Nat
  BY DEF Cut
<1>1. part[0] = <<>>
  BY <1>0
<1>2. ASSUME NEW n \in 1..Len(s)
      PROVE  part[n] = IF Within(s[n]) THEN Append(part[n-1], s[n]) ELSE part[n-1]
  <2>0. n \in 0..Len(s) /\ n - 1 \in 0..Len(s) /\ n \in Nat
    BY <1>0
  <2>1. CASE n <= m
    <3>1. ~Within(s[n]) /\ n - 1 <= m
      BY <1>0, <2>0, <2>1 DEF Cut
    <3> QED
      BY <1>0, <2>0, <2>1, <3>1
  <2>2. CASE n > m
    <3>1. Within(s[n])
      BY <1>0, <2>0, <2>2 DEF Cut
    <3> DEFINE before == [i \in 1..(n - 1 - m) |-> s[i + m]]
    <3>2. part[n] = [i \in 1..(n - m) |-> s[i + m]]
      BY <1>0, <2>0, <2>2
    <3>3. part[n-1] = before
      <4>1. CASE n - 1 = m
        BY <1>0, <2>0, <2>2, <4>1
      <4>2. CASE n - 1 # m
        BY <1>0, <2>0, <2>2, <4>2
      <4> QED
        BY <4>1, <4>2
    <3>4. before \in Seq(Ages) /\ Len(before) = n - 1 - m
      BY <1>0, <2>0, <2>2
    <3>5. Append(before, s[n]) = [i \in 1..(n - m) |-> s[i + m]]
      BY <1>0, <2>0, <2>2, <3>4
    <3> QED
      BY <3>1, <3>2, <3>3, <3>5
  <2> QED
    BY <1>0, <2>0, <2>1, <2>2
<1>3. Keeps(s, part)
  <2>1. part = [n \in 0..Len(s) |-> part[n]]
    OBVIOUS
  <2> HIDE DEF part
  <2>2. \A n \in 0..Len(s) : n = 0 \/ n \in 1..Len(s)
    BY <1>0
  <2>3. \A n \in 0..Len(s) :
          part[n] = IF n = 0 THEN <<>>
                    ELSE IF Within(s[n]) THEN Append(part[n-1], s[n]) ELSE part[n-1]
    BY <1>1, <1>2, <2>2
  <2> QED
    BY <2>1, <2>3 DEF Keeps
<1>4. Recent(s) = kept[Len(s)]
  BY DEF Recent, Keeps
<1>5. Keeps(s, kept)
  BY <1>3
<1> HIDE DEF kept
<1>6. \A n \in 0..Len(s) :
        kept[n] = IF n = 0 THEN <<>>
                  ELSE IF Within(s[n]) THEN Append(kept[n-1], s[n]) ELSE kept[n-1]
  BY <1>5 DEF Keeps
<1> DEFINE differ == {n \in 0..Len(s) : kept[n] # part[n]}
<1>7. differ = {}
  <2> HIDE DEF part
  <2>1. SUFFICES ASSUME differ # {} PROVE FALSE
    OBVIOUS
  <2>2. differ \subseteq Nat
    BY <1>0
  <2>3. PICK n \in differ : \A y \in differ : ~(<<y, n>> \in OpToRel(<, Nat))
    <3> HIDE DEF differ
    <3> QED
      BY <2>1, <2>2, NatLessThanWellFounded, WFMin
  <2>4. n # 0 /\ n \in 0..Len(s)
    BY <1>0, <1>1, <1>6
  <2>5. n \in 1..Len(s) /\ n - 1 \in 0..Len(s) /\ n - 1 < n /\ n \in Nat /\ n - 1 \in Nat
    BY <1>0, <2>4
  <2>6. n - 1 \notin differ
    BY <2>2, <2>3, <2>5 DEF OpToRel
  <2>7. kept[n - 1] = part[n - 1]
    BY <2>5, <2>6
  <2> QED
    BY <1>2, <1>6, <2>3, <2>4, <2>5, <2>7
<1>8. part[Len(s)] = Rest(s, m)
  <2>1. CASE m = Len(s)
    BY <1>0, <2>1 DEF Rest
  <2>2. CASE m # Len(s)
    BY <1>0, <2>2 DEF Rest
  <2> QED
    BY <2>1, <2>2
<1>9. Len(s) \in 0..Len(s)
  BY <1>0
<1> QED
  BY <1>4, <1>7, <1>8, <1>9

\* The entries that are kept, one by one.
LEMMA RecentEntries ==
  ASSUME NEW s \in Seq(Ages), NEW m, Cut(s, m)
  PROVE  /\ Recent(s) \in Seq(Ages)
         /\ Len(Recent(s)) = Len(s) - m
         /\ \A i \in 1..(Len(s) - m) : Recent(s)[i] = s[i + m]
<1>1. Recent(s) = Rest(s, m)
  BY RecentIsRest
<1>2. m \in 0..Len(s)
  BY DEF Cut
<1>3. /\ Rest(s, m) \in Seq(Ages)
      /\ Len(Rest(s, m)) = Len(s) - m
      /\ \A i \in 1..(Len(s) - m) : Rest(s, m)[i] = s[i + m]
  BY <1>2, RestType
<1> QED
  BY <1>1, <1>3

\* Ageing keeps the oldest first.
LEMMA AgeKeepsOrder ==
  ASSUME NEW s \in Seq(Ages), OldestFirst(s)
  PROVE  OldestFirst(Age(s))
<1>1. \A i \in 1..Len(s) : s[i] \in Ages
  OBVIOUS
<1>2. ASSUME NEW i \in 1..Len(s), NEW j \in 1..Len(s), s[j] <= s[i]
      PROVE  Age(s)[j] <= Age(s)[i]
  <2>1. s[i] \in 0..Window /\ s[j] \in 0..Window /\ Window \in Nat
    BY <1>1, RateAssumption DEF Ages
  <2>2. Age(s)[i] = (IF s[i] = Window THEN Window ELSE s[i] + 1)
    BY AgeType
  <2>3. Age(s)[j] = (IF s[j] = Window THEN Window ELSE s[j] + 1)
    BY AgeType
  <2> QED
    BY <1>2, <2>1, <2>2, <2>3
<1>3. Len(Age(s)) = Len(s)
  BY AgeType
<1> QED
  BY <1>2, <1>3 DEF OldestFirst

\* To clean up before time passes makes no difference to what is recent after.
LEMMA RecentAfterAge ==
  ASSUME NEW s \in Seq(Ages), OldestFirst(s)
  PROVE  /\ Recent(s) \in Seq(Ages)
         /\ Recent(Age(Recent(s))) = Recent(Age(s))
         /\ Len(Recent(Age(s))) <= Len(Recent(s))
<1>1. PICK m \in 0..Len(s) : Cut(s, m)
  BY CutExists
<1>2. /\ Age(s) \in Seq(Ages)
      /\ Len(Age(s)) = Len(s)
      /\ \A i \in 1..Len(s) : Age(s)[i] = IF s[i] = Window THEN Window ELSE s[i] + 1
  BY AgeType
<1>3. PICK l \in 0..Len(s) : Cut(Age(s), l)
  <2>1. \E l \in 0..Len(Age(s)) : Cut(Age(s), l)
    BY <1>2, AgeKeepsOrder, CutExists
  <2> QED
    BY <1>2, <2>1
<1>4. Len(s) \in Nat /\ m \in Nat /\ l \in Nat /\ Window \in Nat
  BY RateAssumption
<1>5. m <= l
  <2> SUFFICES ASSUME l < m PROVE FALSE
    BY <1>4
  <2>1. m \in 1..Len(s) /\ m \in (l+1)..Len(s) /\ m \in 1..m
    BY <1>4
  <2>2. ~Within(s[m]) /\ Within(Age(s)[m])
    BY <1>1, <1>2, <1>3, <2>1 DEF Cut
  <2>3. s[m] \in 0..Window
    BY <2>1, EntryType
  <2>4. s[m] = Window
    BY <1>4, <2>2, <2>3 DEF Within
  <2>5. Age(s)[m] = Window
    BY <1>2, <2>1, <2>4
  <2> QED
    BY <1>4, <2>2, <2>5 DEF Within
<1> DEFINE r == Rest(s, m)
<1>6. Recent(s) = r /\ Recent(Age(s)) = Rest(Age(s), l)
  BY <1>1, <1>2, <1>3, RecentIsRest
<1>7. r \in Seq(Ages) /\ Len(r) = Len(s) - m /\ \A i \in 1..(Len(s) - m) : r[i] = s[i + m]
  BY RestType
<1> HIDE DEF r
<1>8. /\ Age(r) \in Seq(Ages)
      /\ Len(Age(r)) = Len(s) - m
      /\ \A i \in 1..(Len(s) - m) : Age(r)[i] = Age(s)[i + m]
  <2>1. /\ Age(r) \in Seq(Ages)
        /\ Len(Age(r)) = Len(r)
        /\ \A i \in 1..Len(r) : Age(r)[i] = IF r[i] = Window THEN Window ELSE r[i] + 1
    BY <1>7, AgeType
  <2>2. \A i \in 1..(Len(s) - m) : i + m \in 1..Len(s)
    BY <1>4
  <2> QED
    BY <1>2, <1>7, <2>1, <2>2
<1>9. Cut(Age(r), l - m)
  <2>1. l - m \in 0..Len(Age(r))
    BY <1>4, <1>5, <1>8
  <2>2. ASSUME NEW i \in 1..(l - m) PROVE ~Within(Age(r)[i])
    <3>1. i \in 1..(Len(s) - m) /\ i + m \in 1..l
      BY <1>4, <1>5
    <3> QED
      BY <1>3, <1>8, <3>1 DEF Cut
  <2>3. ASSUME NEW i \in ((l - m) + 1)..Len(Age(r)) PROVE Within(Age(r)[i])
    <3>1. i \in 1..(Len(s) - m) /\ i + m \in (l + 1)..Len(s)
      BY <1>4, <1>5, <1>8
    <3> QED
      BY <1>2, <1>3, <1>8, <3>1 DEF Cut
  <2> QED
    BY <2>1, <2>2, <2>3 DEF Cut
<1>10. Recent(Age(r)) = Rest(Age(r), l - m)
  BY <1>8, <1>9, RecentIsRest
<1>11. Rest(Age(r), l - m) = Rest(Age(s), l)
  <2>1. Len(Age(r)) - (l - m) = Len(Age(s)) - l
    BY <1>2, <1>4, <1>5, <1>8
  <2>2. ASSUME NEW i \in 1..(Len(Age(s)) - l) PROVE Age(r)[i + (l - m)] = Age(s)[i + l]
    <3>1. i + (l - m) \in 1..(Len(s) - m) /\ (i + (l - m)) + m = i + l
      BY <1>2, <1>4, <1>5
    <3> QED
      BY <1>8, <3>1
  <2> QED
    BY <2>1, <2>2 DEF Rest
<1>12. Len(Rest(Age(s), l)) = Len(s) - l
  BY <1>2, <1>3, RestType
<1>13. Len(s) - l <= Len(s) - m
  BY <1>4, <1>5
<1> QED
  BY <1>6, <1>7, <1>10, <1>11, <1>12, <1>13

\* A new entry at the end of a cleaned list is recent, as all before it are.
LEMMA RecentAfterAppend ==
  ASSUME NEW s \in Seq(Ages), OldestFirst(s)
  PROVE  LET t == Append(Recent(s), 0)
         IN  t \in Seq(Ages) /\ OldestFirst(t) /\ Recent(t) = t
<1> DEFINE t == Append(Recent(s), 0)
           r == Recent(s)
<1>1. PICK m \in 0..Len(s) : Cut(s, m)
  BY CutExists
<1>2. r = Rest(s, m)
  BY <1>1, RecentIsRest
<1>3. r \in Seq(Ages) /\ Len(r) = Len(s) - m /\ \A i \in 1..(Len(s) - m) : r[i] = s[i + m]
  BY <1>2, RestType
<1>4. Window \in Nat \ {0} /\ 0 \in Ages /\ Len(s) \in Nat /\ m \in Nat /\ Len(r) \in Nat
  BY <1>3, RateAssumption DEF Ages
<1>5. \A i \in 1..Len(r) : Within(r[i]) /\ r[i] \in Nat
  <2> SUFFICES ASSUME NEW i \in 1..Len(r) PROVE Within(r[i]) /\ r[i] \in Nat
    OBVIOUS
  <2>1. i \in 1..(Len(s) - m) /\ i + m \in (m+1)..Len(s) /\ i + m \in 1..Len(s)
    BY <1>3, <1>4
  <2>2. r[i] = s[i + m] /\ s[i + m] \in Nat
    BY <1>3, <2>1, EntryType
  <2> QED
    BY <1>1, <2>1, <2>2 DEF Cut
<1>6. OldestFirst(r)
  <2> SUFFICES ASSUME NEW i \in 1..Len(r), NEW j \in 1..Len(r), i <= j PROVE r[j] <= r[i]
    BY DEF OldestFirst
  <2>1. i + m \in 1..Len(s) /\ j + m \in 1..Len(s) /\ i + m <= j + m
    BY <1>3, <1>4
  <2>2. s[j + m] <= s[i + m]
    BY <2>1 DEF OldestFirst
  <2> QED
    BY <1>3, <2>2
<1> HIDE DEF r
<1>7. /\ t \in Seq(Ages) /\ Len(t) = Len(r) + 1
      /\ \A i \in 1..Len(r) : t[i] = r[i]
      /\ t[Len(r) + 1] = 0
  BY <1>3, <1>4 DEF r
<1> HIDE DEF t
<1>8. \A i \in 1..Len(t) : i \in 1..Len(r) \/ i = Len(r) + 1
  BY <1>4, <1>7
<1>9. \A i \in 1..Len(t) : Within(t[i]) /\ t[i] \in Nat
  <2>1. Within(0)
    BY <1>4 DEF Within
  <2> QED
    BY <1>5, <1>7, <1>8, <2>1
<1>10. OldestFirst(t)
  <2> SUFFICES ASSUME NEW i \in 1..Len(t), NEW j \in 1..Len(t), i <= j PROVE t[j] <= t[i]
    BY DEF OldestFirst
  <2>1. CASE j = Len(r) + 1
    BY <1>7, <1>9, <2>1
  <2>2. CASE j \in 1..Len(r)
    <3>1. i \in 1..Len(r)
      BY <1>4, <1>7, <2>2
    <3> QED
      BY <1>6, <1>7, <2>2, <3>1 DEF OldestFirst
  <2> QED
    BY <1>8, <2>1, <2>2
<1>11. Cut(t, 0)
  BY <1>4, <1>7, <1>9 DEF Cut
<1>12. Rest(t, 0) = t
  <2>0. 0 \in 0..Len(t)
    BY <1>4, <1>7
  <2>1. /\ Rest(t, 0) \in Seq(Ages) /\ Len(Rest(t, 0)) = Len(t) - 0
        /\ \A i \in 1..(Len(t) - 0) : Rest(t, 0)[i] = t[i + 0]
    BY <1>7, <2>0, RestType
  <2>2. Len(t) - 0 = Len(t) /\ \A i \in 1..Len(t) : i + 0 = i
    BY <1>4, <1>7
  <2> QED
    BY <1>7, <2>1, <2>2
<1>13. Recent(t) = t
  BY <1>7, <1>11, <1>12, RecentIsRest
<1> QED
  BY <1>7, <1>10, <1>13 DEF t

\* The requests that were let through within the window are those whose times the
\* code's list still has there: cleaning it up late loses none.
RateInv ==
  /\ counters \in [Callers -> Seq(Ages)]
  /\ admitted \in [Callers -> Seq(Ages)]
  /\ \A k \in Callers :
       OldestFirst(counters[k]) /\ admitted[k] = Recent(counters[k]) /\ Len(admitted[k]) <= MaxRequests

\* No request has been made at first.
LEMMA RateInitInv == RateInit => RateInv
<1> SUFFICES ASSUME RateInit PROVE RateInv
  OBVIOUS
<1>1. <<>> \in Seq(Ages)
  OBVIOUS
<1>2. Len(<<>>) = 0
  OBVIOUS
<1>3. OldestFirst(<<>>)
  BY <1>2 DEF OldestFirst
<1>4. Cut(<<>>, 0) /\ Rest(<<>>, 0) = <<>>
  BY <1>2 DEF Cut, Rest
<1>5. Recent(<<>>) = <<>>
  BY <1>1, <1>4, RecentIsRest
<1>6. \A k \in Callers : counters[k] = <<>> /\ admitted[k] = <<>>
  BY DEF RateInit
<1>7. 0 <= MaxRequests
  BY RateAssumption
<1>8. counters \in [Callers -> Seq(Ages)] /\ admitted \in [Callers -> Seq(Ages)]
  BY <1>1 DEF RateInit
<1> QED
  BY <1>2, <1>3, <1>5, <1>6, <1>7, <1>8 DEF RateInv

\* Time takes requests out of the window, and out of the list, alike.
LEMMA RateTickKeeps ==
  ASSUME RateInv, RateTick
  PROVE  RateInv'
<1>1. ASSUME NEW k \in Callers
      PROVE  /\ counters'[k] = Age(counters[k])
             /\ admitted'[k] = Recent(Age(counters[k]))
             /\ OldestFirst(Age(counters[k]))
             /\ Age(counters[k]) \in Seq(Ages)
             /\ Recent(Age(counters[k])) \in Seq(Ages)
             /\ Len(Recent(Age(counters[k]))) <= MaxRequests
  <2>1. counters[k] \in Seq(Ages) /\ OldestFirst(counters[k]) /\ admitted[k] = Recent(counters[k])
        /\ Len(admitted[k]) <= MaxRequests
    BY DEF RateInv
  <2>2. Age(counters[k]) \in Seq(Ages) /\ OldestFirst(Age(counters[k]))
    BY <2>1, AgeType, AgeKeepsOrder
  <2>3. /\ Recent(Age(Recent(counters[k]))) = Recent(Age(counters[k]))
        /\ Len(Recent(Age(counters[k]))) <= Len(Recent(counters[k]))
        /\ Recent(counters[k]) \in Seq(Ages)
    BY <2>1, RecentAfterAge
  <2>4. Recent(Age(counters[k])) \in Seq(Ages)
    BY <2>2, RecentAfterAge
  <2>5. counters'[k] = Age(counters[k]) /\ admitted'[k] = Recent(Age(admitted[k]))
    BY DEF RateTick
  <2>6. /\ Len(Recent(Age(counters[k]))) \in Nat
        /\ Len(Recent(counters[k])) \in Nat
        /\ MaxRequests \in Nat
    BY <2>3, <2>4, RateAssumption
  <2>7. Len(Recent(Age(counters[k]))) <= MaxRequests
    BY <2>1, <2>3, <2>6
  <2> QED
    BY <2>1, <2>2, <2>3, <2>4, <2>5, <2>7
<1>2. /\ counters' = [k \in Callers |-> counters'[k]]
      /\ admitted' = [k \in Callers |-> admitted'[k]]
  BY DEF RateTick
<1>3. counters' \in [Callers -> Seq(Ages)] /\ admitted' \in [Callers -> Seq(Ages)]
  BY <1>1, <1>2
<1> QED
  BY <1>1, <1>3 DEF RateInv

\* A request is let through only below the limit, and joins both lists.
LEMMA AdmitKeeps ==
  ASSUME RateInv, NEW k \in Callers, Admit(k)
  PROVE  RateInv'
<1> DEFINE s == counters[k]
           t == Append(Recent(s), 0)
<1>1. s \in Seq(Ages) /\ OldestFirst(s) /\ admitted[k] = Recent(s) /\ admitted[k] \in Seq(Ages)
  BY DEF RateInv
<1>2. t \in Seq(Ages) /\ OldestFirst(t) /\ Recent(t) = t
  BY <1>1, RecentAfterAppend
<1>3. /\ ~(Len(Recent(s)) >= MaxRequests)
      /\ counters' = [counters EXCEPT ![k] = t]
      /\ admitted' = [admitted EXCEPT ![k] = t]
  BY <1>1 DEF Admit, Full, Timestamps
<1>4. Len(t) <= MaxRequests
  <2>1. Len(Recent(s)) \in Nat /\ Len(t) = Len(Recent(s)) + 1 /\ MaxRequests \in Nat
    BY <1>1, RateAssumption
  <2> QED
    BY <1>3, <2>1
<1> HIDE DEF s, t
<1>5. \A c \in Callers :
        /\ counters'[c] = IF c = k THEN t ELSE counters[c]
        /\ admitted'[c] = IF c = k THEN t ELSE admitted[c]
  BY <1>3 DEF RateInv
<1>6. counters' \in [Callers -> Seq(Ages)] /\ admitted' \in [Callers -> Seq(Ages)]
  BY <1>2, <1>3 DEF RateInv
<1> QED
  BY <1>2, <1>4, <1>5, <1>6 DEF RateInv

\* Every step of the edge keeps the rate limiter's invariant.
LEMMA RateStep == RateInv /\ [EdgeNext]_edgeVars => RateInv'
<1> SUFFICES ASSUME RateInv, [EdgeNext]_edgeVars PROVE RateInv'
  OBVIOUS
<1>1. ASSUME UNCHANGED rateVars PROVE RateInv'
  BY <1>1 DEF rateVars, RateInv
<1>2. CASE Tick
  BY <1>2, RateTickKeeps DEF Tick
<1>3. ASSUME NEW k \in Callers, Limit(k) PROVE RateInv'
  BY <1>1, <1>3, AdmitKeeps DEF Limit, Reject
<1>4. CASE UNCHANGED edgeVars
  BY <1>1, <1>4 DEF edgeVars
<1>5. ASSUME NEW t \in Tokens, Verify(t) PROVE RateInv'
  BY <1>1, <1>5 DEF Verify
<1>6. ASSUME NEW k \in Keys, (Publish(k) \/ Withdraw(k)) /\ UNCHANGED rateVars PROVE RateInv'
  BY <1>1, <1>6
<1> QED
  BY <1>2, <1>3, <1>4, <1>5, <1>6 DEF EdgeNext

\* The rate limiter's invariant holds in every reachable state.
LEMMA RateInvariant == EdgeSpec => []RateInv
<1>1. EdgeInit => RateInv
  BY RateInitInv DEF EdgeInit
<1> QED
  BY <1>1, RateStep, PTL DEF EdgeSpec

\* For any limit and any window, no interval as long as the window has more than
\* max_requests requests of a key that RateLimitMiddleware let through.
THEOREM AdmissionsWithinLimit == EdgeSpec => []WithinLimit
<1>1. RateInv => WithinLimit
  BY DEF RateInv, WithinLimit
<1> QED
  BY <1>1, RateInvariant, PTL

\* A request of a key is refused exactly when max_requests of them were let through
\* within the window: neither old entries nor refused requests count against it.
THEOREM RefusalIsJustified ==
  EdgeSpec => [](\A k \in Callers : Full(k) <=> Len(admitted[k]) = MaxRequests)
<1>1. RateInv => \A k \in Callers : Full(k) <=> Len(admitted[k]) = MaxRequests
  <2> SUFFICES ASSUME RateInv, NEW k \in Callers
               PROVE  Full(k) <=> Len(admitted[k]) = MaxRequests
    OBVIOUS
  <2>1. admitted[k] \in Seq(Ages) /\ admitted[k] = Timestamps(k) /\ Len(admitted[k]) <= MaxRequests
    BY DEF RateInv, Timestamps
  <2>2. Len(admitted[k]) \in Nat /\ MaxRequests \in Nat
    BY <2>1, RateAssumption
  <2> QED
    BY <2>1, <2>2 DEF Full
<1> QED
  BY <1>1, RateInvariant, PTL

\* How long a key that has used up its limit will be refused: until the oldest
\* request that was let through has left the window.
Wait(k) == Window - Head(Timestamps(k))

\* A tick that leaves a list full has aged its oldest entry and dropped none.
LEMMA FullListAges ==
  ASSUME NEW s \in Seq(Ages), OldestFirst(s), NEW n \in Nat \ {0},
         Len(Recent(s)) = n, Len(Recent(Age(s))) = n
  PROVE  /\ Head(Recent(s)) \in Nat /\ Head(Recent(Age(s))) = Head(Recent(s)) + 1
         /\ Head(Recent(Age(s))) < Window
<1> DEFINE a == Age(s)
<1>1. PICK m \in 0..Len(s) : Cut(s, m)
  BY CutExists
<1>2. /\ a \in Seq(Ages) /\ Len(a) = Len(s) /\ OldestFirst(a)
      /\ \A i \in 1..Len(s) : a[i] = IF s[i] = Window THEN Window ELSE s[i] + 1
  BY AgeType, AgeKeepsOrder
<1> HIDE DEF a
<1>3. PICK l \in 0..Len(a) : Cut(a, l)
  BY <1>2, CutExists
<1>4. /\ Recent(s) \in Seq(Ages) /\ Len(Recent(s)) = Len(s) - m
      /\ \A i \in 1..(Len(s) - m) : Recent(s)[i] = s[i + m]
  BY <1>1, RecentEntries
<1>5. /\ Recent(a) \in Seq(Ages) /\ Len(Recent(a)) = Len(a) - l
      /\ \A i \in 1..(Len(a) - l) : Recent(a)[i] = a[i + l]
  BY <1>2, <1>3, RecentEntries
<1>6. Len(s) \in Nat /\ m \in Nat /\ l \in Nat /\ Len(Recent(a)) = n
  BY <1>2 DEF a
<1>7. m = l /\ 1 \in 1..(Len(s) - m) /\ 1 + m \in 1..Len(s) /\ 1 + m \in (m+1)..Len(s)
  BY <1>2, <1>4, <1>5, <1>6
<1>8. Head(Recent(s)) = s[1 + m] /\ Head(Recent(a)) = a[1 + m]
  <2>1. Recent(s) # <<>> /\ Recent(a) # <<>>
    BY <1>4, <1>5, <1>6
  <2>2. Head(Recent(s)) = Recent(s)[1] /\ Head(Recent(a)) = Recent(a)[1]
    BY <1>4, <1>5, <2>1
  <2> QED
    BY <1>2, <1>4, <1>5, <1>7, <2>2
<1>9. Within(a[1 + m]) /\ s[1 + m] \in Nat
  BY <1>2, <1>3, <1>7, EntryType DEF Cut
<1>10. s[1 + m] # Window
  BY <1>2, <1>7, <1>9, RateAssumption DEF Within
<1>11. a[1 + m] = s[1 + m] + 1
  BY <1>2, <1>7, <1>10
<1> QED
  BY <1>8, <1>9, <1>11 DEF Within, a

\* A refused key is served again after finitely many ticks, however often it asks:
\* while it stays full every tick shortens its wait, which is positive, and no step
\* of any caller lengthens it.
THEOREM RefusalRunsOut ==
  ASSUME MaxRequests # 0
  PROVE  EdgeSpec => [][\A k \in Callers : Full(k) /\ Full(k)' =>
                          /\ Wait(k)' \in Nat \ {0}
                          /\ Wait(k)' <= Wait(k)
                          /\ Tick => Wait(k)' < Wait(k)]_edgeVars
<1> DEFINE Shorter ==
      \A k \in Callers : Full(k) /\ Full(k)' =>
        /\ Wait(k)' \in Nat \ {0}
        /\ Wait(k)' <= Wait(k)
        /\ Tick => Wait(k)' < Wait(k)
<1>1. RateInv /\ RateInv' /\ [EdgeNext]_edgeVars => [Shorter]_edgeVars
  <2> SUFFICES ASSUME RateInv, RateInv', EdgeNext, NEW k \in Callers, Full(k), Full(k)'
               PROVE  /\ Wait(k)' \in Nat \ {0}
                      /\ Wait(k)' <= Wait(k)
                      /\ Tick => Wait(k)' < Wait(k)
    OBVIOUS
  <2> DEFINE s == counters[k]
  <2>0. MaxRequests \in Nat \ {0} /\ Window \in Nat
    BY RateAssumption
  <2>1. s \in Seq(Ages) /\ OldestFirst(s) /\ Len(Recent(s)) = MaxRequests /\ Recent(s) \in Seq(Ages)
    <3>1. /\ s \in Seq(Ages) /\ OldestFirst(s) /\ Recent(s) \in Seq(Ages)
          /\ Len(Recent(s)) <= MaxRequests /\ Len(Recent(s)) >= MaxRequests
      BY DEF RateInv, Full, Timestamps
    <3>2. Len(Recent(s)) \in Nat
      BY <3>1
    <3> QED
      BY <2>0, <3>1, <3>2
  <2>2. Len(Recent(counters'[k])) = MaxRequests
    <3>1. /\ Recent(counters'[k]) \in Seq(Ages)
          /\ Len(Recent(counters'[k])) <= MaxRequests /\ Len(Recent(counters'[k])) >= MaxRequests
      BY DEF RateInv, Full, Timestamps
    <3>2. Len(Recent(counters'[k])) \in Nat
      BY <3>1
    <3> QED
      BY <2>0, <3>1, <3>2
  <2>3. Wait(k) = Window - Head(Recent(s)) /\ Wait(k)' = Window - Head(Recent(counters'[k]))
    BY DEF Wait, Timestamps
  <2>4. CASE Tick
    <3>1. counters'[k] = Age(s)
      BY <2>4 DEF Tick, RateTick
    <3> HIDE DEF s
    <3>2. /\ Head(Recent(s)) \in Nat /\ Head(Recent(Age(s))) = Head(Recent(s)) + 1
          /\ Head(Recent(Age(s))) < Window
      BY <2>0, <2>1, <2>2, <3>1, FullListAges
    <3> QED
      BY <2>0, <2>3, <3>1, <3>2
  <2>5. ASSUME counters'[k] = counters[k], ~Tick
        PROVE  /\ Wait(k)' \in Nat \ {0}
               /\ Wait(k)' <= Wait(k)
               /\ Tick => Wait(k)' < Wait(k)
    <3>1. PICK m \in 0..Len(s) : Cut(s, m)
      BY <2>1, CutExists
    <3>2. /\ Len(Recent(s)) = Len(s) - m
          /\ \A i \in 1..(Len(s) - m) : Recent(s)[i] = s[i + m]
      BY <2>1, <3>1, RecentEntries
    <3>3. /\ 1 \in 1..(Len(s) - m) /\ 1 + m \in 1..Len(s)
          /\ 1 + m \in (m+1)..Len(s) /\ Recent(s) # <<>>
      BY <2>0, <2>1, <3>2
    <3>4. Head(Recent(s)) = s[1 + m]
      BY <2>1, <3>2, <3>3
    <3>5. Within(s[1 + m]) /\ s[1 + m] \in Nat
      BY <2>1, <3>1, <3>3, EntryType DEF Cut
    <3>6. Wait(k)' = Wait(k)
      BY <2>3, <2>5
    <3>7. s[1 + m] < Window
      BY <3>5 DEF Within
    <3> HIDE DEF s
    <3> QED
      BY <2>0, <2>3, <2>5, <3>4, <3>5, <3>6, <3>7
  <2>6. ASSUME NEW c \in Callers, Limit(c), ~Tick PROVE counters'[k] = counters[k]
    <3>1. CASE c = k
      BY <2>6, <3>1 DEF Limit, Admit, Reject, rateVars
    <3>2. CASE c # k
      BY <2>6, <3>2 DEF Limit, Admit, Reject, rateVars, RateInv
    <3> QED
      BY <3>1, <3>2
  <2>7. ASSUME UNCHANGED rateVars, ~Tick PROVE counters'[k] = counters[k]
    BY <2>7 DEF rateVars
  <2>8. CASE ~Tick
    <3>1. counters'[k] = counters[k]
      BY <2>6, <2>7, <2>8 DEF EdgeNext, Verify
    <3> QED
      BY <2>5, <2>8, <3>1
  <2> QED
    BY <2>4, <2>8
<1> QED
  BY <1>1, RateInvariant, PTL DEF EdgeSpec

-----------------------------------------------------------------------------
(* A published key is learnt with the next fetch                           *)

\* While the verifier does not know a published key, nothing makes its key set younger
\* or drops it but an answer of the endpoint that is no key set, and that only once the
\* set has expired: neither tokens that name the key, nor tokens verified from the cache,
\* nor fetches that fail.  Each tick brings a fresh set closer to the TTL, from which on
\* the next fetch of a key set brings the key.  The safety half of PublishedKeyIsLearnt.
THEOREM UnlearntKeyIsDue ==
  EdgeSpec => [][\A k \in Keys :
                   k \in published \ cache /\ k \in published' \ cache' =>
                     \/ ~Fresh /\ cache' = {} /\ age' = 0
                     \/ /\ cached' = cached /\ cache' = cache
                        /\ age' >= age
                        /\ Tick /\ Fresh => age' > age]_edgeVars
<1> DEFINE Due ==
      \A k \in Keys :
        k \in published \ cache /\ k \in published' \ cache' =>
          \/ ~Fresh /\ cache' = {} /\ age' = 0
          \/ /\ cached' = cached /\ cache' = cache
             /\ age' >= age
             /\ Tick /\ Fresh => age' > age
<1>1. CacheInv /\ [EdgeNext]_edgeVars => [Due]_edgeVars
  <2> SUFFICES ASSUME CacheInv, EdgeNext, NEW k \in Keys,
                      k \in published \ cache, k \in published' \ cache'
               PROVE  \/ ~Fresh /\ cache' = {} /\ age' = 0
                      \/ /\ cached' = cached /\ cache' = cache
                         /\ age' >= age
                         /\ Tick /\ Fresh => age' > age
    OBVIOUS
  <2>0. age \in 0..TTL /\ TTL \in Nat
    BY TokenAssumption DEF CacheInv, OIDCTypeOK
  <2>1. CASE Tick
    BY <2>0, <2>1 DEF Tick, OIDCTick, Older, Fresh
  <2>2. ASSUME UNCHANGED <<cached, cache, age>>, ~Tick
        PROVE  /\ cached' = cached /\ cache' = cache
               /\ age' >= age
               /\ Tick /\ Fresh => age' > age
    BY <2>0, <2>2
  <2>3. ASSUME NEW t \in Tokens, VerifyAfterFetch(t) PROVE FALSE
    BY <2>3 DEF VerifyAfterFetch
  <2>4. ASSUME NEW t \in Tokens, VerifyAfterForeignAnswer(t)
        PROVE  ~Fresh /\ cache' = {} /\ age' = 0
    BY <2>4 DEF VerifyAfterForeignAnswer
  <2>5. \/ Tick \/ UNCHANGED <<cached, cache, age>>
        \/ \E t \in Tokens : VerifyAfterForeignAnswer(t)
    BY <2>3 DEF EdgeNext, Limit, Verify, BlockAlgorithm, VerifyFromCache, VerifyFetchFails, Publish,
                Withdraw
  <2> QED
    BY <2>1, <2>2, <2>4, <2>5
<1> QED
  BY <1>1, CacheInvariant, PTL DEF EdgeSpec

=============================================================================
