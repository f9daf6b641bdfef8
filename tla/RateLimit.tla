----------------------------- MODULE RateLimit -----------------------------
(***************************************************************************)
(* RateLimitMiddleware of api.py: a list of times per key (tenant and path *)
(* of the request), of which those within the window count.  Times are     *)
(* kept as ages that stop growing at Window.  The list that the code keeps *)
(* is cleaned up only when a request is let through.                       *)
(***************************************************************************)
EXTENDS Naturals, Sequences

CONSTANTS Callers,       \* keys "tenant:path"
          MaxRequests,   \* max_requests
          Window         \* window_seconds

ASSUME RateAssumption == MaxRequests \in Nat /\ Window \in Nat \ {0}

VARIABLES counters,   \* key -> ages in the code's list
          admitted    \* key -> ages of the requests that were let through within the window

rateVars == <<counters, admitted>>

RateInit == counters = [k \in Callers |-> <<>>] /\ admitted = [k \in Callers |-> <<>>]

Within(t) == t < Window
Age(s) == [i \in DOMAIN s |-> IF s[i] = Window THEN Window ELSE s[i] + 1]

\* The comprehension that keeps, in order, the entries within the window.
Recent(s) ==
  LET kept[n \in 0..Len(s)] ==
        IF n = 0 THEN <<>> ELSE IF Within(s[n]) THEN Append(kept[n-1], s[n]) ELSE kept[n-1]
  IN kept[Len(s)]

RateTick ==
  /\ counters' = [k \in Callers |-> Age(counters[k])]
  /\ admitted' = [k \in Callers |-> Recent(Age(admitted[k]))]

\* Mutant: the list is emptied when its first entry is out of the window.
Timestamps_FixedWindow(k) ==
  IF counters[k] # <<>> /\ ~Within(Head(counters[k])) THEN <<>> ELSE counters[k]

Timestamps(k) == Recent(counters[k])

Full(k) == Len(Timestamps(k)) >= MaxRequests

Admit(k) ==
  /\ ~Full(k)
  /\ counters' = [counters EXCEPT ![k] = Append(Timestamps(k), 0)]
  /\ admitted' = [admitted EXCEPT ![k] = Append(@, 0)]

\* Mutant: a rejected request counts as well.
Reject_Counts(k) ==
  /\ Full(k)
  /\ counters' = [counters EXCEPT ![k] = Append(Tail(Timestamps(k)), 0)]
  /\ UNCHANGED admitted

Reject(k) == Full(k) /\ UNCHANGED rateVars

-----------------------------------------------------------------------------
(* Properties                                                              *)

\* Within any window of time at most MaxRequests requests of a key are let through,
\* also across the moment at which earlier ones leave the window.
WithinLimit == \A k \in Callers : Len(admitted[k]) <= MaxRequests

\* A key that has used up its limit is served again, even if it goes on asking.
LimitIsLifted == \A k \in Callers : Full(k) ~> ~Full(k)

=============================================================================
