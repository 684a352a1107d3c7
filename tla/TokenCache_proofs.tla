--------------------------- MODULE TokenCache_proofs ---------------------------
(***************************************************************************)
(* Proofs about the token cache, for any number of runs, any lifetime,     *)
(* margin and lateness, and a clock without a practical bound: what the    *)
(* cache hands out is fresh, and a token in use is alive for as long as    *)
(* the margin assures.                                                     *)
(***************************************************************************)
EXTENDS TokenCache, TLAPS

\* A run about to store its token took it when it says, no longer ago than
\* Delay, and its ttl, when there is one, is the lifetime less the margin.
Minted ==
  \A r \in Run : pc[r] = "set" =>
    /\ token[r] = since[r] + Lifetime
    /\ now - since[r] <= Delay
    /\ ttl[r] > 0 => ttl[r] = Lifetime - Margin

\* The key is dropped a margin before its token expires, less the delay.
Dropped == cache # None => until + Margin - Delay <= cache

\* A run began to fetch with a token that had the assured time to live.
Supplied == \A r \in Run : pc[r] = "fetch" => since[r] + Assured <= token[r]

IInv == TypeOK /\ Minted /\ Dropped /\ Supplied

USE TimesAssumption, NoTokenAssumption

\* Nothing has been minted to begin with.
LEMMA InitInv == Init => IInv
BY DEF Init, IInv, TypeOK, Minted, Dropped, Supplied

\* Every variable keeps its type along every step.
LEMMA TypeStep == TypeOK /\ [Next]_vars => TypeOK'
<1> SUFFICES ASSUME TypeOK, [Next]_vars PROVE TypeOK'
  OBVIOUS
<1> USE DEF TypeOK, Goto, locals
<1>1. ASSUME NEW r \in Run, Get(r) PROVE TypeOK'
  BY <1>1 DEF Get, Cached
<1>2. ASSUME NEW r \in Run, NEW told \in BOOLEAN, Mint(r, told) PROVE TypeOK'
  <2>1. TtlFromExpiry(IF told THEN now + Lifetime ELSE None) \in Nat
    BY DEF TtlFromExpiry
  <2>2. QED
    BY <1>2, <2>1 DEF Mint
<1>3. ASSUME NEW r \in Run, MintFails(r) PROVE TypeOK'
  BY <1>3 DEF MintFails
<1>4. ASSUME NEW r \in Run, Store(r) PROVE TypeOK'
  BY <1>4 DEF Store
<1>5. ASSUME NEW r \in Run, Leave(r) PROVE TypeOK'
  BY <1>5 DEF Leave
<1>6. CASE Evict
  BY <1>6 DEF Evict
<1>7. CASE Tick
  BY <1>7 DEF Tick
<1>8. CASE UNCHANGED vars
  BY <1>8 DEF vars
<1>9. QED
  BY <1>1, <1>2, <1>3, <1>4, <1>5, <1>6, <1>7, <1>8 DEF Next

\* A key that is there has a token a margin away from its end.
LEMMA FreshNow == ASSUME TypeOK, Dropped, Cached # None
                  PROVE  Cached \in Nat /\ Cached = cache /\ Cached - now >= Margin - Delay
BY DEF TypeOK, Dropped, Cached

\* The three bounds survive every step together.
LEMMA BoundsStep == IInv /\ [Next]_vars => Minted' /\ Dropped' /\ Supplied'
<1> SUFFICES ASSUME IInv, [Next]_vars PROVE Minted' /\ Dropped' /\ Supplied'
  OBVIOUS
<1> USE DEF IInv, TypeOK, Minted, Dropped, Supplied, Goto, locals
<1>1. ASSUME NEW r \in Run, Get(r) PROVE Minted' /\ Dropped' /\ Supplied'
  <2>1. CASE Cached # None
    BY <1>1, <2>1, FreshNow DEF Get, Assured
  <2>2. CASE Cached = None
    BY <1>1, <2>2 DEF Get
  <2>3. QED
    BY <2>1, <2>2
<1>2. ASSUME NEW r \in Run, NEW told \in BOOLEAN, Mint(r, told)
      PROVE  Minted' /\ Dropped' /\ Supplied'
  <2> DEFINE t == TtlFromExpiry(IF told THEN now + Lifetime ELSE None)
  <2>1. t > 0 => t = Lifetime - Margin
    BY DEF TtlFromExpiry
  <2> HIDE DEF t
  <2>2. /\ pc' = [pc EXCEPT ![r] = "set"] /\ since' = [since EXCEPT ![r] = now]
        /\ token' = [token EXCEPT ![r] = now + Lifetime]
        /\ ttl' = [ttl EXCEPT ![r] = t]
        /\ UNCHANGED <<now, cache, until>>
    BY <1>2 DEF Mint, t
  <2>3. QED
    BY <2>1, <2>2 DEF Assured
<1>3. ASSUME NEW r \in Run, MintFails(r) PROVE Minted' /\ Dropped' /\ Supplied'
  BY <1>3 DEF MintFails
<1>4. ASSUME NEW r \in Run, Store(r) PROVE Minted' /\ Dropped' /\ Supplied'
  <2>1. now + Lifetime - Delay <= token[r] /\ now + Assured <= token[r]
    BY <1>4 DEF Store, Assured
  <2>2. Minted'
    BY <1>4 DEF Store
  <2>3. Dropped'
    BY <1>4, <2>1 DEF Store
  <2>4. Supplied'
    BY <1>4, <2>1 DEF Store, Assured
  <2>5. QED
    BY <2>2, <2>3, <2>4
<1>5. ASSUME NEW r \in Run, Leave(r) PROVE Minted' /\ Dropped' /\ Supplied'
  BY <1>5 DEF Leave
<1>6. CASE Evict
  BY <1>6 DEF Evict, Cached
<1>7. CASE Tick
  BY <1>7 DEF Tick
<1>8. CASE UNCHANGED vars
  BY <1>8 DEF vars
<1>9. QED
  BY <1>1, <1>2, <1>3, <1>4, <1>5, <1>6, <1>7, <1>8 DEF Next

\* The inductive invariant holds throughout.
LEMMA Invariance == Spec => []IInv
<1>1. IInv /\ [Next]_vars => IInv'
  BY TypeStep, BoundsStep DEF IInv
<1>2. QED
  BY <1>1, InitInv, PTL DEF Spec

\* Every variable keeps its type; a run past minting has a token.
THEOREM Typing == Spec => []TypeOK
BY Invariance, PTL DEF IInv

\* The cache never hands out a token closer to its end than the margin of
\* app_auth.py:23, less the lateness of the SET, whoever stored it.
THEOREM FreshCache == Spec => []CachedIsFresh
<1>1. IInv => CachedIsFresh
  BY FreshNow DEF IInv, CachedIsFresh
<1>2. QED
  BY <1>1, Invariance, PTL

\* A run that has fetched for less than the assured time has a live token.
THEOREM LiveToken == Spec => []FetchesWithLiveToken
<1>1. IInv => FetchesWithLiveToken
  BY DEF IInv, TypeOK, Supplied, FetchesWithLiveToken, Assured
<1>2. QED
  BY <1>1, Invariance, PTL
=============================================================================
