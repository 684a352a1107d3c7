----------------------------- MODULE TokenCache -----------------------------
(***************************************************************************)
(* Installation tokens (github/app_auth.py): every run of the task asks    *)
(* for one as it starts to fetch, finds it in Redis or has GitHub mint it, *)
(* and sends it with every request until the fetching ends.  Nothing keeps *)
(* two runs from minting at once.  Time passes between any two steps.      *)
(***************************************************************************)
EXTENDS Integers

CONSTANTS Run,       \* runs of the task
          Lifetime,  \* how long GitHub makes a token live
          Margin,    \* _EXPIRY_MARGIN_SECONDS
          Delay,     \* bound on the time from computing the ttl to the SET
          FetchTime, \* bound on the time a run fetches: its soft time limit
          Horizon,   \* bound on the clock
          None

ASSUME TimesAssumption == /\ Lifetime \in Nat /\ Margin \in Nat /\ Delay \in Nat
                          /\ FetchTime \in Nat /\ Horizon \in Nat
ASSUME NoTokenAssumption == None \notin Int

VARIABLES now,     \* the clock
          cache,   \* gh:token:{installation_id}: the expiry of the token there
          until,   \* when Redis drops that key
          pc, token, ttl, since  \* per run: its step, its token's expiry, the
                                 \* ttl it computed, and when it took that step

vars == <<now, cache, until, pc, token, ttl, since>>
locals == <<pc, token, ttl, since>>

Init == /\ now = 0 /\ cache = None /\ until = 0
        /\ pc = [r \in Run |-> "idle"]
        /\ token = [r \in Run |-> None]
        /\ ttl = [r \in Run |-> 0]
        /\ since = [r \in Run |-> 0]

Goto(r, step) == /\ pc' = [pc EXCEPT ![r] = step]
                 /\ since' = [since EXCEPT ![r] = now]

\* The key Redis returns: gone once its time is up.
Cached == IF now < until THEN cache ELSE None

-----------------------------------------------------------------------------
\* get_installation_token: the key is there, or a token has to be minted.
Get(r) == /\ pc[r] = "idle"
          /\ IF Cached # None
             THEN Goto(r, "fetch") /\ token' = [token EXCEPT ![r] = Cached]
             ELSE Goto(r, "mint") /\ UNCHANGED token
          /\ UNCHANGED <<now, cache, until, ttl>>

\* Mutant: the margin is forgotten.
TtlFromExpiry_full(expiry) ==
  IF expiry = None \/ expiry <= now THEN 0 ELSE expiry - now

\* Mutant: without an expires_at, the usual lifetime is taken for the ttl.
TtlFromExpiry_usual(expiry) ==
  IF expiry = None THEN Lifetime
  ELSE IF expiry - now <= Margin THEN 0 ELSE expiry - now - Margin

\* _ttl_from_expiry: 0 without an expires_at, and never negative.
TtlFromExpiry(expiry) ==
  IF expiry = None \/ expiry - now <= Margin THEN 0 ELSE expiry - now - Margin

\* _mint_installation_token: GitHub answered.  It may leave expires_at out.
Mint(r, told) ==
  /\ pc[r] = "mint"
  /\ token' = [token EXCEPT ![r] = now + Lifetime]
  /\ ttl' = [ttl EXCEPT ![r] = TtlFromExpiry(IF told THEN now + Lifetime ELSE None)]
  /\ Goto(r, "set")
  /\ UNCHANGED <<now, cache, until>>

\* The call failed or GitHub refused: GitHubAuthError ends the run.
MintFails(r) == /\ pc[r] = "mint"
                /\ Goto(r, "idle")
                /\ UNCHANGED <<now, cache, until, token, ttl>>

\* The ttl runs from the SET, not from when it was computed.
Store(r) == /\ pc[r] = "set"
            /\ IF ttl[r] > 0
               THEN cache' = token[r] /\ until' = now + ttl[r]
               ELSE UNCHANGED <<cache, until>>
            /\ Goto(r, "fetch")
            /\ UNCHANGED <<now, token, ttl>>

\* The client is closed, or the run has ended in whatever way.
Leave(r) == /\ pc[r] \in {"set", "fetch"}
            /\ Goto(r, "idle")
            /\ token' = [token EXCEPT ![r] = None]
            /\ ttl' = [ttl EXCEPT ![r] = 0]
            /\ UNCHANGED <<now, cache, until>>

\* Redis loses the key, before its time.
Evict == /\ Cached # None
         /\ until' = now
         /\ UNCHANGED <<now, cache, locals>>

Tick == /\ now < Horizon
        /\ \A r \in Run : /\ pc[r] = "set" => now - since[r] < Delay
                          /\ pc[r] = "fetch" => now - since[r] < FetchTime
        /\ now' = now + 1
        /\ UNCHANGED <<cache, until, locals>>

Next == \/ \E r \in Run : \/ Get(r) \/ MintFails(r) \/ Store(r) \/ Leave(r)
                          \/ \E told \in BOOLEAN : Mint(r, told)
        \/ Evict
        \/ Tick

Spec == Init /\ [][Next]_vars

-----------------------------------------------------------------------------
(* Properties.                                                              *)

\* Every variable keeps its type; a run that fetches has a token.
TypeOK == /\ now \in Nat /\ until \in Nat /\ cache \in Nat \union {None}
          /\ pc \in [Run -> {"idle", "mint", "set", "fetch"}]
          /\ token \in [Run -> Nat \union {None}]
          /\ ttl \in [Run -> Nat] /\ since \in [Run -> Nat]
          /\ \A r \in Run : /\ pc[r] \in {"set", "fetch"} => token[r] # None
                            /\ since[r] <= now

\* What the cache hands out lives for the margin yet, less the time the SET
\* came late: whoever stored it, however many minted at once, in any order.
CachedIsFresh == Cached # None => Cached - now >= Margin - Delay

\* How long a token is good for: a run that got it, from the cache or from GitHub,
\* can fetch with it for the margin, less the time a SET may come late, however many
\* minted at once.  Past that a run may fetch with a dead token: FetchTime, the
\* soft time limit, is longer than the margin.
Assured == (IF Margin < Lifetime THEN Margin ELSE Lifetime) - Delay
FetchesWithLiveToken ==
  \A r \in Run : pc[r] = "fetch" /\ now - since[r] < Assured => now < token[r]
=============================================================================
