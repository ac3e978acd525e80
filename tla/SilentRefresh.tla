--------------------------- MODULE SilentRefresh ---------------------------
(***************************************************************************)
(* base.Client.AcquireTokenSilent and the calls built on it, as concurrent *)
(* goroutines over one in-memory cache (no external cache accessor; module *)
(* ExternalCache adds one).                                                *)
(*                                                                         *)
(* A goroutine reads the cache, serves a usable token from it, and when    *)
(* the token's RefreshOn has passed tries to become the one goroutine that *)
(* refreshes for its tenant: an atomic flag per tenant STRING (canRefresh, *)
(* base.go:403-412), a second read of the cache (417), the token request,  *)
(* the write (AuthResultFromToken), and the deferred reset of the flag.    *)
(*                                                                         *)
(* An access token is a serial number; a slot is what a read looks up: an  *)
(* account (or the app itself, or an assertion), a realm and scopes.       *)
(***************************************************************************)
EXTENDS Naturals, FiniteSets

CONSTANTS
    Callers,    \* goroutines
    Tenants,    \* tenant strings passed to WithTenantID; "" is one of them
    Slots,      \* what a cache read can look up
    SlotsOf,    \* tenant string -> slots it can reach; two strings (""
                \* and the configured tenant) may name the same realm
    FlowOf,     \* slot -> the flow that uses it
    MaxTokens   \* bound on the access tokens the service issues

Flows == {"public", "confidential", "app", "obo"}

ASSUME SlotsOfAssumption == SlotsOf \in [Tenants -> SUBSET Slots]
ASSUME FlowOfAssumption  == FlowOf \in [Slots -> Flows]
ASSUME MaxTokensAssumption == MaxTokens \in Nat

Tokens  == 1..MaxTokens
NoToken == 0
Ages    == {"fresh", "due", "expired"}
Grants  == {"none", "proactive", "redeem", "request"}
Places  == {"idle", "read", "claim", "recheck", "ask", "store", "release"}
NoCall  == [tenant |-> "none", slot |-> "none", claims |-> FALSE]
Calls   == {NoCall} \cup [tenant : Tenants, slot : Slots, claims : BOOLEAN]

VARIABLES
    cache,      \* slot -> access token in storage.Manager, or NoToken
    rts,        \* slots for which a read also finds a refresh token
    age,        \* token -> "due" once RefreshOn passed, then "expired"
    issued,     \* tokens issued so far
    canRefresh, \* tenant -> the atomic flag of base.Client.canRefresh
    pc,         \* where each goroutine is
    call,       \* the arguments of its current call
    grant,      \* the kind of token request it is making
    seen,       \* the access token its first read returned
    got,        \* the token the service gave it
    result,     \* what its last call returned, NoToken for an error
    retired     \* history: tokens a proactive refresh for k has replaced

cacheVars == <<cache, rts>>
vars == <<cache, rts, age, issued, canRefresh, pc, call, grant, seen, got,
          result, retired>>

UserSlots == {s \in Slots : FlowOf[s] \in {"public", "confidential"}}

(* Refresh tokens are kept per account, so that one of them serves every   *)
(* slot of the user; an assertion's is its own, and apps have none.        *)
SharingRT(s) ==
    IF s \in UserSlots THEN UserSlots
    ELSE IF FlowOf[s] = "obo" THEN {s} ELSE {}

Init ==
    /\ cache = [s \in Slots |-> NoToken]
    /\ rts = {}
    /\ age = [t \in Tokens |-> "fresh"]
    /\ issued = 0
    /\ canRefresh = [k \in Tenants |-> FALSE]
    /\ pc = [c \in Callers |-> "idle"]
    /\ call = [c \in Callers |-> NoCall]
    /\ grant = [c \in Callers |-> "none"]
    /\ seen = [c \in Callers |-> NoToken]
    /\ got = [c \in Callers |-> NoToken]
    /\ result = [c \in Callers |-> NoToken]
    /\ retired = [k \in Tenants |-> {}]

-----------------------------------------------------------------------------
(* The steps of a call.                                                    *)

Slot(c)   == call[c].slot
Tenant(c) == call[c].tenant
Flow(c)   == FlowOf[Slot(c)]

Goto(c, p) == pc' = [pc EXCEPT ![c] = p]

(* The call is over: all that is left of it is what it returned.           *)
Return(c, t) ==
    /\ Goto(c, "idle")
    /\ result' = [result EXCEPT ![c] = t]
    /\ call' = [call EXCEPT ![c] = NoCall]
    /\ grant' = [grant EXCEPT ![c] = "none"]
    /\ seen' = [seen EXCEPT ![c] = NoToken]
    /\ got' = [got EXCEPT ![c] = NoToken]

(* The call goes on at p, with what it found in the first read.            *)
GoOn(c, p, g, t) ==
    /\ Goto(c, p)
    /\ grant' = [grant EXCEPT ![c] = g]
    /\ seen' = [seen EXCEPT ![c] = t]
    /\ UNCHANGED <<call, got, result>>

(* It goes on at p and nothing else changes in the caller.                 *)
Move(c, p) == Goto(c, p) /\ UNCHANGED <<call, grant, seen, got, result>>

(* Confidential clients reject claims in AcquireTokenSilent; with claims   *)
(* AcquireTokenByCredential goes to the service without a silent attempt.  *)
Start(c, k, s, claims) ==
    /\ pc[c] = "idle"
    /\ s \in SlotsOf[k]
    /\ claims => FlowOf[s] # "confidential"
    /\ call' = [call EXCEPT ![c] = [tenant |-> k, slot |-> s, claims |-> claims]]
    /\ result' = [result EXCEPT ![c] = NoToken]
    /\ \/ /\ FlowOf[s] = "app" /\ claims
          /\ Goto(c, "ask")
          /\ grant' = [grant EXCEPT ![c] = "request"]
       \/ /\ ~(FlowOf[s] = "app" /\ claims)
          /\ Goto(c, "read")
          /\ UNCHANGED grant
    /\ UNCHANGED <<cacheVars, age, issued, canRefresh, seen, got, retired>>

(* The token AuthResultFromStorage accepts: claims make the call ignore    *)
(* cached tokens, and Validate rejects one about to expire.                *)
Usable(c, t) == ~call[c].claims /\ t # NoToken /\ age[t] # "expired"

(* AcquireTokenByCredential and AcquireTokenOnBehalfOf answer an error of  *)
(* the silent attempt with a token request; the others return it.          *)
SilentFails(c) ==
    IF Flow(c) \in {"app", "obo"}
    THEN GoOn(c, "ask", "request", NoToken)
    ELSE Return(c, NoToken)

(* m.Read: what the slot holds at that moment decides how to go on.        *)
Read(c) ==
    /\ pc[c] = "read"
    /\ UNCHANGED <<cacheVars, age, issued, canRefresh, retired>>

ServeCached(c) ==
    /\ Read(c)
    /\ Usable(c, cache[Slot(c)])
    /\ age[cache[Slot(c)]] = "fresh"
    /\ Return(c, cache[Slot(c)])

FindDue(c) ==
    /\ Read(c)
    /\ Usable(c, cache[Slot(c)])
    /\ age[cache[Slot(c)]] = "due"
    /\ GoOn(c, "claim", "none", cache[Slot(c)])

FindRefreshToken(c) ==
    /\ Read(c)
    /\ ~Usable(c, cache[Slot(c)])
    /\ Slot(c) \in rts
    /\ GoOn(c, "ask", "redeem", NoToken)

FindNothing(c) ==
    /\ Read(c)
    /\ ~Usable(c, cache[Slot(c)])
    /\ Slot(c) \notin rts
    /\ SilentFails(c)

(* Mutated form: the flag is loaded and stored, not compared and swapped.  *)
ClaimUnguarded(c) ==
    /\ pc[c] = "claim"
    /\ canRefresh' = [canRefresh EXCEPT ![Tenant(c)] = TRUE]
    /\ Move(c, "recheck")
    /\ UNCHANGED <<cacheVars, age, issued, retired>>

(* Mutated form: a mutex, for which the losers wait.                       *)
WaitForFlag(c) == pc[c] = "claim" /\ canRefresh[Tenant(c)] /\ UNCHANGED vars

(* CompareAndSwap(false, true): a goroutine that loses does not wait, it   *)
(* serves the token it read.                                               *)
ClaimFlag(c) ==
    /\ pc[c] = "claim"
    /\ ~canRefresh[Tenant(c)]
    /\ canRefresh' = [canRefresh EXCEPT ![Tenant(c)] = TRUE]
    /\ Move(c, "recheck")
    /\ UNCHANGED <<cacheVars, age, issued, retired>>

LoseFlag(c) ==
    /\ pc[c] = "claim"
    /\ canRefresh[Tenant(c)]
    /\ Return(c, seen[c])
    /\ UNCHANGED <<cacheVars, age, issued, canRefresh, retired>>

(* The refresher leaves: t is what AcquireTokenSilent will return.         *)
Leave(c, t) ==
    /\ Goto(c, "release")
    /\ result' = [result EXCEPT ![c] = t]
    /\ UNCHANGED <<call, grant, seen, got>>

(* Mutated form: no second read.                                           *)
AssumeSame(c) == TRUE

(* The second read, under the flag.                                        *)
StillSame(c) == cache[Slot(c)] = seen[c]

Recheck(c) ==
    /\ pc[c] = "recheck"
    /\ IF StillSame(c)
       THEN GoOn(c, "ask", "proactive", seen[c])
       ELSE Leave(c, seen[c])
    /\ UNCHANGED <<cacheVars, age, issued, canRefresh, retired>>

-----------------------------------------------------------------------------
(* The token request and what follows it.                                  *)

Granted(c) ==
    /\ pc[c] = "ask"
    /\ issued < MaxTokens
    /\ issued' = issued + 1
    /\ got' = [got EXCEPT ![c] = issued + 1]
    /\ Goto(c, "store")
    /\ UNCHANGED <<cacheVars, age, canRefresh, call, grant, seen, result, retired>>

(* Mutated form: the error of a request is dropped.                        *)
RefusedDropped(c) == pc[c] = "ask" /\ Goto(c, "store")
    /\ UNCHANGED <<cacheVars, age, issued, canRefresh, call, grant, seen, got,
                   result, retired>>

(* proactiveRefresh swallows the error except for public clients.          *)
Refused(c) ==
    /\ pc[c] = "ask"
    /\ \/ /\ grant[c] = "proactive"
          /\ Leave(c, IF Flow(c) = "public" THEN NoToken ELSE seen[c])
       \/ grant[c] = "redeem" /\ SilentFails(c)
       \/ grant[c] = "request" /\ Return(c, NoToken)
    /\ UNCHANGED <<cacheVars, age, issued, canRefresh, retired>>

Answer(c) == Granted(c) \/ Refused(c)

(* Manager.Write; the response may carry a refresh token.                  *)
Store(c) ==
    /\ pc[c] = "store"
    /\ cache' = [cache EXCEPT ![Slot(c)] = got[c]]
    /\ rts' \in {rts, rts \cup SharingRT(Slot(c))}
    /\ \/ /\ grant[c] = "proactive"
          /\ Leave(c, got[c])
          /\ retired' = [retired EXCEPT ![Tenant(c)] = @ \cup {seen[c]}]
       \/ /\ grant[c] # "proactive"
          /\ Return(c, got[c])
          /\ UNCHANGED retired
    /\ UNCHANGED <<age, issued, canRefresh>>

(* The slot's reads will not find what is stored.  Fewer scopes granted    *)
(* than asked: the token is stored under those, and NewAuthResult makes an *)
(* error of it.  A token about to expire: Write stores all but the token,  *)
(* an error for pmanager but not for manager, whose caller gets the token. *)
StoreUnread(c) ==
    /\ pc[c] = "store"
    /\ rts' \in {rts, rts \cup SharingRT(Slot(c))}
    /\ \/ grant[c] = "proactive" /\ Leave(c, NoToken)
       \/ grant[c] = "redeem" /\ SilentFails(c)
       \/ grant[c] = "request" /\ Return(c, NoToken)
       \/ Flow(c) # "obo" /\ grant[c] = "proactive" /\ Leave(c, got[c])
       \/ Flow(c) # "obo" /\ grant[c] # "proactive" /\ Return(c, got[c])
    /\ UNCHANGED <<cache, age, issued, canRefresh, retired>>

(* Mutated form: an early return without the reset.                        *)
ReleaseForgotten(c) ==
    /\ pc[c] = "release"
    /\ IF result[c] = NoToken
       THEN SilentFails(c)
       ELSE Return(c, result[c])
    /\ UNCHANGED <<cacheVars, age, issued, canRefresh, retired>>

(* The deferred refreshValue.Store(false), as AcquireTokenSilent returns.  *)
Release(c) ==
    /\ pc[c] = "release"
    /\ canRefresh' = [canRefresh EXCEPT ![Tenant(c)] = FALSE]
    /\ IF result[c] = NoToken
       THEN SilentFails(c)
       ELSE Return(c, result[c])
    /\ UNCHANGED <<cacheVars, age, issued, retired>>

-----------------------------------------------------------------------------
(* What happens around the calls.                                          *)

(* AcquireTokenByAuthCode and the other sign-ins write an RT and a token,  *)
(* unless it is about to expire or for other scopes.                       *)
SignIn(s) ==
    /\ s \in UserSlots
    /\ issued < MaxTokens
    /\ issued' = issued + 1
    /\ cache' \in {cache, [cache EXCEPT ![s] = issued + 1]}
    /\ rts' = rts \cup UserSlots
    /\ UNCHANGED <<age, canRefresh, pc, call, grant, seen, got, result, retired>>

(* RemoveAccount: the user's tokens in manager; pmanager is untouched.     *)
RemoveAccount ==
    /\ cache' = [s \in Slots |-> IF s \in UserSlots THEN NoToken ELSE cache[s]]
    /\ rts' = rts \ UserSlots
    /\ UNCHANGED <<age, issued, canRefresh, pc, call, grant, seen, got, result, retired>>

(* Time: RefreshOn passes (a token need not have one), then expiry nears.  *)
(* Ages are read with the cache, so only those of cached tokens matter.    *)
GrowOld(t) ==
    /\ \E s \in Slots : cache[s] = t
    /\ \/ age[t] = "fresh" /\ age' = [age EXCEPT ![t] = "due"]
       \/ age[t] # "expired" /\ age' = [age EXCEPT ![t] = "expired"]
    /\ UNCHANGED <<cacheVars, issued, canRefresh, pc, call, grant, seen, got,
                   result, retired>>

(* The steps a goroutine takes by itself, without the token service.       *)
LocalStep(c) ==
    \/ ServeCached(c) \/ FindDue(c) \/ FindRefreshToken(c) \/ FindNothing(c)
    \/ ClaimFlag(c) \/ LoseFlag(c) \/ Recheck(c)
    \/ Store(c) \/ StoreUnread(c) \/ Release(c)

Next ==
    \/ \E c \in Callers :
        \/ \E k \in Tenants, s \in Slots, claims \in BOOLEAN : Start(c, k, s, claims)
        \/ Answer(c)
        \/ LocalStep(c)
    \/ \E s \in Slots : SignIn(s)
    \/ RemoveAccount
    \/ \E t \in Tokens : GrowOld(t)

(* Goroutines run; nothing is assumed of the token service, which may be a *)
(* TokenProvider callback that never returns.                              *)
Spec == Init /\ [][Next]_vars /\ \A c \in Callers : WF_vars(LocalStep(c))

-----------------------------------------------------------------------------
(* Properties.                                                             *)

(* The type invariant; nothing is stored unless the service granted it.    *)
TypeOK ==
    /\ cache \in [Slots -> Tokens \cup {NoToken}]
    /\ rts \subseteq Slots
    /\ age \in [Tokens -> Ages]
    /\ issued \in 0..MaxTokens
    /\ canRefresh \in [Tenants -> BOOLEAN]
    /\ pc \in [Callers -> Places]
    /\ call \in [Callers -> Calls]
    /\ grant \in [Callers -> Grants]
    /\ seen \in [Callers -> Tokens \cup {NoToken}]
    /\ got \in [Callers -> Tokens \cup {NoToken}]
    /\ result \in [Callers -> Tokens \cup {NoToken}]
    /\ retired \in [Tenants -> SUBSET Tokens]
    /\ \A c \in Callers : pc[c] = "store" => got[c] \in Tokens

(* Between winning the flag and its deferred reset.                        *)
HoldsFlag(c) ==
    \/ pc[c] \in {"recheck", "release"}
    \/ pc[c] \in {"ask", "store"} /\ grant[c] = "proactive"

(* Asking for, or about to store, a replacement of the token it read.      *)
Refreshing(c) == pc[c] \in {"ask", "store"} /\ grant[c] = "proactive"

(* The flag of a tenant string is set exactly while one goroutine is       *)
(* between its CompareAndSwap and its deferred reset, on every path out of *)
(* AcquireTokenSilent (refused, declined, already refreshed, stored).      *)
FlagHeldByOne ==
    \A k \in Tenants :
        /\ canRefresh[k] <=> \E c \in Callers : HoldsFlag(c) /\ Tenant(c) = k
        /\ \A c, d \in Callers :
            HoldsFlag(c) /\ HoldsFlag(d) /\ Tenant(c) = k /\ Tenant(d) = k => c = d

(* A goroutine never asks the service to replace a token that an earlier   *)
(* refresh for the same tenant string already replaced, however long ago   *)
(* it read that token (the check the comment at base.go:414-416 explains). *)
NeverRefreshedTwice ==
    \A c \in Callers : Refreshing(c) => seen[c] \notin retired[Tenant(c)]

(* A refresh that hangs in the token service holds up only its own caller: *)
(* every other goroutine gets to the end of its call or to a request of    *)
(* its own, with no help from the service.                                 *)
NobodyWaitsForTheRefresher ==
    \A c \in Callers :
        pc[c] \in Places \ {"idle", "ask"} ~> pc[c] \in {"idle", "ask"}

(* If the service answers each request, a tenant's flag never stays set:   *)
(* no outcome of a refresh disables later refreshes.                       *)
FlagReleased ==
    (\A c \in Callers : WF_vars(Answer(c)))
        => \A k \in Tenants : canRefresh[k] ~> ~canRefresh[k]

(* Refinement: the goroutines of a tenant implement RefreshLease.          *)
Lease == INSTANCE RefreshLease WITH
    lease <- [k \in Tenants |->
                {<<c, seen[c]>> : c \in {d \in Callers : Refreshing(d) /\ Tenant(d) = k}}]

(* At most one refresh per tenant string at a time, and per token one that *)
(* succeeds, as module RefreshLease says.                                  *)
ImplementsLease == Lease!Spec
=============================================================================
