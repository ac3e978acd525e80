-------------------------- MODULE ManagedIdentity --------------------------
(***************************************************************************)
(* managedidentity.Client.AcquireToken: goroutines, several Client values  *)
(* of one process and the process-wide token cache they share.             *)
(*                                                                         *)
(* The proactive refresh differs from base.Client's: the atomic flag is    *)
(* one per Client (not per resource), no second read follows it, and an    *)
(* error of the refresh is answered with the cached token.  Azure Arc      *)
(* needs a challenge before the token request, and its answer must confirm *)
(* a user-assigned identity before anything is cached.                     *)
(*                                                                         *)
(* One request here stands for all the attempts of the retry policy.       *)
(***************************************************************************)
EXTENDS Naturals, FiniteSets

CONSTANTS
    Callers,    \* goroutines
    Clients,    \* Client values (copies of one share its flag)
    Ids,        \* managed identities of the machine
    System,     \* the system-assigned one
    IdOf,       \* client -> the identity New was given
    Resources,  \* the scopes callers ask for
    MaxTokens   \* bound on the access tokens the endpoint issues

ASSUME SystemAssumption == System \in Ids
ASSUME IdOfAssumption == IdOf \in [Clients -> Ids]
ASSUME MaxTokensAssumption == MaxTokens \in Nat

Sources == {"AzureArc", "other"}
Tokens  == 1..MaxTokens
NoToken == 0
Ages    == {"fresh", "due", "expired"}
Kinds   == {"refresh_in", "long", "short"}  \* does the response say when to
            \* refresh the token; if not, does it live over two hours
Places  == {"idle", "read", "claim", "challenge", "ask", "verify", "store",
            "release"}
NoCall  == [client |-> "none", resource |-> "none", claims |-> FALSE]
Calls   == {NoCall} \cup [client : Clients, resource : Resources, claims : BOOLEAN]

VARIABLES
    source,     \* the managed identity source of the machine
    cache,      \* cacheManager: identity, resource -> token or NoToken
    kind,       \* token -> its kind
    subject,    \* token -> the identity it is really for
    named,      \* tokens whose response names that identity
    age,        \* token -> "due" past its (half-life) RefreshOn, "expired"
    issued,     \* tokens issued so far
    canRefresh, \* client -> its atomic flag
    pc,         \* where each goroutine is
    call,       \* the arguments of its current or last call
    seen,       \* the usable token that call found in the cache
    got,        \* the token the endpoint gave it
    result      \* what the call returned, NoToken for an error

tokenVars == <<kind, subject, named, age, issued>>
vars == <<source, cache, tokenVars, canRefresh, pc, call, seen, got, result>>

Init ==
    /\ source \in Sources
    /\ cache = [x \in Ids \X Resources |-> NoToken]
    /\ kind = [t \in Tokens |-> "short"]
    /\ subject = [t \in Tokens |-> System]
    /\ named = {}
    /\ age = [t \in Tokens |-> "fresh"]
    /\ issued = 0
    /\ canRefresh = [m \in Clients |-> FALSE]
    /\ pc = [c \in Callers |-> "idle"]
    /\ call = [c \in Callers |-> NoCall]
    /\ seen = [c \in Callers |-> NoToken]
    /\ got = [c \in Callers |-> NoToken]
    /\ result = [c \in Callers |-> NoToken]

-----------------------------------------------------------------------------
(* The steps of a call.                                                    *)

Client(c) == call[c].client
Id(c)     == IdOf[Client(c)]
Cached(c) == cache[<<Id(c), call[c].resource>>]

Goto(c, p) == pc' = [pc EXCEPT ![c] = p]

Return(c, t) ==
    /\ Goto(c, "idle")
    /\ result' = [result EXCEPT ![c] = t]
    /\ got' = [got EXCEPT ![c] = NoToken]
    /\ UNCHANGED <<call, seen>>

(* The refresher leaves: t is what AcquireToken will return.               *)
Leave(c, t) ==
    /\ Goto(c, "release")
    /\ result' = [result EXCEPT ![c] = t]
    /\ got' = [got EXCEPT ![c] = NoToken]
    /\ UNCHANGED <<call, seen>>

(* getToken: Azure Arc wants a challenge first.                            *)
Request == IF source = "AzureArc" THEN "challenge" ELSE "ask"

Start(c, m, r, claims) ==
    /\ pc[c] = "idle"
    /\ call' = [call EXCEPT ![c] = [client |-> m, resource |-> r, claims |-> claims]]
    /\ seen' = [seen EXCEPT ![c] = NoToken]
    /\ result' = [result EXCEPT ![c] = NoToken]
    /\ Goto(c, IF claims THEN Request ELSE "read")
    /\ UNCHANGED <<source, cache, tokenVars, canRefresh, got>>

Usable(t) == t # NoToken /\ age[t] # "expired"

(* The RefreshOn in the cache is the response's.                           *)
HasRefreshOn(t) == kind[t] = "refresh_in"
Due(t) == HasRefreshOn(t) /\ age[t] = "due"

(* cacheManager.Read.                                                      *)
ServeCached(c) ==
    /\ pc[c] = "read"
    /\ Usable(Cached(c)) /\ ~Due(Cached(c))
    /\ Goto(c, "idle")
    /\ seen' = [seen EXCEPT ![c] = Cached(c)]
    /\ result' = [result EXCEPT ![c] = Cached(c)]
    /\ UNCHANGED <<source, cache, tokenVars, canRefresh, call, got>>

FindDue(c) ==
    /\ pc[c] = "read"
    /\ Usable(Cached(c)) /\ Due(Cached(c))
    /\ Goto(c, "claim")
    /\ seen' = [seen EXCEPT ![c] = Cached(c)]
    /\ UNCHANGED <<source, cache, tokenVars, canRefresh, call, got, result>>

FindNothing(c) ==
    /\ pc[c] = "read"
    /\ ~Usable(Cached(c))
    /\ Goto(c, Request)
    /\ UNCHANGED <<source, cache, tokenVars, canRefresh, call, seen, got, result>>

(* Mutated form: the flag is loaded and stored, not compared and swapped.  *)
ClaimUnguarded(c) ==
    /\ pc[c] = "claim"
    /\ canRefresh' = [canRefresh EXCEPT ![Client(c)] = TRUE]
    /\ Goto(c, Request)
    /\ UNCHANGED <<source, cache, tokenVars, call, seen, got, result>>

ClaimFlag(c) ==
    /\ pc[c] = "claim"
    /\ ~canRefresh[Client(c)]
    /\ canRefresh' = [canRefresh EXCEPT ![Client(c)] = TRUE]
    /\ Goto(c, Request)
    /\ UNCHANGED <<source, cache, tokenVars, call, seen, got, result>>

LoseFlag(c) ==
    /\ pc[c] = "claim"
    /\ canRefresh[Client(c)]
    /\ Return(c, seen[c])
    /\ UNCHANGED <<source, cache, tokenVars, canRefresh>>

-----------------------------------------------------------------------------
(* The requests of getToken and what follows them.                         *)

(* Only a call that found a usable token, and won the flag, asks with one. *)
Proactive(c) == seen[c] # NoToken

(* Mutated form: an error of a proactive refresh is returned.              *)
FailHard(c) == IF Proactive(c) THEN Leave(c, NoToken) ELSE Return(c, NoToken)

(* An error of getToken.                                                   *)
Fail(c) == IF Proactive(c) THEN Leave(c, seen[c]) ELSE Return(c, NoToken)

(* Azure Arc answers 401 and names a file, whose secret can be read.       *)
Challenged(c) ==
    /\ pc[c] = "challenge"
    /\ Goto(c, "ask")
    /\ UNCHANGED <<source, cache, tokenVars, canRefresh, call, seen, got, result>>

(* The endpoint's token.  A current Arc agent names the identity; a legacy *)
(* one ignores which was asked for and answers for the system-assigned one.*)
Granted(c) ==
    /\ pc[c] = "ask"
    /\ issued < MaxTokens
    /\ issued' = issued + 1
    /\ got' = [got EXCEPT ![c] = issued + 1]
    /\ \E k \in Kinds : kind' = [kind EXCEPT ![issued + 1] = k]
    /\ \/ /\ subject' = [subject EXCEPT ![issued + 1] = Id(c)]
          /\ named' = IF source = "AzureArc" THEN named \cup {issued + 1} ELSE named
       \/ /\ source = "AzureArc"
          /\ subject' = [subject EXCEPT ![issued + 1] = System]
          /\ UNCHANGED named
    /\ Goto(c, IF source = "AzureArc" THEN "verify" ELSE "store")
    /\ UNCHANGED <<source, cache, age, canRefresh, call, seen, result>>

(* Mutated form: the error of getToken is dropped.                         *)
RefusedDropped(c) == pc[c] \in {"challenge", "ask"} /\ Goto(c, "store")
    /\ UNCHANGED <<source, cache, tokenVars, canRefresh, call, seen, got, result>>

(* An error of either request, or of reading the secret.                   *)
Refused(c) ==
    /\ pc[c] \in {"challenge", "ask"}
    /\ Fail(c)
    /\ UNCHANGED <<source, cache, tokenVars, canRefresh>>

Answer(c) == Challenged(c) \/ Granted(c) \/ Refused(c)

(* Mutated form: any answer of the agent will do.                          *)
Trusted(c) == TRUE

(* verifyAzureArcUserAssignedIdentity.                                     *)
Confirmed(c) ==
    \/ Id(c) = System
    \/ got[c] \in named /\ subject[got[c]] = Id(c)

Verify(c) ==
    /\ pc[c] = "verify"
    /\ \/ Confirmed(c) /\ Goto(c, "store") /\ UNCHANGED <<call, seen, got, result>>
       \/ ~Confirmed(c) /\ Fail(c)
    /\ UNCHANGED <<source, cache, tokenVars, canRefresh>>

(* Mutated form: the cache key leaves the identity out.                    *)
StoreForSystem(c) ==
    /\ pc[c] = "store"
    /\ cache' = [cache EXCEPT ![<<System, call[c].resource>>] = got[c]]
    /\ IF Proactive(c) THEN Leave(c, got[c]) ELSE Return(c, got[c])
    /\ UNCHANGED <<source, tokenVars, canRefresh>>

(* authResultFromToken.  Write leaves out a token about to expire, which   *)
(* is returned all the same.                                               *)
Store(c) ==
    /\ pc[c] = "store"
    /\ cache' \in {cache, [cache EXCEPT ![<<Id(c), call[c].resource>>] = got[c]]}
    /\ IF Proactive(c) THEN Leave(c, got[c]) ELSE Return(c, got[c])
    /\ UNCHANGED <<source, tokenVars, canRefresh>>

(* Mutated form: the flag is reset after a success only.                   *)
ReleaseOnSuccess(c) ==
    /\ pc[c] = "release"
    /\ canRefresh' = [canRefresh EXCEPT ![Client(c)] = (result[c] = seen[c])]
    /\ Return(c, result[c])
    /\ UNCHANGED <<source, cache, tokenVars>>

(* The deferred canRefresh.Store(false).                                   *)
Release(c) ==
    /\ pc[c] = "release"
    /\ canRefresh' = [canRefresh EXCEPT ![Client(c)] = FALSE]
    /\ Return(c, result[c])
    /\ UNCHANGED <<source, cache, tokenVars>>

(* Time passes for a cached token.                                         *)
GrowOld(t) ==
    /\ \E x \in DOMAIN cache : cache[x] = t
    /\ \/ /\ age[t] = "fresh" /\ kind[t] # "short"
          /\ age' = [age EXCEPT ![t] = "due"]
       \/ /\ age[t] # "expired"
          /\ age' = [age EXCEPT ![t] = "expired"]
    /\ UNCHANGED <<source, cache, kind, subject, named, issued, canRefresh, pc,
                   call, seen, got, result>>

LocalStep(c) ==
    \/ ServeCached(c) \/ FindDue(c) \/ FindNothing(c) \/ ClaimFlag(c)
    \/ LoseFlag(c) \/ Verify(c) \/ Store(c) \/ Release(c)

Next ==
    \/ \E c \in Callers :
        \/ \E m \in Clients, r \in Resources, claims \in BOOLEAN : Start(c, m, r, claims)
        \/ Answer(c)
        \/ LocalStep(c)
    \/ \E t \in Tokens : GrowOld(t)

(* Goroutines run; requests need not end (the Arc challenge, and clients   *)
(* without the retry policy, set no deadline of their own).                *)
Spec == Init /\ [][Next]_vars /\ \A c \in Callers : WF_vars(LocalStep(c))

-----------------------------------------------------------------------------
(* Properties.                                                             *)

(* The type invariant; only a token the endpoint issued is looked at after *)
(* the request.                                                            *)
TypeOK ==
    /\ source \in Sources
    /\ cache \in [Ids \X Resources -> Tokens \cup {NoToken}]
    /\ kind \in [Tokens -> Kinds]
    /\ subject \in [Tokens -> Ids]
    /\ named \subseteq Tokens
    /\ age \in [Tokens -> Ages]
    /\ issued \in 0..MaxTokens
    /\ canRefresh \in [Clients -> BOOLEAN]
    /\ pc \in [Callers -> Places]
    /\ call \in [Callers -> Calls]
    /\ seen \in [Callers -> Tokens \cup {NoToken}]
    /\ got \in [Callers -> Tokens \cup {NoToken}]
    /\ result \in [Callers -> Tokens \cup {NoToken}]
    /\ \A c \in Callers : pc[c] \in {"verify", "store"} => got[c] \in Tokens

Requesting(c) == pc[c] \in {"challenge", "ask", "verify", "store"}

HoldsFlag(c) == pc[c] = "release" \/ (Requesting(c) /\ Proactive(c))

(* A client's flag is set exactly while one of its goroutines refreshes,   *)
(* through the challenge, the request and the check of the identity, on    *)
(* every way out of getToken.                                              *)
OneRefresher ==
    \A m \in Clients :
        /\ canRefresh[m] <=> \E c \in Callers : HoldsFlag(c) /\ Client(c) = m
        /\ \A c, d \in Callers :
            HoldsFlag(c) /\ HoldsFlag(d) /\ Client(c) = m /\ Client(d) = m => c = d

(* Nobody is given, now or later from the cache the clients of a process   *)
(* share, a token of another identity than the one the client was made     *)
(* for, whatever agent answers the Azure Arc requests (the promise of the  *)
(* comment at managedidentity.go:554-559).                                 *)
RightIdentity ==
    /\ \A i \in Ids, r \in Resources :
        cache[<<i, r>>] # NoToken => subject[cache[<<i, r>>]] = i
    /\ \A c \in Callers : result[c] # NoToken => subject[result[c]] = Id(c)

(* A call that found a usable token returns a token: the proactive refresh *)
(* can fail in any way without its caller noticing.                        *)
RefreshIsOptional ==
    \A c \in Callers :
        pc[c] \in {"release", "idle"} /\ seen[c] # NoToken => result[c] # NoToken

(* If requests end, a client's flag never stays set: no outcome of a       *)
(* refresh disables later refreshes by the same client.                    *)
FlagReleased ==
    (\A c \in Callers : WF_vars(Answer(c)))
        => \A m \in Clients : canRefresh[m] ~> ~canRefresh[m]

(* RefreshOn as authResultFromToken reports it, with the default for long  *)
(* lived tokens.                                                           *)
ReportedRefreshOn(t) == kind[t] \in {"refresh_in", "long"}

(* A token is not handed out of the cache, with no attempt to refresh it   *)
(* or anyone refreshing, once the RefreshOn its first caller was given has *)
(* passed (the default of the comment at managedidentity.go:609).          *)
DefaultRefreshOnHonoured ==
    [][\A c \in Callers :
        pc[c] = "read" /\ pc'[c] = "idle" =>
            ~(ReportedRefreshOn(result'[c]) /\ age[result'[c]] = "due")]_vars
=============================================================================
