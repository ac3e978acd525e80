------------------------ MODULE ManagedIdentityProofs ------------------------
(***************************************************************************)
(* Proofs about ManagedIdentity, for every set of goroutines, clients,     *)
(* identities and resources and every number of tokens.                    *)
(*                                                                         *)
(* OneRefresher and RefreshIsOptional are inductive once it is known which *)
(* calls look at a token they found (SeenWhere).  RightIdentity is about   *)
(* tokens at rest; its strengthening IdentityInv follows a token from the  *)
(* endpoint's answer on, and has to know that tokens not yet issued are    *)
(* nowhere, because it is when one is issued that it gets its subject.     *)
(***************************************************************************)
EXTENDS ManagedIdentity, TLAPS

(* A goroutine in a call, or whose last call returned or found something,  *)
(* has arguments.                                                          *)
Arguments ==
    \A c \in Callers :
        pc[c] # "idle" \/ seen[c] # NoToken \/ result[c] # NoToken =>
            call[c] \in [client : Clients, resource : Resources, claims : BOOLEAN]

(* Only a read that found a token leads to the flag.                       *)
SeenWhere ==
    \A c \in Callers :
        /\ pc[c] = "read" => seen[c] = NoToken
        /\ pc[c] \in {"claim", "release"} => seen[c] # NoToken

Typed == TypeOK /\ Arguments /\ SeenWhere

(* Where a token of a call is the right one; what an Arc agent answers is  *)
(* at least for one of two identities.                                     *)
RightInHand ==
    \A c \in Callers :
        /\ pc[c] = "verify" => subject[got[c]] \in {Id(c), System}
        /\ seen[c] # NoToken => subject[seen[c]] = Id(c)
        /\ pc[c] = "store" => subject[got[c]] = Id(c)

(* All tokens are issued ones, and in calls and in the cache the right ones.*)
CallsRight ==
    /\ \A c \in Callers :
        seen[c] <= issued /\ result[c] <= issued /\ got[c] <= issued
    /\ RightInHand
    /\ \A c \in Callers : result[c] # NoToken => subject[result[c]] = Id(c)

CacheRight ==
    \A x \in Ids \X Resources :
        cache[x] <= issued /\ (cache[x] # NoToken => subject[cache[x]] = x[1])

IdentityInv == CallsRight /\ CacheRight

-----------------------------------------------------------------------------
(* Type correctness.                                                       *)

LEMMA InitTyped == Init => Typed
BY SystemAssumption, MaxTokensAssumption
   DEF Init, Typed, TypeOK, Arguments, SeenWhere, Sources, Kinds, Ages, Places, Calls,
       NoCall, NoToken, Tokens

(* The ways out of getToken.                                               *)
WaysOut(c, t) == Return(c, t) \/ (Leave(c, t) /\ seen[c] # NoToken)

LEMMA FailIsWayOut ==
    ASSUME NEW c \in Callers, Fail(c)
    PROVE  WaysOut(c, NoToken) \/ WaysOut(c, seen[c])
BY DEF Fail, Proactive, WaysOut

(* The variables of the calls.                                             *)
CallsTyped ==
    /\ pc \in [Callers -> Places]
    /\ call \in [Callers -> Calls]
    /\ seen \in [Callers -> Tokens \cup {NoToken}]
    /\ got \in [Callers -> Tokens \cup {NoToken}]
    /\ result \in [Callers -> Tokens \cup {NoToken}]
    /\ \A c \in Callers : pc[c] \in {"verify", "store"} => got[c] \in Tokens
    /\ Arguments
    /\ SeenWhere

LEMMA WaysOutTyped ==
    ASSUME CallsTyped, NEW c \in Callers, pc[c] # "idle",
           NEW t \in Tokens \cup {NoToken}, WaysOut(c, t)
    PROVE  CallsTyped'
BY DEF CallsTyped, Arguments, SeenWhere, WaysOut, Return, Leave, Goto, Places, NoToken

LEMMA FailTyped ==
    ASSUME CallsTyped, NEW c \in Callers, pc[c] # "idle", Fail(c)
    PROVE  CallsTyped'
<1>1. seen[c] \in Tokens \cup {NoToken} /\ NoToken \in Tokens \cup {NoToken}
  BY DEF CallsTyped
<1>2. PICK t \in {seen[c], NoToken} : WaysOut(c, t)
  BY FailIsWayOut
<1>3. QED
  BY <1>1, <1>2, WaysOutTyped

LEMMA CallsStep == Typed /\ [Next]_vars => CallsTyped'
<1> SUFFICES ASSUME Typed, [Next]_vars PROVE CallsTyped'
  OBVIOUS
<1>1. CallsTyped
  BY DEF Typed, TypeOK, CallsTyped
<1>2. ASSUME NEW c \in Callers, NEW m \in Clients, NEW r \in Resources,
             NEW claims \in BOOLEAN, Start(c, m, r, claims)
      PROVE  CallsTyped'
  BY <1>1, <1>2 DEF CallsTyped, Arguments, SeenWhere, Start, Goto, Request, Places, Calls, NoToken
<1>3. ASSUME NEW c \in Callers, pc[c] = "read" PROVE Cached(c) \in Tokens \cup {NoToken}
  BY <1>3, IdOfAssumption DEF Typed, TypeOK, Arguments, Cached, Id, Client
<1>4. ASSUME NEW c \in Callers, ServeCached(c) PROVE CallsTyped'
  <2>1. Cached(c) \in Tokens \cup {NoToken} /\ pc[c] = "read"
    BY <1>3, <1>4 DEF ServeCached
  <2>2. QED
    BY <1>1, <1>4, <2>1 DEF CallsTyped, Arguments, SeenWhere, ServeCached, Goto, Places
<1>5. ASSUME NEW c \in Callers, FindDue(c) PROVE CallsTyped'
  <2>1. Cached(c) \in Tokens \cup {NoToken} /\ pc[c] = "read"
    BY <1>3, <1>5 DEF FindDue
  <2>2. QED
    BY <1>1, <1>5, <2>1 DEF CallsTyped, Arguments, SeenWhere, FindDue, Usable, Goto, Places
<1>6. ASSUME NEW c \in Callers, FindNothing(c) PROVE CallsTyped'
  BY <1>1, <1>6 DEF CallsTyped, Arguments, SeenWhere, FindNothing, Request, Goto, Places
<1>7. ASSUME NEW c \in Callers, ClaimFlag(c) PROVE CallsTyped'
  BY <1>1, <1>7 DEF CallsTyped, Arguments, SeenWhere, ClaimFlag, Request, Goto, Places
<1>8. ASSUME NEW c \in Callers, LoseFlag(c) PROVE CallsTyped'
  <2>1. WaysOut(c, seen[c]) /\ pc[c] # "idle" /\ seen[c] \in Tokens \cup {NoToken}
    BY <1>1, <1>8 DEF LoseFlag, WaysOut, CallsTyped
  <2>2. QED
    BY <1>1, <2>1, WaysOutTyped
<1>9. ASSUME NEW c \in Callers, Challenged(c) PROVE CallsTyped'
  BY <1>1, <1>9 DEF CallsTyped, Arguments, SeenWhere, Challenged, Goto, Places
<1>10. ASSUME NEW c \in Callers, Granted(c) PROVE CallsTyped'
  <2>1. issued + 1 \in Tokens
    BY <1>10, MaxTokensAssumption DEF Granted, Typed, TypeOK, Tokens
  <2>2. QED
    BY <1>1, <1>10, <2>1 DEF CallsTyped, Arguments, SeenWhere, Granted, Goto, Places
<1>11. ASSUME NEW c \in Callers, Refused(c) PROVE CallsTyped'
  BY <1>1, <1>11, FailTyped DEF Refused
<1>12. ASSUME NEW c \in Callers, Verify(c) PROVE CallsTyped'
  <2>1. ASSUME Goto(c, "store"), UNCHANGED <<call, seen, got, result>> PROVE CallsTyped'
    BY <1>1, <1>12, <2>1 DEF CallsTyped, Arguments, SeenWhere, Verify, Goto, Places
  <2>2. QED
    BY <1>1, <1>12, <2>1, FailTyped DEF Verify
<1>13. ASSUME NEW c \in Callers, Store(c) PROVE CallsTyped'
  <2>1. WaysOut(c, got[c]) /\ pc[c] # "idle" /\ got[c] \in Tokens \cup {NoToken}
    BY <1>1, <1>13 DEF Store, WaysOut, Proactive, CallsTyped
  <2>2. QED
    BY <1>1, <2>1, WaysOutTyped
<1>14. ASSUME NEW c \in Callers, Release(c) PROVE CallsTyped'
  <2>1. WaysOut(c, result[c]) /\ pc[c] # "idle" /\ result[c] \in Tokens \cup {NoToken}
    BY <1>1, <1>14 DEF Release, WaysOut, CallsTyped
  <2>2. QED
    BY <1>1, <2>1, WaysOutTyped
<1>15. CASE UNCHANGED <<pc, call, seen, got, result>>
  BY <1>1, <1>15 DEF CallsTyped, Arguments, SeenWhere
<1>16. QED
  BY <1>2, <1>4, <1>5, <1>6, <1>7, <1>8, <1>9, <1>10, <1>11, <1>12, <1>13, <1>14, <1>15
     DEF Next, Answer, LocalStep, GrowOld, vars

(* What a step changes besides the variables of the calls.                 *)
Rest == <<source, cache, tokenVars, canRefresh>>

LEMMA RestChanges ==
    ASSUME [Next]_vars
    PROVE  \/ UNCHANGED Rest
           \/ \E c \in Callers :
                Granted(c) \/ Store(c) \/ ClaimFlag(c) \/ Release(c)
           \/ \E t \in Tokens : GrowOld(t)
<1> USE DEF Rest
<1>1. CASE UNCHANGED vars
  BY <1>1 DEF vars
<1>2. ASSUME NEW c \in Callers, Answer(c) PROVE UNCHANGED Rest \/ Granted(c)
  BY <1>2 DEF Answer, Challenged, Refused
<1>3. ASSUME NEW c \in Callers, LocalStep(c)
      PROVE  UNCHANGED Rest \/ Store(c) \/ ClaimFlag(c) \/ Release(c)
  BY <1>3 DEF LocalStep, ServeCached, FindDue, FindNothing, LoseFlag, Verify
<1>4. ASSUME NEW c \in Callers, NEW m \in Clients, NEW r \in Resources,
             NEW claims \in BOOLEAN, Start(c, m, r, claims)
      PROVE  UNCHANGED Rest
  BY <1>4 DEF Start
<1>5. QED
  BY <1>1, <1>2, <1>3, <1>4 DEF Next

LEMMA TypedStep == Typed /\ [Next]_vars => Typed'
<1> SUFFICES ASSUME Typed, [Next]_vars PROVE Typed'
  OBVIOUS
<1> USE DEF Rest, tokenVars
<1> DEFINE RestTyped ==
    /\ source \in Sources
    /\ cache \in [Ids \X Resources -> Tokens \cup {NoToken}]
    /\ kind \in [Tokens -> Kinds] /\ subject \in [Tokens -> Ids]
    /\ named \subseteq Tokens /\ age \in [Tokens -> Ages]
    /\ issued \in 0..MaxTokens /\ canRefresh \in [Clients -> BOOLEAN]
<1>1. CallsTyped'
  BY CallsStep
<1>2. RestTyped
  BY DEF Typed, TypeOK
<1>3. ASSUME NEW c \in Callers, pc[c] # "idle"
      PROVE  Client(c) \in Clients /\ Id(c) \in Ids
  BY <1>3, IdOfAssumption DEF Typed, Arguments, Client, Id
<1>4. ASSUME NEW c \in Callers, Granted(c) PROVE RestTyped'
  <2>1. issued + 1 \in Tokens /\ issued' \in 0..MaxTokens
    BY <1>2, <1>4, MaxTokensAssumption DEF Granted, Tokens
  <2>2. Id(c) \in Ids
    BY <1>3, <1>4 DEF Granted
  <2>3. subject' \in [Tokens -> Ids] /\ named' \subseteq Tokens
    BY <1>2, <1>4, <2>1, <2>2, SystemAssumption DEF Granted
  <2>4. QED
    BY <1>2, <1>4, <2>1, <2>3 DEF Granted
<1>5. ASSUME NEW c \in Callers, Store(c) PROVE RestTyped'
  <2>1. got[c] \in Tokens \cup {NoToken}
    BY DEF Typed, TypeOK
  <2>2. QED
    BY <1>2, <1>5, <2>1 DEF Store
<1>6. ASSUME NEW c \in Callers, ClaimFlag(c) \/ Release(c) PROVE RestTyped'
  BY <1>2, <1>6 DEF ClaimFlag, Release
<1>7. ASSUME NEW t \in Tokens, GrowOld(t) PROVE RestTyped'
  BY <1>2, <1>7 DEF GrowOld, Ages
<1>8. ASSUME UNCHANGED Rest PROVE RestTyped'
  BY <1>2, <1>8
<1>9. RestTyped'
  BY <1>4, <1>5, <1>6, <1>7, <1>8, RestChanges
<1>10. QED
  BY <1>1, <1>9 DEF Typed, TypeOK, CallsTyped

(* The type invariant holds in every reachable state: no way through       *)
(* getToken leads to a check or a store without a token of the endpoint.   *)
THEOREM TypeCorrect == Spec => []TypeOK
<1>1. Typed => TypeOK
  BY DEF Typed
<1>2. QED
  BY InitTyped, TypedStep, <1>1, PTL DEF Spec

-----------------------------------------------------------------------------
(* The flag.                                                               *)

(* A step that changes neither the flags nor who is between winning one    *)
(* and resetting it.                                                       *)
SameHolders ==
    /\ canRefresh' = canRefresh
    /\ \A c \in Callers :
        /\ HoldsFlag(c)' <=> HoldsFlag(c)
        /\ HoldsFlag(c) => Client(c)' = Client(c)

LEMMA SameHoldersKeep == OneRefresher /\ SameHolders => OneRefresher'
BY DEF OneRefresher, SameHolders

(* A request that fails goes to the release if it holds the flag, and back *)
(* to the caller if not.                                                   *)
LEMMA RequestEnds ==
    ASSUME Typed, NEW c \in Callers, Requesting(c), canRefresh' = canRefresh,
           NEW t, IF Proactive(c) THEN Leave(c, t) ELSE Return(c, t)
    PROVE  SameHolders
BY DEF Typed, TypeOK, SameHolders, Requesting, HoldsFlag, Client, Proactive, Leave, Return, Goto

LEMMA FailEnds ==
    ASSUME Typed, NEW c \in Callers, Requesting(c), canRefresh' = canRefresh, Fail(c)
    PROVE  SameHolders
<1>1. CASE Proactive(c)
  BY <1>1, RequestEnds DEF Fail
<1>2. CASE ~Proactive(c)
  BY <1>2, RequestEnds DEF Fail
<1>3. QED
  BY <1>1, <1>2

LEMMA FlagStep == Typed /\ OneRefresher /\ [Next]_vars => OneRefresher'
<1> SUFFICES ASSUME Typed, OneRefresher, [Next]_vars PROVE OneRefresher'
  OBVIOUS
<1> USE DEF Request
<1>1. ASSUME NEW c \in Callers, NEW m \in Clients, NEW r \in Resources,
             NEW claims \in BOOLEAN, Start(c, m, r, claims)
      PROVE  SameHolders
  BY <1>1 DEF Typed, TypeOK, SameHolders, HoldsFlag, Requesting, Proactive, Client, Start, Goto
<1>2. ASSUME NEW c \in Callers, ServeCached(c) \/ FindDue(c) PROVE SameHolders
  BY <1>2 DEF Typed, TypeOK, SameHolders, HoldsFlag, Requesting, Proactive, Client, ServeCached,
              FindDue, Goto
<1>3. ASSUME NEW c \in Callers, FindNothing(c) PROVE SameHolders
  BY <1>3 DEF Typed, TypeOK, SeenWhere, SameHolders, HoldsFlag, Requesting, Proactive, Client,
              FindNothing, Goto
<1>4. ASSUME NEW c \in Callers, LoseFlag(c) PROVE SameHolders
  BY <1>4 DEF Typed, TypeOK, SameHolders, HoldsFlag, Requesting, Proactive, Client, LoseFlag,
              Return, Goto
<1>5. ASSUME NEW c \in Callers, Challenged(c) \/ Granted(c) PROVE SameHolders
  BY <1>5 DEF Typed, TypeOK, SameHolders, HoldsFlag, Requesting, Proactive, Client, Challenged,
              Granted, Goto
<1>6. ASSUME NEW c \in Callers, Refused(c) PROVE SameHolders
  BY <1>6, FailEnds DEF Refused, Requesting
<1>7. ASSUME NEW c \in Callers, Verify(c) PROVE SameHolders
  <2>1. ASSUME Goto(c, "store"), UNCHANGED <<call, seen, got, result>> PROVE SameHolders
    BY <1>7, <2>1 DEF Typed, TypeOK, SameHolders, HoldsFlag, Requesting, Proactive, Client,
                      Verify, Goto
  <2>2. QED
    BY <1>7, <2>1, FailEnds DEF Verify, Requesting
<1>8. ASSUME NEW c \in Callers, Store(c) PROVE SameHolders
  <2>1. Requesting(c) /\ canRefresh' = canRefresh
    BY <1>8 DEF Store, Requesting
  <2>2. IF Proactive(c) THEN Leave(c, got[c]) ELSE Return(c, got[c])
    BY <1>8 DEF Store
  <2>3. QED
    BY <2>1, <2>2, RequestEnds
<1>9. ASSUME NEW c \in Callers, ClaimFlag(c) PROVE OneRefresher'
  <2>1. Client(c) \in Clients /\ ~canRefresh[Client(c)] /\ ~HoldsFlag(c)
    BY <1>9 DEF ClaimFlag, Typed, Arguments, Client, HoldsFlag, Requesting
  <2>2. HoldsFlag(c)'
    BY <1>9 DEF ClaimFlag, Typed, TypeOK, SeenWhere, HoldsFlag, Requesting, Proactive, Goto
  <2>3. \A d \in Callers : Client(d)' = Client(d) /\ (d # c => (HoldsFlag(d)' <=> HoldsFlag(d)))
    BY <1>9 DEF ClaimFlag, Typed, TypeOK, HoldsFlag, Requesting, Proactive, Goto, Client
  <2>4. \A m \in Clients :
          canRefresh'[m] = IF m = Client(c) THEN TRUE ELSE canRefresh[m]
    BY <1>9 DEF ClaimFlag, Typed, TypeOK
  <2>5. QED
    BY <2>1, <2>2, <2>3, <2>4 DEF OneRefresher
<1>10. ASSUME NEW c \in Callers, Release(c) PROVE OneRefresher'
  <2>1. Client(c) \in Clients /\ HoldsFlag(c)
    BY <1>10 DEF Release, Typed, Arguments, Client, HoldsFlag
  <2>2. ~HoldsFlag(c)'
    BY <1>10 DEF Release, Return, Typed, TypeOK, HoldsFlag, Requesting, Goto
  <2>3. \A d \in Callers : Client(d)' = Client(d) /\ (d # c => (HoldsFlag(d)' <=> HoldsFlag(d)))
    BY <1>10 DEF Release, Return, Typed, TypeOK, HoldsFlag, Requesting, Proactive, Goto, Client
  <2>4. \A m \in Clients :
          canRefresh'[m] = IF m = Client(c) THEN FALSE ELSE canRefresh[m]
    BY <1>10 DEF Release, Typed, TypeOK
  <2>5. QED
    BY <2>1, <2>2, <2>3, <2>4 DEF OneRefresher
<1>11. ASSUME NEW t \in Tokens, GrowOld(t) PROVE SameHolders
  BY <1>11 DEF SameHolders, HoldsFlag, Requesting, Proactive, Client, GrowOld
<1>12. ASSUME UNCHANGED vars PROVE SameHolders
  BY <1>12 DEF SameHolders, HoldsFlag, Requesting, Proactive, Client, vars
<1>13. SameHolders \/ OneRefresher'
  BY <1>1, <1>2, <1>3, <1>4, <1>5, <1>6, <1>7, <1>8, <1>9, <1>10, <1>11, <1>12
     DEF Next, Answer, LocalStep
<1>14. QED
  BY <1>13, SameHoldersKeep

(* A client's flag is set exactly while one of its goroutines refreshes:   *)
(* every way out of getToken leads a call that won the flag, and only such *)
(* a call, past the deferred reset (managedidentity.go:407-408).           *)
THEOREM FlagExclusive == Spec => []OneRefresher
<1>1. Init => OneRefresher
  BY DEF Init, OneRefresher, HoldsFlag, Requesting
<1>2. QED
  BY <1>1, InitTyped, TypedStep, FlagStep, PTL DEF Spec

-----------------------------------------------------------------------------
(* Failures of a refresh.                                                  *)

LEMMA OptionalStep == Typed /\ RefreshIsOptional /\ [Next]_vars => RefreshIsOptional'
<1> SUFFICES ASSUME Typed, RefreshIsOptional, [Next]_vars PROVE RefreshIsOptional'
  OBVIOUS
<1> USE DEF Request, Typed, TypeOK, RefreshIsOptional
<1>1. ASSUME NEW c \in Callers, NEW m \in Clients, NEW r \in Resources,
             NEW claims \in BOOLEAN, Start(c, m, r, claims)
      PROVE  RefreshIsOptional'
  BY <1>1 DEF Start, Goto
<1>2. ASSUME NEW c \in Callers, ServeCached(c) \/ FindDue(c) PROVE RefreshIsOptional'
  BY <1>2 DEF ServeCached, FindDue, Usable, Goto
<1>3. ASSUME NEW c \in Callers, FindNothing(c) \/ ClaimFlag(c) \/ Challenged(c) \/ Granted(c)
      PROVE  RefreshIsOptional'
  BY <1>3 DEF FindNothing, ClaimFlag, Challenged, Granted, Goto
<1>4. ASSUME NEW c \in Callers, Fail(c) PROVE RefreshIsOptional'
  BY <1>4 DEF Fail, Proactive, Leave, Return, Goto
<1>5. ASSUME NEW c \in Callers, LoseFlag(c) PROVE RefreshIsOptional'
  BY <1>5 DEF LoseFlag, Return, Goto, SeenWhere
<1>6. ASSUME NEW c \in Callers, Verify(c) PROVE RefreshIsOptional'
  BY <1>4, <1>6 DEF Verify, Goto
<1>7. ASSUME NEW c \in Callers, Store(c) PROVE RefreshIsOptional'
  <2>1. got[c] # NoToken
    BY <1>7 DEF Store, Tokens, NoToken
  <2>2. QED
    BY <1>7, <2>1 DEF Store, Leave, Return, Goto
<1>8. ASSUME NEW c \in Callers, Release(c) PROVE RefreshIsOptional'
  BY <1>8 DEF Release, Return, Goto
<1>9. ASSUME NEW t \in Tokens, GrowOld(t) PROVE RefreshIsOptional'
  BY <1>9 DEF GrowOld
<1>10. ASSUME UNCHANGED vars PROVE RefreshIsOptional'
  BY <1>10 DEF vars
<1>11. QED
  BY <1>1, <1>2, <1>3, <1>4, <1>5, <1>6, <1>7, <1>8, <1>9, <1>10
     DEF Next, Answer, LocalStep, Refused

(* A call that found a usable token returns one, however its refresh fails *)
(* (managedidentity.go:407-415).                                           *)
THEOREM RefreshOptional == Spec => []RefreshIsOptional
<1>1. Init => RefreshIsOptional
  BY DEF Init, RefreshIsOptional
<1>2. QED
  BY <1>1, InitTyped, TypedStep, OptionalStep, PTL DEF Spec

-----------------------------------------------------------------------------
(* Identities.                                                             *)

LEMMA InitIdentity == Init => IdentityInv
BY DEF Init, IdentityInv, CallsRight, RightInHand, CacheRight, NoToken, Tokens

(* A way out with a token that is the call's identity's.                   *)
LEMMA WaysOutRight ==
    ASSUME Typed, CallsRight, NEW c \in Callers, NEW t \in Tokens \cup {NoToken},
           UNCHANGED <<subject, issued>>, t <= issued, t # NoToken => subject[t] = Id(c),
           WaysOut(c, t)
    PROVE  CallsRight'
<1>1. NoToken <= issued
  BY DEF Typed, TypeOK, NoToken
<1>2. QED
  BY <1>1 DEF Typed, TypeOK, CallsRight, RightInHand, WaysOut, Return, Leave, Goto, Id, Client

LEMMA FailRight ==
    ASSUME Typed, CallsRight, NEW c \in Callers, UNCHANGED <<subject, issued>>, Fail(c)
    PROVE  CallsRight'
<1>1. WaysOut(c, NoToken) \/ WaysOut(c, seen[c])
  BY FailIsWayOut
<1>2. NoToken <= issued /\ seen[c] <= issued /\ seen[c] \in Tokens \cup {NoToken}
  BY DEF Typed, TypeOK, CallsRight, NoToken
<1>3. seen[c] # NoToken => subject[seen[c]] = Id(c)
  BY DEF CallsRight, RightInHand
<1>4. QED
  BY <1>1, <1>2, <1>3, WaysOutRight

(* A token read from the cache.                                            *)
LEMMA CachedRight ==
    ASSUME Typed, CacheRight, NEW c \in Callers, pc[c] # "idle"
    PROVE  Cached(c) <= issued /\ (Cached(c) # NoToken => subject[Cached(c)] = Id(c))
<1>1. <<Id(c), call[c].resource>> \in Ids \X Resources
  BY IdOfAssumption DEF Typed, Arguments, Id, Client
<1>2. QED
  BY <1>1 DEF CacheRight, Cached

(* Only the new token gets a subject.                                      *)
LEMMA GrantedSubject ==
    ASSUME Typed, NEW c \in Callers, Granted(c)
    PROVE  /\ \A t \in Tokens : t <= issued => subject'[t] = subject[t]
           /\ subject'[issued + 1] \in {Id(c), System}
           /\ source # "AzureArc" => subject'[issued + 1] = Id(c)
<1>1. issued \in Nat /\ issued + 1 \in Tokens
  BY MaxTokensAssumption DEF Granted, Typed, TypeOK, Tokens
<1>2. PICK i \in {Id(c), System} :
        /\ subject' = [subject EXCEPT ![issued + 1] = i]
        /\ source # "AzureArc" => i = Id(c)
  BY DEF Granted
<1>3. \A t \in Tokens : t <= issued => t # issued + 1
  BY <1>1 DEF Tokens
<1>4. QED
  BY <1>1, <1>2, <1>3 DEF Typed, TypeOK

LEMMA CallsRightStep == Typed /\ CallsRight /\ CacheRight /\ [Next]_vars => CallsRight'
<1> SUFFICES ASSUME Typed, CallsRight, CacheRight, [Next]_vars PROVE CallsRight'
  OBVIOUS
<1> USE DEF Request, tokenVars
<1>0. issued \in Nat /\ NoToken <= issued
  BY DEF Typed, TypeOK, NoToken
<1>1. ASSUME NEW c \in Callers, NEW m \in Clients, NEW r \in Resources,
             NEW claims \in BOOLEAN, Start(c, m, r, claims)
      PROVE  CallsRight'
  BY <1>0, <1>1 DEF Typed, TypeOK, CallsRight, RightInHand, Id, Client, Start, Goto
<1>2. ASSUME NEW c \in Callers, ServeCached(c) \/ FindDue(c) PROVE CallsRight'
  <2>1. Cached(c) <= issued /\ (Cached(c) # NoToken => subject[Cached(c)] = Id(c))
    BY <1>2, CachedRight DEF ServeCached, FindDue
  <2>2. QED
    BY <1>2, <2>1 DEF Typed, TypeOK, CallsRight, RightInHand, Id, Client, ServeCached, FindDue, Goto
<1>3. ASSUME NEW c \in Callers, FindNothing(c) \/ ClaimFlag(c) \/ Challenged(c)
      PROVE  CallsRight'
  BY <1>3 DEF Typed, TypeOK, CallsRight, RightInHand, Id, Client, FindNothing, ClaimFlag,
              Challenged, Goto
<1>4. ASSUME NEW c \in Callers, LoseFlag(c) PROVE CallsRight'
  <2>1. WaysOut(c, seen[c]) /\ seen[c] \in Tokens \cup {NoToken} /\ UNCHANGED <<subject, issued>>
    BY <1>4 DEF LoseFlag, WaysOut, Typed, TypeOK
  <2>2. seen[c] <= issued /\ (seen[c] # NoToken => subject[seen[c]] = Id(c))
    BY DEF CallsRight, RightInHand
  <2>3. QED
    BY <2>1, <2>2, WaysOutRight
<1>5. ASSUME NEW c \in Callers, Granted(c) PROVE CallsRight'
  <2>1. issued' = issued + 1 /\ issued + 1 \in Tokens
    BY <1>0, <1>5, MaxTokensAssumption DEF Granted, Typed, TypeOK, Tokens
  <2>2. \A t \in Tokens : t <= issued => subject'[t] = subject[t]
    BY <1>0, <1>5, GrantedSubject
  <2>3. /\ subject'[issued + 1] \in {Id(c), System}
        /\ source # "AzureArc" => subject'[issued + 1] = Id(c)
    BY <1>5, <2>1, GrantedSubject
  <2>4. \A d \in Callers :
          /\ seen'[d] = seen[d] /\ result'[d] = result[d] /\ Id(d)' = Id(d)
          /\ seen[d] \in Tokens \cup {NoToken} /\ result[d] \in Tokens \cup {NoToken}
          /\ d # c => got'[d] = got[d] /\ pc'[d] = pc[d]
          /\ pc[d] \in {"verify", "store"} => got[d] \in Tokens
    BY <1>5 DEF Granted, Goto, Typed, TypeOK, Id, Client
  <2>5. got'[c] = issued + 1 /\ (pc'[c] = "store" => source # "AzureArc")
    BY <1>5 DEF Granted, Goto, Typed, TypeOK
  <2>6. \A d \in Callers :
          seen'[d] <= issued' /\ result'[d] <= issued' /\ got'[d] <= issued'
    BY <1>0, <2>1, <2>4, <2>5 DEF CallsRight, Typed, TypeOK, Tokens, NoToken
  <2>7. \A d \in Callers :
          /\ seen'[d] # NoToken => subject'[seen'[d]] = Id(d)'
          /\ result'[d] # NoToken => subject'[result'[d]] = Id(d)'
    BY <2>2, <2>4 DEF CallsRight, RightInHand
  <2>8. \A d \in Callers :
          /\ pc'[d] = "store" => subject'[got'[d]] = Id(d)'
          /\ pc'[d] = "verify" => subject'[got'[d]] \in {Id(d)', System}
    BY <2>2, <2>3, <2>4, <2>5 DEF CallsRight, RightInHand
  <2>9. QED
    BY <2>6, <2>7, <2>8 DEF CallsRight, RightInHand
<1>6. ASSUME NEW c \in Callers, Refused(c) PROVE CallsRight'
  BY <1>6, FailRight DEF Refused
<1>7. ASSUME NEW c \in Callers, Verify(c) PROVE CallsRight'
  <2>1. UNCHANGED <<subject, issued>>
    BY <1>7 DEF Verify
  <2>2. CASE Fail(c)
    BY <2>1, <2>2, FailRight
  <2>3. CASE Confirmed(c) /\ Goto(c, "store") /\ UNCHANGED <<call, seen, got, result>>
    <3>1. subject[got[c]] = Id(c)
      BY <1>7, <2>3 DEF Confirmed, Verify, CallsRight, RightInHand
    <3>2. QED
      BY <2>1, <2>3, <3>1 DEF Typed, TypeOK, CallsRight, RightInHand, Id, Client, Goto
  <2>4. QED
    BY <1>7, <2>2, <2>3 DEF Verify
<1>8. ASSUME NEW c \in Callers, Store(c) PROVE CallsRight'
  <2>1. WaysOut(c, got[c]) /\ got[c] \in Tokens \cup {NoToken} /\ UNCHANGED <<subject, issued>>
    BY <1>8 DEF Store, WaysOut, Proactive, Typed, TypeOK
  <2>2. got[c] <= issued /\ subject[got[c]] = Id(c)
    BY <1>8 DEF Store, CallsRight, RightInHand
  <2>3. QED
    BY <2>1, <2>2, WaysOutRight
<1>9. ASSUME NEW c \in Callers, Release(c) PROVE CallsRight'
  <2>1. WaysOut(c, result[c]) /\ result[c] \in Tokens \cup {NoToken} /\ UNCHANGED <<subject, issued>>
    BY <1>9 DEF Release, WaysOut, Typed, TypeOK
  <2>2. result[c] <= issued /\ (result[c] # NoToken => subject[result[c]] = Id(c))
    BY DEF CallsRight
  <2>3. QED
    BY <2>1, <2>2, WaysOutRight
<1>10. ASSUME UNCHANGED <<subject, issued, pc, call, seen, got, result>> PROVE CallsRight'
  BY <1>10 DEF CallsRight, RightInHand, Id, Client
<1>11. QED
  BY <1>1, <1>2, <1>3, <1>4, <1>5, <1>6, <1>7, <1>8, <1>9, <1>10
     DEF Next, Answer, LocalStep, GrowOld, vars

LEMMA CacheRightStep == Typed /\ CallsRight /\ CacheRight /\ [Next]_vars => CacheRight'
<1> SUFFICES ASSUME Typed, CallsRight, CacheRight, [Next]_vars PROVE CacheRight'
  OBVIOUS
<1> USE DEF tokenVars
<1>0. issued \in Nat /\ cache \in [Ids \X Resources -> Tokens \cup {NoToken}]
  BY DEF Typed, TypeOK
<1>1. ASSUME NEW c \in Callers, Granted(c) PROVE CacheRight'
  <2>1. \A t \in Tokens : t <= issued => subject'[t] = subject[t]
    BY <1>1, GrantedSubject
  <2>2. QED
    BY <1>0, <1>1, <2>1 DEF Granted, CacheRight, Tokens, NoToken
<1>2. ASSUME NEW c \in Callers, Store(c) PROVE CacheRight'
  <2>1. <<Id(c), call[c].resource>> \in Ids \X Resources
    BY <1>2, IdOfAssumption DEF Store, Typed, Arguments, Id, Client
  <2>2. got[c] <= issued /\ subject[got[c]] = Id(c)
    BY <1>2 DEF Store, CallsRight, RightInHand
  <2>3. QED
    BY <1>0, <1>2, <2>1, <2>2 DEF Store, CacheRight
<1>3. ASSUME UNCHANGED <<cache, subject, issued>> PROVE CacheRight'
  BY <1>3 DEF CacheRight
<1>4. QED
  BY <1>1, <1>2, <1>3, RestChanges DEF Rest, ClaimFlag, Release, GrowOld

(* No call returns, and the cache that all clients share never holds, a    *)
(* token of another identity than the one asked for: what the check of an  *)
(* Arc agent's answer lets through is the only source of both              *)
(* (managedidentity.go:554-559).                                           *)
THEOREM IdentityRight == Spec => []RightIdentity
<1>1. IdentityInv => RightIdentity
  BY DEF IdentityInv, CallsRight, CacheRight, RightIdentity
<1>2. Typed /\ IdentityInv /\ [Next]_vars => IdentityInv'
  BY CallsRightStep, CacheRightStep DEF IdentityInv
<1>3. QED
  BY <1>1, <1>2, InitTyped, TypedStep, InitIdentity, PTL DEF Spec
=============================================================================
