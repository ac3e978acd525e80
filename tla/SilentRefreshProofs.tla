------------------------- MODULE SilentRefreshProofs -------------------------
(***************************************************************************)
(* Proofs about SilentRefresh, for every set of goroutines, tenant strings *)
(* and slots and every number of tokens.                                   *)
(*                                                                         *)
(* FlagHeldByOne is inductive once callers in a call have arguments.       *)
(* NeverRefreshedTwice needs the facts about serial numbers in Serials:    *)
(* an unsaved token is known to its owner only, a token sits in the slot   *)
(* it was obtained for, and the cache holds no retired token.              *)
(***************************************************************************)
EXTENDS SilentRefresh, TLAPS

Arguments ==
    \A c \in Callers :
        pc[c] # "idle" =>
            call[c] \in [tenant : Tenants, slot : Slots, claims : BOOLEAN]

(* A token in flight is in no slot, in no caller's hands but its own, and  *)
(* not retired.                                                            *)
GotIsFresh ==
    \A c \in Callers : pc[c] = "store" =>
        /\ \A s \in Slots : cache[s] # got[c]
        /\ \A d \in Callers : seen[d] # got[c]
        /\ \A d \in Callers : d # c /\ pc[d] = "store" => got[d] # got[c]
        /\ \A k \in Tenants : got[c] \notin retired[k]

(* Serial numbers grow.                                                    *)
Issued ==
    /\ \A s \in Slots : cache[s] <= issued
    /\ \A c \in Callers : seen[c] <= issued
    /\ \A c \in Callers : pc[c] = "store" => got[c] <= issued
    /\ \A k \in Tenants : \A t \in retired[k] : t <= issued

(* A token is cached in the slot it was obtained for and in no other.      *)
OneSlot ==
    /\ \A s, r \in Slots : cache[s] = cache[r] /\ cache[s] # NoToken => s = r
    /\ \A c \in Callers, s \in Slots :
        cache[s] = seen[c] /\ seen[c] # NoToken => s = Slot(c)

RetiredNotCached ==
    \A s \in Slots, k \in Tenants : cache[s] \notin retired[k]

(* Between calls a goroutine remembers no token.                           *)
SeenAtRest ==
    \A c \in Callers : pc[c] = "idle" => seen[c] = NoToken

(* A caller on its way to refresh holds a token.                           *)
SeenSomething ==
    \A c \in Callers :
        pc[c] \in {"claim", "recheck"} \/ Refreshing(c) => seen[c] \in Tokens

Typed == TypeOK /\ Arguments /\ SeenSomething /\ SeenAtRest

Serials ==
    /\ GotIsFresh
    /\ Issued
    /\ OneSlot
    /\ RetiredNotCached

-----------------------------------------------------------------------------
(* Type correctness.                                                       *)

LEMMA InitTyped == Init => Typed
BY SlotsOfAssumption, FlowOfAssumption, MaxTokensAssumption
   DEF Init, Typed, TypeOK, Arguments, SeenSomething, SeenAtRest, Refreshing, Ages, Grants,
       Places, Calls, NoCall,
       NoToken, Tokens

(* The types of a caller's own variables.                                  *)
CallerTyped ==
    /\ pc \in [Callers -> Places]
    /\ call \in [Callers -> Calls]
    /\ grant \in [Callers -> Grants]
    /\ seen \in [Callers -> Tokens \cup {NoToken}]
    /\ got \in [Callers -> Tokens \cup {NoToken}]
    /\ result \in [Callers -> Tokens \cup {NoToken}]
    /\ \A c \in Callers : pc[c] = "store" => got[c] \in Tokens
    /\ Arguments
    /\ SeenSomething
    /\ SeenAtRest

(* The ways out of a step keep them, when the result is a token or an      *)
(* error.                                                                  *)
LEMMA WayOut ==
    ASSUME CallerTyped, NEW c \in Callers, pc[c] # "idle",
           NEW t \in Tokens \cup {NoToken}
    PROVE  /\ SilentFails(c) => CallerTyped'
           /\ Return(c, t) => CallerTyped'
           /\ Leave(c, t) => CallerTyped'
           /\ seen[c] \in Tokens /\ GoOn(c, "ask", "proactive", seen[c])
                => CallerTyped'
<1> USE DEF Ages, Grants, Places, Calls, NoToken, NoCall, CallerTyped,
            Arguments,
           SeenSomething, SeenAtRest, Refreshing
<1>1. ASSUME Return(c, t) PROVE CallerTyped'
  BY <1>1 DEF Return, Goto
<1>2. ASSUME Leave(c, t) PROVE CallerTyped'
  BY <1>2 DEF Leave, Goto
<1>3. ASSUME Return(c, NoToken) PROVE CallerTyped'
  BY <1>3 DEF Return, Goto
<1>4. ASSUME GoOn(c, "ask", "request", NoToken) PROVE CallerTyped'
  BY <1>4 DEF GoOn, Goto
<1>5. SilentFails(c) => CallerTyped'
  BY <1>3, <1>4 DEF SilentFails
<1>6. ASSUME seen[c] \in Tokens, GoOn(c, "ask", "proactive", seen[c])
      PROVE  CallerTyped'
  BY <1>6 DEF GoOn, Goto
<1>7. QED
  BY <1>1, <1>2, <1>5, <1>6

LEMMA TypedStep == Typed /\ [Next]_vars => Typed'
<1> USE SlotsOfAssumption, FlowOfAssumption, MaxTokensAssumption
    DEF Ages, Grants, Places, Calls, NoToken, Tokens, cacheVars
<1> SUFFICES ASSUME Typed, [Next]_vars PROVE Typed'
  OBVIOUS
<1>1. ASSUME NEW c \in Callers, NEW k \in Tenants, NEW s \in Slots,
             NEW claims \in BOOLEAN, Start(c, k, s, claims)
      PROVE  Typed'
  BY <1>1 DEF Typed, TypeOK, Arguments, SeenSomething, SeenAtRest, Refreshing, Start, Goto
<1>2. ASSUME NEW c \in Callers, ServeCached(c) PROVE Typed'
  BY <1>2 DEF Typed, TypeOK, Arguments, SeenSomething, SeenAtRest, Refreshing, ServeCached,
              Read, Return, Goto, NoCall, Slot
<1>3. ASSUME NEW c \in Callers, FindDue(c) PROVE Typed'
  BY <1>3 DEF Typed, TypeOK, Arguments, SeenSomething, SeenAtRest, Refreshing, FindDue,
              Read, GoOn, Goto, Slot, Usable
<1>4. ASSUME NEW c \in Callers, FindRefreshToken(c) PROVE Typed'
  BY <1>4 DEF Typed, TypeOK, Arguments, SeenSomething, SeenAtRest, Refreshing,
              FindRefreshToken, Read, GoOn, Goto, Slot
<1>5. ASSUME NEW c \in Callers, FindNothing(c) PROVE Typed'
  <2>1. SilentFails(c) /\ pc[c] # "idle"
    BY <1>5 DEF FindNothing, Read
  <2>2. CallerTyped'
    BY <2>1, WayOut DEF Typed, TypeOK, CallerTyped
  <2>3. QED
    BY <1>5, <2>2 DEF Typed, TypeOK, CallerTyped, FindNothing, Read
<1>6. ASSUME NEW c \in Callers, ClaimFlag(c) PROVE Typed'
  BY <1>6 DEF Typed, TypeOK, Arguments, SeenSomething, SeenAtRest, Refreshing, ClaimFlag,
              Move, Goto
<1>7. ASSUME NEW c \in Callers, LoseFlag(c) PROVE Typed'
  BY <1>7 DEF Typed, TypeOK, Arguments, SeenSomething, SeenAtRest, Refreshing, LoseFlag,
              Return, Goto, NoCall
<1>8. ASSUME NEW c \in Callers, Recheck(c) PROVE Typed'
  <2>1. pc[c] # "idle" /\ seen[c] \in Tokens
    BY <1>8 DEF Recheck, Typed, SeenSomething
  <2>2. GoOn(c, "ask", "proactive", seen[c]) \/ Leave(c, seen[c])
    BY <1>8 DEF Recheck
  <2>3. CallerTyped'
    <3>1. CallerTyped
      BY DEF Typed, TypeOK, CallerTyped
    <3>2. QED
      BY <2>1, <2>2, <3>1, WayOut
  <2>4. QED
    BY <1>8, <2>3 DEF Typed, TypeOK, CallerTyped, Recheck
<1>9. ASSUME NEW c \in Callers, Granted(c) PROVE Typed'
  BY <1>9 DEF Typed, TypeOK, Arguments, SeenSomething, SeenAtRest, Refreshing, Granted, Goto
<1>10. ASSUME NEW c \in Callers, Refused(c) PROVE Typed'
  <2> DEFINE t == IF Flow(c) = "public" THEN NoToken ELSE seen[c]
  <2>1. pc[c] # "idle" /\ t \in Tokens \cup {NoToken}
    BY <1>10 DEF Refused, Typed, TypeOK
  <2>2. SilentFails(c) \/ Return(c, NoToken) \/ Leave(c, t)
    BY <1>10 DEF Refused
  <2>3. CallerTyped'
    <3> HIDE DEF t
    <3>1. CallerTyped
      BY DEF Typed, TypeOK, CallerTyped
    <3>2. QED
      BY <2>1, <2>2, <3>1, WayOut
  <2>4. QED
    BY <1>10, <2>3 DEF Typed, TypeOK, CallerTyped, Refused
<1>11. ASSUME NEW c \in Callers, Store(c) PROVE Typed'
  <2>1. pc[c] # "idle" /\ got[c] \in Tokens
    BY <1>11 DEF Store, Typed, TypeOK
  <2>2. Return(c, got[c]) \/ Leave(c, got[c])
    BY <1>11 DEF Store
  <2>3. CallerTyped'
    <3>1. CallerTyped
      BY DEF Typed, TypeOK, CallerTyped
    <3>2. QED
      BY <2>1, <2>2, <3>1, WayOut
  <2>4. Slot(c) \in Slots /\ Tenant(c) \in Tenants
    BY <2>1 DEF Typed, Arguments, Slot, Tenant
  <2>5. rts' \subseteq Slots
    BY <1>11, <2>4 DEF Store, SharingRT, UserSlots, Typed, TypeOK
  <2>6. cache' \in [Slots -> Tokens \cup {NoToken}]
    BY <1>11, <2>1 DEF Store, Typed, TypeOK
  <2>7. retired' \in [Tenants -> SUBSET Tokens]
    <3>1. CASE grant[c] = "proactive"
      <4>1. seen[c] \in Tokens
        BY <1>11, <3>1 DEF Store, Typed, SeenSomething, SeenAtRest, Refreshing
      <4>2. retired' = [retired EXCEPT ![Tenant(c)] = @ \cup {seen[c]}]
        BY <1>11, <3>1 DEF Store
      <4>3. QED
        BY <4>1, <4>2 DEF Typed, TypeOK
    <3>2. CASE grant[c] # "proactive"
      BY <1>11, <3>2 DEF Store, Typed, TypeOK
    <3>3. QED
      BY <3>1, <3>2
  <2>8. QED
    BY <1>11, <2>3, <2>5, <2>6, <2>7 DEF Typed, TypeOK, CallerTyped, Store
<1>12. ASSUME NEW c \in Callers, StoreUnread(c) PROVE Typed'
  <2>1. pc[c] # "idle"
    BY <1>12 DEF StoreUnread
  <2>2. PICK t \in {got[c], NoToken} :
           SilentFails(c) \/ Return(c, t) \/ Leave(c, t)
    BY <1>12 DEF StoreUnread
  <2>3. CallerTyped'
    <3>1. CallerTyped /\ t \in Tokens \cup {NoToken}
      BY <2>2 DEF Typed, TypeOK, CallerTyped
    <3>2. QED
      BY <2>1, <2>2, <3>1, WayOut
  <2>4. rts' \subseteq Slots
    BY <1>12 DEF StoreUnread, SharingRT, UserSlots, Typed, TypeOK, Arguments,
                 Slot
  <2>5. QED
    BY <1>12, <2>3, <2>4 DEF Typed, TypeOK, CallerTyped, StoreUnread
<1>13. ASSUME NEW c \in Callers, Release(c) PROVE Typed'
  <2>1. pc[c] # "idle" /\ result[c] \in Tokens \cup {NoToken}
    BY <1>13 DEF Release, Typed, TypeOK
  <2>2. SilentFails(c) \/ Return(c, result[c])
    BY <1>13 DEF Release
  <2>3. CallerTyped'
    <3>1. CallerTyped
      BY DEF Typed, TypeOK, CallerTyped
    <3>2. QED
      BY <2>1, <2>2, <3>1, WayOut
  <2>4. canRefresh' \in [Tenants -> BOOLEAN]
    BY <1>13 DEF Release, Typed, TypeOK, Tenant
  <2>5. QED
    BY <1>13, <2>3, <2>4 DEF Typed, TypeOK, CallerTyped, Release
<1>14. ASSUME NEW s \in Slots, SignIn(s) PROVE Typed'
  <2>1. issued' \in 0..MaxTokens /\ issued + 1 \in Tokens
    BY <1>14, MaxTokensAssumption DEF SignIn, Typed, TypeOK, Tokens
  <2>2. cache' \in [Slots -> Tokens \cup {NoToken}] /\ rts' \subseteq Slots
    BY <1>14, <2>1 DEF SignIn, UserSlots, Typed, TypeOK
  <2>3. QED
    BY <1>14, <2>1, <2>2 DEF Typed, TypeOK, Arguments, SeenSomething, SeenAtRest,
                             Refreshing, SignIn
<1>15. CASE RemoveAccount
  BY <1>15 DEF Typed, TypeOK, Arguments, SeenSomething, SeenAtRest, Refreshing,
               RemoveAccount, UserSlots
<1>16. ASSUME NEW t \in Tokens, GrowOld(t) PROVE Typed'
  BY <1>16 DEF Typed, TypeOK, Arguments, SeenSomething, SeenAtRest, Refreshing, GrowOld
<1>17. CASE UNCHANGED vars
  BY <1>17 DEF Typed, TypeOK, Arguments, SeenSomething, SeenAtRest, Refreshing, vars
<1>18. QED
  BY <1>1, <1>2, <1>3, <1>4, <1>5, <1>6, <1>7, <1>8, <1>9, <1>10, <1>11, <1>12,
     <1>13, <1>14, <1>15, <1>16, <1>17 DEF Next, LocalStep, Answer

(* The type invariant holds in every reachable state: in particular what a *)
(* goroutine stores is always a token the service granted.                 *)
THEOREM TypeCorrect == Spec => []TypeOK
<1>1. Typed => TypeOK
  BY DEF Typed
<1>2. QED
  BY InitTyped, TypedStep, <1>1, PTL DEF Spec

-----------------------------------------------------------------------------
(* The flag.                                                               *)

LEMMA InitFlag == Init => FlagHeldByOne
BY DEF Init, FlagHeldByOne, HoldsFlag

(* A step that changes neither the flags nor who is between winning one    *)
(* and resetting it preserves FlagHeldByOne.                               *)
SameHolders ==
    /\ canRefresh' = canRefresh
    /\ \A c \in Callers :
        /\ HoldsFlag(c)' <=> HoldsFlag(c)
        /\ HoldsFlag(c) => Tenant(c)' = Tenant(c)

LEMMA SameHoldersKeep == FlagHeldByOne /\ SameHolders => FlagHeldByOne'
BY DEF FlagHeldByOne, SameHolders

LEMMA FlagStep == Typed /\ FlagHeldByOne /\ [Next]_vars => FlagHeldByOne'
<1> SUFFICES ASSUME Typed, FlagHeldByOne, [Next]_vars PROVE FlagHeldByOne'
  OBVIOUS
<1> USE DEF Typed, TypeOK, Arguments
<1>1. ASSUME NEW c \in Callers, NEW k \in Tenants, NEW s \in Slots,
             NEW claims \in BOOLEAN, Start(c, k, s, claims)
      PROVE  FlagHeldByOne'
  <2>1. SameHolders
    BY <1>1 DEF SameHolders, HoldsFlag, Tenant, Start, Goto
  <2>2. QED
    BY <2>1, SameHoldersKeep
<1>2. ASSUME NEW c \in Callers, ServeCached(c) PROVE FlagHeldByOne'
  <2>1. SameHolders
    BY <1>2 DEF SameHolders, HoldsFlag, Tenant, ServeCached, Read, Return, Goto,
              NoCall
  <2>2. QED
    BY <2>1, SameHoldersKeep
<1>3. ASSUME NEW c \in Callers, FindDue(c) PROVE FlagHeldByOne'
  <2>1. SameHolders
    BY <1>3 DEF SameHolders, HoldsFlag, Tenant, FindDue, Read, GoOn, Goto,
              NoCall
  <2>2. QED
    BY <2>1, SameHoldersKeep
<1>4. ASSUME NEW c \in Callers, FindRefreshToken(c) PROVE FlagHeldByOne'
  <2>1. SameHolders
    BY <1>4 DEF SameHolders, HoldsFlag, Tenant, FindRefreshToken, Read, GoOn, Goto,
              NoCall
  <2>2. QED
    BY <2>1, SameHoldersKeep
<1>5. ASSUME NEW c \in Callers, FindNothing(c) PROVE FlagHeldByOne'
  <2>1. SameHolders
    BY <1>5 DEF SameHolders, HoldsFlag, Tenant, FindNothing, Read, SilentFails, GoOn, Return, Goto,
              NoCall
  <2>2. QED
    BY <2>1, SameHoldersKeep
<1>6. ASSUME NEW c \in Callers, LoseFlag(c) PROVE FlagHeldByOne'
  <2>1. SameHolders
    BY <1>6 DEF SameHolders, HoldsFlag, Tenant, LoseFlag, Return, Goto,
              NoCall
  <2>2. QED
    BY <2>1, SameHoldersKeep
<1>7. ASSUME NEW c \in Callers, Recheck(c) PROVE FlagHeldByOne'
  <2>1. SameHolders
    BY <1>7 DEF SameHolders, HoldsFlag, Tenant, Recheck, GoOn, Leave, Goto,
              NoCall
  <2>2. QED
    BY <2>1, SameHoldersKeep
<1>8. ASSUME NEW c \in Callers, Granted(c) PROVE FlagHeldByOne'
  <2>1. SameHolders
    BY <1>8 DEF SameHolders, HoldsFlag, Tenant, Granted, Goto,
              NoCall
  <2>2. QED
    BY <2>1, SameHoldersKeep
<1>9. ASSUME NEW c \in Callers, Refused(c) PROVE FlagHeldByOne'
  <2>1. SameHolders
    BY <1>9 DEF SameHolders, HoldsFlag, Tenant, Refused, Leave, SilentFails, GoOn, Return, Goto,
              NoCall
  <2>2. QED
    BY <2>1, SameHoldersKeep
<1>10. ASSUME NEW c \in Callers, Store(c) PROVE FlagHeldByOne'
  <2>1. SameHolders
    BY <1>10 DEF SameHolders, HoldsFlag, Tenant, Store, Leave, Return, Goto,
              NoCall
  <2>2. QED
    BY <2>1, SameHoldersKeep
<1>11. ASSUME NEW c \in Callers, StoreUnread(c) PROVE FlagHeldByOne'
  <2>1. SameHolders
    BY <1>11 DEF SameHolders, HoldsFlag, Tenant, StoreUnread, Leave, SilentFails, GoOn, Return, Goto,
              NoCall
  <2>2. QED
    BY <2>1, SameHoldersKeep
<1>12. ASSUME NEW c \in Callers, ClaimFlag(c) PROVE FlagHeldByOne'
  <2>1. ~HoldsFlag(c) /\ HoldsFlag(c)' /\ Tenant(c)' = Tenant(c)
    BY <1>12 DEF ClaimFlag, Move, Goto, HoldsFlag, Tenant
  <2>2. \A d \in Callers : d # c =>
          (HoldsFlag(d)' <=> HoldsFlag(d)) /\ Tenant(d)' = Tenant(d)
    BY <1>12 DEF ClaimFlag, Move, Goto, HoldsFlag, Tenant
  <2>3. Tenant(c) \in Tenants /\ ~canRefresh[Tenant(c)]
    BY <1>12 DEF ClaimFlag, Tenant
  <2>4. canRefresh' = [canRefresh EXCEPT ![Tenant(c)] = TRUE]
    BY <1>12 DEF ClaimFlag
  <2>5. QED
    BY <2>1, <2>2, <2>3, <2>4 DEF FlagHeldByOne
<1>13. ASSUME NEW c \in Callers, Release(c) PROVE FlagHeldByOne'
  <2>1. HoldsFlag(c) /\ ~HoldsFlag(c)'
    BY <1>13 DEF Release, SilentFails, GoOn, Return, Goto, HoldsFlag
  <2>2. \A d \in Callers : d # c =>
          (HoldsFlag(d)' <=> HoldsFlag(d)) /\ Tenant(d)' = Tenant(d)
    BY <1>13 DEF Release, SilentFails, GoOn, Return, Goto, HoldsFlag, Tenant,
               NoCall
  <2>3. Tenant(c) \in Tenants
    BY <1>13 DEF Release, Tenant
  <2>4. canRefresh' = [canRefresh EXCEPT ![Tenant(c)] = FALSE]
    BY <1>13 DEF Release
  <2>5. QED
    BY <2>1, <2>2, <2>3, <2>4 DEF FlagHeldByOne
<1>14. ASSUME NEW s \in Slots, SignIn(s) PROVE FlagHeldByOne'
  <2>1. SameHolders
    BY <1>14 DEF SameHolders, HoldsFlag, Tenant, SignIn
  <2>2. QED
    BY <2>1, SameHoldersKeep
<1>15. ASSUME RemoveAccount PROVE FlagHeldByOne'
  <2>1. SameHolders
    BY <1>15 DEF SameHolders, HoldsFlag, Tenant, RemoveAccount
  <2>2. QED
    BY <2>1, SameHoldersKeep
<1>16. ASSUME NEW t \in Tokens, GrowOld(t) PROVE FlagHeldByOne'
  <2>1. SameHolders
    BY <1>16 DEF SameHolders, HoldsFlag, Tenant, GrowOld
  <2>2. QED
    BY <2>1, SameHoldersKeep
<1>17. ASSUME UNCHANGED vars PROVE FlagHeldByOne'
  <2>1. SameHolders
    BY <1>17 DEF SameHolders, HoldsFlag, Tenant, vars
  <2>2. QED
    BY <2>1, SameHoldersKeep
<1>18. QED
  BY <1>1, <1>2, <1>3, <1>4, <1>5, <1>6, <1>7, <1>8, <1>9, <1>10, <1>11, <1>12,
     <1>13, <1>14, <1>15, <1>16, <1>17 DEF Next, LocalStep, Answer

(* For every tenant string the flag is set exactly while one goroutine     *)
(* refreshes: mutual exclusion, and no path that leaves the flag behind.   *)
THEOREM FlagExclusive == Spec => []FlagHeldByOne
BY InitTyped, TypedStep, InitFlag, FlagStep, PTL DEF Spec

-----------------------------------------------------------------------------
(* Serial numbers.                                                         *)

LEMMA InitSerials == Init => Serials
BY MaxTokensAssumption
   DEF Init, Serials, GotIsFresh, Issued, OneSlot, RetiredNotCached, NoToken

(* A step that stores, issues and retires nothing: a caller keeps what it  *)
(* saw, forgets it, or sees what its slot holds.                           *)
Quiet ==
    /\ UNCHANGED <<cache, issued, retired>>
    /\ \A c \in Callers :
        /\ pc'[c] = "store" => pc[c] = "store" /\ got'[c] = got[c]
        /\ \/ seen'[c] = NoToken
           \/ seen'[c] = seen[c] /\ Slot(c)' = Slot(c)
           \/ Slot(c) \in Slots /\ seen'[c] = cache[Slot(c)] /\ Slot(c)' = Slot(c)

LEMMA QuietKeepsSerials ==
    ASSUME Typed, Typed', Serials, Quiet
    PROVE  Serials'
<1>1. GotIsFresh'
  BY DEF Serials, GotIsFresh, Quiet, Typed, TypeOK, Tokens, NoToken
<1>2. Issued'
  BY MaxTokensAssumption
     DEF Serials, Issued, Quiet, Typed, TypeOK, Tokens, NoToken
<1>3. OneSlot'
  BY DEF Serials, OneSlot, Quiet
<1>4. RetiredNotCached'
  BY DEF Serials, RetiredNotCached, Quiet
<1>5. QED
  BY <1>1, <1>2, <1>3, <1>4 DEF Serials

(* Which actions are quiet.                                                *)
QuietStep ==
    \/ \E c \in Callers :
        \/ \E k \in Tenants, s \in Slots, claims \in BOOLEAN : Start(c, k, s, claims)
        \/ ServeCached(c) \/ FindDue(c) \/ FindRefreshToken(c) \/ FindNothing(c)
        \/ ClaimFlag(c) \/ LoseFlag(c) \/ Recheck(c) \/ Refused(c)
        \/ StoreUnread(c) \/ Release(c)
    \/ \E t \in Tokens : GrowOld(t)

LEMMA QuietSteps == Typed /\ QuietStep => Quiet
<1> SUFFICES ASSUME Typed, QuietStep PROVE Quiet
  OBVIOUS
<1> USE DEF Typed, TypeOK, Arguments, SeenAtRest, Quiet, Slot, cacheVars
<1>1. ASSUME NEW c \in Callers, NEW k \in Tenants, NEW s \in Slots,
             NEW claims \in BOOLEAN, Start(c, k, s, claims)
      PROVE  Quiet
  BY <1>1 DEF Start, Goto
<1>2. ASSUME NEW c \in Callers, ServeCached(c) PROVE Quiet
  BY <1>2 DEF ServeCached, Read, Return, Goto
<1>3. ASSUME NEW c \in Callers, FindDue(c) PROVE Quiet
  BY <1>3 DEF FindDue, Read, GoOn, Goto, Usable
<1>4. ASSUME NEW c \in Callers, FindRefreshToken(c) PROVE Quiet
  BY <1>4 DEF FindRefreshToken, Read, GoOn, Goto
<1>5. ASSUME NEW c \in Callers, FindNothing(c) PROVE Quiet
  BY <1>5 DEF FindNothing, Read, SilentFails, GoOn, Return, Goto
<1>6. ASSUME NEW c \in Callers, ClaimFlag(c) PROVE Quiet
  BY <1>6 DEF ClaimFlag, Move, Goto
<1>7. ASSUME NEW c \in Callers, LoseFlag(c) PROVE Quiet
  BY <1>7 DEF LoseFlag, Return, Goto
<1>8. ASSUME NEW c \in Callers, Recheck(c) PROVE Quiet
  BY <1>8 DEF Recheck, GoOn, Leave, Goto
<1>9. ASSUME NEW c \in Callers, Refused(c) PROVE Quiet
  BY <1>9 DEF Refused, Leave, SilentFails, GoOn, Return, Goto
<1>10. ASSUME NEW c \in Callers, StoreUnread(c) PROVE Quiet
  BY <1>10 DEF StoreUnread, Leave, SilentFails, GoOn, Return, Goto
<1>11. ASSUME NEW c \in Callers, Release(c) PROVE Quiet
  BY <1>11 DEF Release, SilentFails, GoOn, Return, Goto
<1>12. ASSUME NEW t \in Tokens, GrowOld(t) PROVE Quiet
  BY <1>12 DEF GrowOld
<1>13. QED
  BY <1>1, <1>2, <1>3, <1>4, <1>5, <1>6, <1>7, <1>8, <1>9, <1>10, <1>11, <1>12 DEF QuietStep

(* The four steps that are not quiet, each by the parts of Serials.        *)
LEMMA GrantedKeepsSerials ==
    ASSUME Typed, Typed', Serials, NEW c \in Callers, Granted(c)
    PROVE  Serials'
<1> USE MaxTokensAssumption
    DEF Granted, Goto, cacheVars, Typed, TypeOK, Tokens, NoToken, Slot, Serials
<1>1. issued + 1 \notin {cache[s] : s \in Slots} \cup {seen[d] : d \in Callers}
  BY DEF Issued
<1>2. \A k \in Tenants : issued + 1 \notin retired[k]
  BY DEF Issued
<1>3. \A d \in Callers : d # c /\ pc[d] = "store" => got[d] # issued + 1
  BY DEF Issued
<1>4. GotIsFresh'
  BY <1>1, <1>2, <1>3 DEF GotIsFresh
<1>5. Issued'
  BY DEF Issued
<1>6. OneSlot' /\ RetiredNotCached'
  BY DEF OneSlot, RetiredNotCached
<1>7. QED
  BY <1>4, <1>5, <1>6

LEMMA StoreKeepsSerials ==
    ASSUME Typed, Typed', Serials, NEW c \in Callers, Store(c)
    PROVE  Serials'
<1>0. Return(c, got[c]) \/ Leave(c, got[c])
  BY DEF Store
<1>1. /\ pc[c] = "store" /\ Slot(c) \in Slots /\ got[c] \in Tokens
      /\ cache' = [cache EXCEPT ![Slot(c)] = got[c]]
      /\ issued' = issued
  BY DEF Store, Slot, Typed, TypeOK, Arguments
<1>2. \A d \in Callers : pc'[d] = "store" =>
        d # c /\ pc[d] = "store" /\ got'[d] = got[d]
  BY <1>0 DEF Leave, Return, Goto, Typed, TypeOK
<1>3. \A d \in Callers : \/ seen'[d] = NoToken
                         \/ seen'[d] = seen[d] /\ Slot(d)' = Slot(d)
  <2>1. CASE Return(c, got[c])
    BY <2>1 DEF Return, Slot, Typed, TypeOK
  <2>2. CASE Leave(c, got[c])
    BY <2>2 DEF Leave, Slot
  <2>3. QED
    BY <1>0, <2>1, <2>2
<1>4. \A k \in Tenants :
        \/ retired'[k] = retired[k]
        \/ retired'[k] = retired[k] \cup {seen[c]} /\ seen[c] \in Tokens
  BY DEF Store, SeenSomething, Refreshing, Typed, TypeOK
<1>5. GotIsFresh'
  <2> SUFFICES ASSUME NEW d \in Callers, pc'[d] = "store"
               PROVE  /\ \A s \in Slots : cache'[s] # got'[d]
                      /\ \A e \in Callers : seen'[e] # got'[d]
                      /\ \A e \in Callers :
                            e # d /\ pc'[e] = "store" => got'[e] # got'[d]
                      /\ \A k \in Tenants : got'[d] \notin retired'[k]
    BY DEF GotIsFresh
  <2>1. d # c /\ pc[d] = "store" /\ got'[d] = got[d] /\ got[d] \in Tokens
    BY <1>2 DEF Typed, TypeOK
  <2>2. \A s \in Slots : cache'[s] # got[d]
    BY <1>1, <2>1 DEF Serials, GotIsFresh, Typed, TypeOK
  <2>3. \A e \in Callers : seen'[e] # got[d]
    BY <1>3, <2>1 DEF Serials, GotIsFresh, Tokens, NoToken
  <2>4. \A e \in Callers : e # d /\ pc'[e] = "store" => got'[e] # got[d]
    BY <1>2, <2>1 DEF Serials, GotIsFresh
  <2>5. \A k \in Tenants : got[d] \notin retired'[k]
    BY <1>4, <2>1 DEF Serials, GotIsFresh
  <2>6. QED
    BY <2>1, <2>2, <2>3, <2>4, <2>5
<1>6. Issued'
  <2> USE DEF Serials, Issued
  <2>1. \A s \in Slots : cache'[s] <= issued
    BY <1>1 DEF Typed, TypeOK
  <2>2. \A d \in Callers : seen'[d] <= issued
    <3>1. 0 <= issued
      BY MaxTokensAssumption DEF Typed, TypeOK
    <3>2. QED
      BY <1>3, <3>1 DEF NoToken
  <2>3. \A d \in Callers : pc'[d] = "store" => got'[d] <= issued
    BY <1>2
  <2>4. \A k \in Tenants : \A t \in retired'[k] : t <= issued
    BY <1>4
  <2>5. QED
    BY <1>1, <2>1, <2>2, <2>3, <2>4
<1>7. OneSlot'
  <2>1. \A s, r \in Slots :
          cache'[s] = cache'[r] /\ cache'[s] # NoToken => s = r
    BY <1>1 DEF Serials, OneSlot, GotIsFresh, Typed, TypeOK
  <2>2. \A d \in Callers, s \in Slots :
          cache'[s] = seen'[d] /\ seen'[d] # NoToken => s = Slot(d)'
    BY <1>1, <1>3 DEF Serials, OneSlot, GotIsFresh, Typed, TypeOK
  <2>3. QED
    BY <2>1, <2>2 DEF OneSlot
<1>8. RetiredNotCached'
  <2> SUFFICES ASSUME NEW s \in Slots, NEW k \in Tenants
               PROVE  cache'[s] \notin retired'[k]
    BY DEF RetiredNotCached
  <2>1. CASE s = Slot(c)
    BY <1>1, <1>4, <2>1 DEF Serials, GotIsFresh, Typed, TypeOK
  <2>2. CASE s # Slot(c)
    <3>1. cache'[s] = cache[s] /\ cache[s] \notin retired[k]
      BY <1>1, <2>2 DEF Serials, RetiredNotCached, Typed, TypeOK
    <3>2. seen[c] \in Tokens => cache[s] # seen[c]
      BY <2>2 DEF Serials, OneSlot, Tokens, NoToken
    <3>3. QED
      BY <1>4, <3>1, <3>2
  <2>3. QED
    BY <2>1, <2>2
<1>9. QED
  BY <1>5, <1>6, <1>7, <1>8 DEF Serials

LEMMA SignInKeepsSerials ==
    ASSUME Typed, Typed', Serials, NEW s \in Slots, SignIn(s)
    PROVE  Serials'
<1>1. /\ issued \in Nat /\ issued' = issued + 1
      /\ cache' = cache \/ cache' = [cache EXCEPT ![s] = issued + 1]
      /\ UNCHANGED <<pc, call, seen, got, retired>>
  BY MaxTokensAssumption DEF SignIn, Typed, TypeOK
<1>2. /\ cache \in [Slots -> Nat] /\ seen \in [Callers -> Nat]
      /\ got \in [Callers -> Nat] /\ retired \in [Tenants -> SUBSET Nat]
  BY MaxTokensAssumption DEF Typed, TypeOK, Tokens, NoToken
<1>3. GotIsFresh'
  BY <1>1, <1>2 DEF Serials, GotIsFresh, Issued
<1>4. Issued'
  BY <1>1, <1>2 DEF Serials, Issued
<1>5. OneSlot'
  BY <1>1, <1>2 DEF Serials, OneSlot, Issued, Slot
<1>6. RetiredNotCached'
  BY <1>1, <1>2 DEF Serials, RetiredNotCached, Issued
<1>7. QED
  BY <1>3, <1>4, <1>5, <1>6 DEF Serials

LEMMA RemoveAccountKeepsSerials ==
    ASSUME Typed, Typed', Serials, RemoveAccount
    PROVE  Serials'
<1> USE MaxTokensAssumption
    DEF RemoveAccount, Typed, TypeOK, Tokens, NoToken, Slot, Serials
<1>1. GotIsFresh'
  BY DEF GotIsFresh
<1>2. Issued'
  BY DEF Issued
<1>3. OneSlot'
  BY DEF OneSlot
<1>4. RetiredNotCached'
  BY DEF RetiredNotCached
<1>5. QED
  BY <1>1, <1>2, <1>3, <1>4

LEMMA SerialsStep == Typed /\ Typed' /\ Serials /\ [Next]_vars => Serials'
<1> SUFFICES ASSUME Typed, Typed', Serials, [Next]_vars PROVE Serials'
  OBVIOUS
<1>1. CASE QuietStep
  BY <1>1, QuietSteps, QuietKeepsSerials
<1>2. CASE \E c \in Callers : Granted(c)
  BY <1>2, GrantedKeepsSerials
<1>3. CASE \E c \in Callers : Store(c)
  BY <1>3, StoreKeepsSerials
<1>4. CASE \E s \in Slots : SignIn(s)
  BY <1>4, SignInKeepsSerials
<1>5. CASE RemoveAccount
  BY <1>5, RemoveAccountKeepsSerials
<1>6. CASE UNCHANGED vars
  <2>1. Quiet
    BY <1>6 DEF vars, Quiet, Slot
  <2>2. QED
    BY <2>1, QuietKeepsSerials
<1>7. QED
  BY <1>1, <1>2, <1>3, <1>4, <1>5, <1>6
     DEF Next, LocalStep, Answer, QuietStep

-----------------------------------------------------------------------------
(* Every step of the goroutines is a step of RefreshLease.                 *)

(* The refinement mapping, as SilentRefresh instantiates it.               *)
LeaseOf(k) == {<<c, seen[c]>> : c \in {d \in Callers : Refreshing(d) /\ Tenant(d) = k}}

(* A refresher is the only one of its tenant string.                       *)
LEMMA SoleRefresher ==
    ASSUME Typed, FlagHeldByOne, NEW c \in Callers, HoldsFlag(c)
    PROVE  /\ Tenant(c) \in Tenants
           /\ \A d \in Callers :
                HoldsFlag(d) /\ Tenant(d) = Tenant(c) => d = c
           /\ LeaseOf(Tenant(c)) = IF Refreshing(c) THEN {<<c, seen[c]>>} ELSE {}
<1>1. Tenant(c) \in Tenants
  BY DEF HoldsFlag, Tenant, Typed, Arguments
<1>2. \A d \in Callers : HoldsFlag(d) /\ Tenant(d) = Tenant(c) => d = c
  BY <1>1 DEF FlagHeldByOne
<1>3. \A d \in Callers : Refreshing(d) => HoldsFlag(d)
  BY DEF Refreshing, HoldsFlag
<1>4. LeaseOf(Tenant(c)) = IF Refreshing(c) THEN {<<c, seen[c]>>} ELSE {}
  BY <1>2, <1>3 DEF LeaseOf
<1>5. QED
  BY <1>1, <1>2, <1>4

(* A step in which nobody starts or stops refreshing, and nothing retires. *)
SameRefreshers ==
    /\ retired' = retired
    /\ \A c \in Callers :
        /\ Refreshing(c)' <=> Refreshing(c)
        /\ Refreshing(c) => Tenant(c)' = Tenant(c) /\ seen'[c] = seen[c]

LEMMA SameRefreshersStutter ==
    SameRefreshers => UNCHANGED Lease!leaseVars
<1> SUFFICES ASSUME SameRefreshers PROVE UNCHANGED Lease!leaseVars
  OBVIOUS
<1>1. \A k \in Tenants : LeaseOf(k)' = LeaseOf(k)
  BY DEF SameRefreshers, LeaseOf
<1>2. QED
  BY <1>1 DEF SameRefreshers, Lease!leaseVars, LeaseOf

(* A step of one goroutine leaves the leases of other tenants as they are. *)
LEMMA OtherLeases ==
    ASSUME NEW c \in Callers, NEW k \in Tenants, k # Tenant(c),
           Tenant(c)' = Tenant(c) \/ ~Refreshing(c)',
           \A d \in Callers : d # c =>
                /\ Refreshing(d)' <=> Refreshing(d)
                /\ Tenant(d)' = Tenant(d)
                /\ seen'[d] = seen[d]
    PROVE  LeaseOf(k)' = LeaseOf(k)
BY DEF LeaseOf

(* What the safety of a refresh rests on.                                  *)
SafeToRefresh == Typed /\ FlagHeldByOne /\ Serials

(* The goroutine that passed the second read takes the lease.              *)
LEMMA RecheckRefines ==
    ASSUME SafeToRefresh, NEW c \in Callers, Recheck(c)
    PROVE  [Lease!Next]_(Lease!leaseVars)
<1>1. HoldsFlag(c) /\ ~Refreshing(c)
  BY DEF Recheck, HoldsFlag, Refreshing
<1>2. PICK k \in Tenants : k = Tenant(c)
  BY <1>1, SoleRefresher DEF SafeToRefresh
<1>3. LeaseOf(k) = {}
  BY <1>1, <1>2, SoleRefresher DEF SafeToRefresh
<1>4. CASE ~StillSame(c)
  <2>1. SameRefreshers
    BY <1>4 DEF Recheck, SameRefreshers, Refreshing, Tenant, Leave, Goto,
                SafeToRefresh, Typed, TypeOK
  <2>2. QED
    BY <2>1, SameRefreshersStutter
<1>5. CASE StillSame(c)
  <2>1. /\ Refreshing(c)' /\ Tenant(c)' = k /\ seen'[c] = seen[c]
        /\ retired' = retired
        /\ \A d \in Callers : d # c =>
                /\ Refreshing(d)' <=> Refreshing(d)
                /\ Tenant(d)' = Tenant(d)
                /\ seen'[d] = seen[d]
    BY <1>2, <1>5 DEF Recheck, Refreshing, Tenant, GoOn, Goto, SafeToRefresh,
                      Typed, TypeOK
  <2>2. LeaseOf(k)' = {<<c, seen[c]>>}
    BY <1>3, <2>1 DEF LeaseOf
  <2>3. \A j \in Tenants : j # k => LeaseOf(j)' = LeaseOf(j)
    BY <1>2, <2>1, OtherLeases
  <2>4. PICK t \in Tokens : t = seen[c]
    BY DEF Recheck, SafeToRefresh, Typed, SeenSomething
  <2>5. t \notin retired[k]
    <3>1. Slot(c) \in Slots
      BY DEF Recheck, Slot, SafeToRefresh, Typed, Arguments
    <3>2. QED
      BY <1>2, <1>5, <2>4, <3>1
         DEF StillSame, SafeToRefresh, Serials, RetiredNotCached
  <2>6. Lease!Begin(c, k, t)
    <3>1. [j \in Tenants |-> LeaseOf(j)]' =
          [[j \in Tenants |-> LeaseOf(j)] EXCEPT ![k] = {<<c, seen[c]>>}]
      BY <1>2, <2>2, <2>3
    <3>2. QED
      BY <1>3, <2>1, <2>4, <2>5, <3>1 DEF Lease!Begin, LeaseOf
  <2>7. QED
    BY <1>2, <2>4, <2>6 DEF Lease!Next
<1>6. QED
  BY <1>4, <1>5

(* Leaving a refresh, with or without a token, frees the lease.            *)
LeavesRefresh(c) ==
    /\ Refreshing(c) /\ ~Refreshing(c)'
    /\ \A d \in Callers : d # c =>
            /\ Refreshing(d)' <=> Refreshing(d)
            /\ Tenant(d)' = Tenant(d)
            /\ seen'[d] = seen[d]

LEMMA LeavingFreesLease ==
    ASSUME SafeToRefresh, NEW c \in Callers, LeavesRefresh(c),
           NEW k \in Tenants, k = Tenant(c)
    PROVE  /\ LeaseOf(k) = {<<c, seen[c]>>}
           /\ [j \in Tenants |-> LeaseOf(j)]' =
              [[j \in Tenants |-> LeaseOf(j)] EXCEPT ![k] = {}]
<1>1. HoldsFlag(c)
  BY DEF LeavesRefresh, Refreshing, HoldsFlag
<1>2. LeaseOf(k) = {<<c, seen[c]>>}
  BY <1>1, SoleRefresher DEF SafeToRefresh, LeavesRefresh
<1>3. LeaseOf(k)' = {}
  <2>1. \A d \in Callers : Refreshing(d) /\ Tenant(d) = k => d = c
    BY <1>1, SoleRefresher DEF SafeToRefresh, Refreshing, HoldsFlag
  <2>2. \A d \in Callers : ~(Refreshing(d)' /\ Tenant(d)' = k)
    BY <2>1 DEF LeavesRefresh
  <2>3. QED
    BY <2>2 DEF LeaseOf
<1>4. \A j \in Tenants : j # k => LeaseOf(j)' = LeaseOf(j)
  BY OtherLeases DEF LeavesRefresh
<1>5. QED
  BY <1>2, <1>3, <1>4

LEMMA GiveUpRefines ==
    ASSUME SafeToRefresh, NEW c \in Callers, Refused(c) \/ StoreUnread(c)
    PROVE  [Lease!Next]_(Lease!leaseVars)
<1>1. CASE ~Refreshing(c)
  <2>1. SameRefreshers
    BY <1>1 DEF Refused, StoreUnread, SameRefreshers, Refreshing, Tenant, Leave,
                SilentFails, GoOn, Return, Goto, NoCall, SafeToRefresh, Typed,
                TypeOK
  <2>2. QED
    BY <2>1, SameRefreshersStutter
<1>2. CASE Refreshing(c)
  <2>1. \E t : Leave(c, t)
    BY <1>2 DEF Refused, StoreUnread, Refreshing
  <2>2. LeavesRefresh(c)
    BY <1>2, <2>1 DEF LeavesRefresh, Leave, Goto, Refreshing, Tenant, SafeToRefresh,
                      Typed, TypeOK
  <2>3. PICK k \in Tenants : k = Tenant(c)
    BY <1>2, SoleRefresher DEF SafeToRefresh, Refreshing, HoldsFlag
  <2>4. retired' = retired
    BY DEF Refused, StoreUnread
  <2>5. Lease!GiveUp(k)
    BY <2>2, <2>3, <2>4, LeavingFreesLease DEF Lease!GiveUp, LeaseOf
  <2>6. QED
    BY <2>5 DEF Lease!Next
<1>3. QED
  BY <1>1, <1>2

LEMMA StoreRefines ==
    ASSUME SafeToRefresh, NEW c \in Callers, Store(c)
    PROVE  [Lease!Next]_(Lease!leaseVars)
<1>1. CASE ~Refreshing(c)
  <2>1. SameRefreshers
    BY <1>1 DEF Store, SameRefreshers, Refreshing, Tenant, Return, Goto, NoCall,
                SafeToRefresh, Typed, TypeOK
  <2>2. QED
    BY <2>1, SameRefreshersStutter
<1>2. CASE Refreshing(c)
  <2>1. /\ Leave(c, got[c])
        /\ retired' = [retired EXCEPT ![Tenant(c)] = @ \cup {seen[c]}]
    BY <1>2 DEF Store, Refreshing
  <2>2. LeavesRefresh(c)
    BY <1>2, <2>1 DEF LeavesRefresh, Leave, Goto, Refreshing, Tenant, SafeToRefresh,
                      Typed, TypeOK
  <2>3. PICK k \in Tenants : k = Tenant(c)
    BY <1>2, SoleRefresher DEF SafeToRefresh, Refreshing, HoldsFlag
  <2>4. PICK t \in Tokens : t = seen[c]
    BY <1>2 DEF SafeToRefresh, Typed, SeenSomething
  <2>5. Lease!Retire(c, k, t)
    BY <2>1, <2>2, <2>3, <2>4, LeavingFreesLease DEF Lease!Retire, LeaseOf
  <2>6. QED
    BY <2>5 DEF Lease!Next
<1>3. QED
  BY <1>1, <1>2

LEMMA LeaseStep ==
    ASSUME SafeToRefresh, [Next]_vars
    PROVE  [Lease!Next]_(Lease!leaseVars)
<1> USE DEF SafeToRefresh, Typed, TypeOK
<1>1. ASSUME NEW c \in Callers, NEW k \in Tenants, NEW s \in Slots,
             NEW claims \in BOOLEAN, Start(c, k, s, claims)
      PROVE  SameRefreshers
  BY <1>1 DEF SameRefreshers, Refreshing, Tenant, Start, Goto
<1>2. ASSUME NEW c \in Callers, ServeCached(c) PROVE SameRefreshers
  BY <1>2 DEF SameRefreshers, Refreshing, Tenant, ServeCached, Read, Return, Goto
<1>3. ASSUME NEW c \in Callers, FindDue(c) PROVE SameRefreshers
  BY <1>3 DEF SameRefreshers, Refreshing, Tenant, FindDue, Read, GoOn, Goto
<1>4. ASSUME NEW c \in Callers, FindRefreshToken(c) PROVE SameRefreshers
  BY <1>4 DEF SameRefreshers, Refreshing, Tenant, FindRefreshToken, Read, GoOn, Goto
<1>5. ASSUME NEW c \in Callers, FindNothing(c) PROVE SameRefreshers
  BY <1>5 DEF SameRefreshers, Refreshing, Tenant, FindNothing, Read, SilentFails, GoOn, Return, Goto
<1>6. ASSUME NEW c \in Callers, ClaimFlag(c) PROVE SameRefreshers
  BY <1>6 DEF SameRefreshers, Refreshing, Tenant, ClaimFlag, Move, Goto
<1>7. ASSUME NEW c \in Callers, LoseFlag(c) PROVE SameRefreshers
  BY <1>7 DEF SameRefreshers, Refreshing, Tenant, LoseFlag, Return, Goto
<1>8. ASSUME NEW c \in Callers, Granted(c) PROVE SameRefreshers
  BY <1>8 DEF SameRefreshers, Refreshing, Tenant, Granted, Goto
<1>9. ASSUME NEW c \in Callers, Release(c) PROVE SameRefreshers
  BY <1>9 DEF SameRefreshers, Refreshing, Tenant, Release, SilentFails, GoOn, Return, Goto, NoToken
<1>10. ASSUME NEW s \in Slots, SignIn(s) PROVE SameRefreshers
  BY <1>10 DEF SameRefreshers, Refreshing, Tenant, SignIn
<1>11. ASSUME RemoveAccount PROVE SameRefreshers
  BY <1>11 DEF SameRefreshers, Refreshing, Tenant, RemoveAccount
<1>12. ASSUME NEW t \in Tokens, GrowOld(t) PROVE SameRefreshers
  BY <1>12 DEF SameRefreshers, Refreshing, Tenant, GrowOld
<1>13. ASSUME UNCHANGED vars PROVE SameRefreshers
  BY <1>13 DEF SameRefreshers, Refreshing, Tenant, vars
<1>14. QED
  BY <1>1, <1>2, <1>3, <1>4, <1>5, <1>6, <1>7, <1>8, <1>9, <1>10, <1>11, <1>12, <1>13,
     SameRefreshersStutter, RecheckRefines, GiveUpRefines, StoreRefines
     DEF Next, LocalStep, Answer


-----------------------------------------------------------------------------
(* The theorems.                                                           *)

(* NeverRefreshedTwice, said of the leases.                                *)
LeasedNotRetired ==
    \A k \in Tenants, c \in Callers, t \in Tokens :
        <<c, t>> \in LeaseOf(k) => t \notin retired[k]

LEMMA LeasesOfTenants == Typed => (NeverRefreshedTwice <=> LeasedNotRetired)
<1> SUFFICES ASSUME Typed PROVE NeverRefreshedTwice <=> LeasedNotRetired
  OBVIOUS
<1>1. ASSUME NEW c \in Callers, Refreshing(c)
      PROVE  Tenant(c) \in Tenants /\ seen[c] \in Tokens
  BY <1>1 DEF Refreshing, Tenant, Typed, Arguments, SeenSomething
<1>2. \A k \in Tenants, c \in Callers, t \in Tokens :
        <<c, t>> \in LeaseOf(k) <=> Refreshing(c) /\ Tenant(c) = k /\ t = seen[c]
  BY DEF LeaseOf
<1>3. QED
  BY <1>1, <1>2 DEF NeverRefreshedTwice, LeasedNotRetired

(* An abstract step never leases a retired token nor retires a leased one. *)
LEMMA LeasedStep ==
    ASSUME Typed, LeasedNotRetired, [Lease!Next]_(Lease!leaseVars)
    PROVE  LeasedNotRetired'
<1> DEFINE L == [k \in Tenants |-> LeaseOf(k)]
<1>1. \A k \in Tenants : LeaseOf(k) = L[k] /\ LeaseOf(k)' = L'[k]
  OBVIOUS
<1>2. UNCHANGED Lease!leaseVars <=> L' = L /\ retired' = retired
  BY DEF Lease!leaseVars, LeaseOf
<1>3. CASE UNCHANGED Lease!leaseVars
  BY <1>1, <1>2, <1>3 DEF LeasedNotRetired
<1>4. ASSUME NEW k \in Tenants, Lease!GiveUp(k) PROVE LeasedNotRetired'
  <2>1. L' = [L EXCEPT ![k] = {}] /\ retired' = retired
    BY <1>4 DEF Lease!GiveUp, LeaseOf
  <2>2. QED
    BY <1>1, <2>1 DEF LeasedNotRetired
<1>5. ASSUME NEW k \in Tenants, NEW c \in Callers, NEW t \in Tokens,
             Lease!Begin(c, k, t)
      PROVE  LeasedNotRetired'
  <2>1. /\ L' = [L EXCEPT ![k] = {<<c, t>>}]
        /\ t \notin retired[k] /\ retired' = retired
    BY <1>5 DEF Lease!Begin, LeaseOf
  <2>2. SUFFICES ASSUME NEW j \in Tenants, NEW d \in Callers, NEW u \in Tokens,
                        <<d, u>> \in L'[j]
                 PROVE  u \notin retired[j]
    BY <1>1, <2>1 DEF LeasedNotRetired
  <2>3. CASE j = k
    BY <2>1, <2>2, <2>3
  <2>4. CASE j # k
    BY <1>1, <2>1, <2>2, <2>4 DEF LeasedNotRetired
  <2>5. QED
    BY <2>3, <2>4
<1>6. ASSUME NEW k \in Tenants, NEW c \in Callers, NEW t \in Tokens,
             Lease!Retire(c, k, t)
      PROVE  LeasedNotRetired'
  <2>1. /\ L' = [L EXCEPT ![k] = {}]
        /\ retired' = [retired EXCEPT ![k] = @ \cup {t}]
    BY <1>6 DEF Lease!Retire, LeaseOf
  <2>2. \A j \in Tenants : j # k => L'[j] = L[j] /\ retired'[j] = retired[j]
    BY <2>1 DEF Typed, TypeOK
  <2>3. QED
    BY <1>1, <2>1, <2>2 DEF LeasedNotRetired
<1>7. QED
  BY <1>3, <1>4, <1>5, <1>6 DEF Lease!Next

(* The inductive invariant.                                                *)
IInv == SafeToRefresh /\ NeverRefreshedTwice

LEMMA InitIInv == Init => IInv
<1>1. Init => NeverRefreshedTwice
  BY DEF Init, NeverRefreshedTwice, Refreshing
<1>2. QED
  BY <1>1, InitTyped, InitFlag, InitSerials DEF IInv, SafeToRefresh

LEMMA StepIInv == IInv /\ [Next]_vars => IInv'
<1> SUFFICES ASSUME IInv, [Next]_vars PROVE IInv'
  OBVIOUS
<1>1. Typed'
  BY TypedStep DEF IInv, SafeToRefresh
<1>2. FlagHeldByOne'
  BY FlagStep DEF IInv, SafeToRefresh
<1>3. Serials'
  BY <1>1, SerialsStep DEF IInv, SafeToRefresh
<1>4. LeasedNotRetired'
  BY LeaseStep, LeasedStep, LeasesOfTenants DEF IInv, SafeToRefresh
<1>5. NeverRefreshedTwice'
  <2>1. Typed' => (NeverRefreshedTwice' <=> LeasedNotRetired')
    BY LeasesOfTenants, PTL
  <2>2. QED
    BY <1>1, <1>4, <2>1
<1>6. QED
  BY <1>1, <1>2, <1>3, <1>5 DEF IInv, SafeToRefresh

(* No goroutine asks the service to replace a token which an earlier       *)
(* refresh for its tenant string replaced, whatever the other flows,       *)
(* sign-ins and RemoveAccount do to the cache in between.                  *)
THEOREM RefreshedOnce == Spec => []NeverRefreshedTwice
<1>1. IInv => NeverRefreshedTwice
  BY DEF IInv
<1>2. QED
  BY InitIInv, StepIInv, <1>1, PTL DEF Spec

(* The goroutines implement RefreshLease.                                  *)
THEOREM LeaseImplemented == Spec => ImplementsLease
<1>1. Init => Lease!Init
  <2> SUFFICES ASSUME Init PROVE Lease!Init
    OBVIOUS
  <2>1. \A k \in Tenants : LeaseOf(k) = {}
    BY DEF Init, LeaseOf, Refreshing
  <2>2. QED
    BY <2>1 DEF Init, Lease!Init, LeaseOf
<1>2. IInv /\ [Next]_vars => [Lease!Next]_(Lease!leaseVars)
  BY LeaseStep DEF IInv
<1>3. QED
  BY InitIInv, StepIInv, <1>1, <1>2, PTL DEF Spec, ImplementsLease, Lease!Spec
=============================================================================
