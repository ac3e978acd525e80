------------------------- MODULE ExternalCacheProofs -------------------------
(***************************************************************************)
(* Proofs about ExternalCache, for every set of goroutines, every number   *)
(* of tokens and crashes, and, where OneFile is not assumed, every way to  *)
(* partition the store.                                                    *)
(*                                                                         *)
(* All of them rest on the lock: while a goroutine is past Drained, nobody *)
(* else changes the store or reads it (Exclusive), so that what it loaded  *)
(* is still what is stored when it exports (LoadedInv).  What StoredIsFound*)
(* and ForgottenStaysForgotten need besides is where the tokens of a slot  *)
(* can be (IsAt): a step copies them within the slot's places only.        *)
(***************************************************************************)
EXTENDS ExternalCache, TLAPS

Reading == {"rfetch", "rload"}
Writing == {"wfetch", "wload", "write", "export"}

(* A goroutine in a call has arguments, and between calls nothing else.    *)
Arguments ==
    \A c \in Callers :
        /\ pc[c] = "idle" => got[c] = NoToken /\ seen[c] = NoToken
        /\ pc[c] # "idle" =>
            /\ call[c] \in [op : Ops, slot : Slots]
            /\ Op(c) # "acquire" => Slot(c) = "user"

(* Who gets how far.                                                       *)
OpsWhere ==
    \A c \in Callers :
        /\ pc[c] \in {"rlock", "rfetch", "rload"} => Op(c) \in {"acquire", "accounts", "account"}
        /\ pc[c] = "read" => Op(c) = "acquire"
        /\ pc[c] = "ask" => Op(c) \in {"acquire", "signin"}
        /\ pc[c] \in {"lock", "drain"} \cup Writing =>
            \/ Op(c) = "remove" /\ got[c] = NoToken
            \/ Op(c) \in {"acquire", "signin"} /\ got[c] \in Tokens

(* No reader is inside while a writer is.                                  *)
Exclusive == \A c \in Callers : pc[c] \in Writing => readers = {}

Typed == TypeOK /\ Arguments /\ OpsWhere /\ Exclusive

(* What a goroutine under the lock fetched is still in the store, and what *)
(* it then loaded still in memory, but for what it writes itself.          *)
LoadedInv ==
    \A c \in Callers :
        /\ pc[c] \in {"rload", "wload"} => blob[c] = store[Key(c)]
        /\ pc[c] \in {"write", "export"} /\ store[Key(c)] # Absent =>
            \A s \in ManagerSlots :
                \/ mem[s] = store[Key(c)][s]
                \/ pc[c] = "export" /\ s = Slot(c) /\ (Op(c) = "remove" \/ mem[s] = got[c])

(* The store is one file, as in the sample accessor.                       *)
OneFile == \A s \in ManagerSlots : KeyOf[s] = AccountsKey

(* Where a token of slot s can be.                                         *)
IsAt(s, t) ==
    \/ mem[s] = t
    \/ s \in ManagerSlots /\ exported[s] = t
    \/ \E k \in Keys : store[k] # Absent /\ s \in ManagerSlots /\ store[k][s] = t
    \/ \E c \in Callers : blob[c] # Absent /\ s \in ManagerSlots /\ blob[c][s] = t
    \/ \E c \in Callers : Slot(c) = s /\ (got[c] = t \/ seen[c] = t)
    \/ s = "user" /\ t \in removed

(* Tokens that are somewhere were issued, and keep to one slot.            *)
OneSlot ==
    /\ \A s \in Slots, t \in Tokens : IsAt(s, t) => t <= issued
    /\ \A s, r \in Slots, t \in Tokens : IsAt(s, t) /\ IsAt(r, t) => s = r

(* A token in flight is nobody else's, and was never exported.             *)
GotIsFresh ==
    \A c \in Callers : got[c] # NoToken =>
        /\ got[c] <= issued
        /\ got[c] \notin removed
        /\ \A s \in ManagerSlots : exported[s] # got[c]
        /\ \A d \in Callers : d # c => got[d] # got[c]

Serials == OneSlot /\ GotIsFresh

(* A forgotten token is neither in memory nor in the file.                 *)
ForgetInv ==
    /\ mem["user"] \notin removed
    /\ store[AccountsKey] # Absent => store[AccountsKey]["user"] \notin removed
    /\ \A c \in Callers :
        /\ pc[c] = "export" /\ Op(c) = "remove" => mem["user"] = NoToken
        /\ forgot[c] \subseteq removed
        /\ seen[c] \notin forgot[c]
        /\ result[c] \notin forgot[c]

(* The file keeps what a call found there.                                 *)
FoundInv ==
    \A c \in had :
        /\ pc[c] # "idle" /\ Slot(c) \in ManagerSlots
        /\ store[AccountsKey] # Absent /\ store[AccountsKey][Slot(c)] # NoToken
        /\ pc[c] = "read" => mem[Slot(c)] # NoToken
        /\ \A d \in Callers : pc[d] = "export" /\ Op(d) = "remove" => Slot(c) # "user"

-----------------------------------------------------------------------------
(* Type correctness and the lock.                                          *)

CallsTyped ==
    /\ pc \in [Callers -> Places]
    /\ call \in [Callers -> Calls]
    /\ silent \in [Callers -> BOOLEAN]
    /\ blob \in [Callers -> Snapshots \cup {Absent}]
    /\ seen \in [Callers -> Tokens \cup {NoToken}]
    /\ got \in [Callers -> Tokens \cup {NoToken}]
    /\ result \in [Callers -> Tokens \cup {NoToken}]
    /\ had \subseteq Callers
    /\ Arguments
    /\ OpsWhere

DataTyped ==
    /\ store \in [Keys -> Snapshots \cup {Absent}]
    /\ mem \in [Slots -> Tokens \cup {NoToken}]
    /\ issued \in 0..MaxTokens
    /\ restarts \in 0..MaxRestarts
    /\ exported \in [ManagerSlots -> Tokens \cup {NoToken}]
    /\ removed \subseteq Tokens
    /\ forgot \in [Callers -> SUBSET Tokens]

LockInv ==
    /\ writer \in Callers \cup {Nobody}
    /\ readers = {c \in Callers : pc[c] \in Reading}
    /\ \A c \in Callers : pc[c] \in {"drain"} \cup Writing <=> writer = c
    /\ Exclusive

LEMMA TypedParts == Typed <=> CallsTyped /\ DataTyped /\ LockInv
BY DEF Typed, TypeOK, CallsTyped, DataTyped, LockInv, Reading, Writing

LEMMA InitTyped == Init => Typed
<1> SUFFICES ASSUME Init PROVE Typed
  OBVIOUS
<1> USE DEF Init, NoToken, NoCall
<1>1. CallsTyped
  BY DEF CallsTyped, Arguments, OpsWhere, Writing, Places, Calls
<1>2. DataTyped
  BY BoundsAssumption DEF DataTyped
<1>3. LockInv
  BY NobodyAssumption DEF LockInv, Exclusive, Reading, Writing
<1>4. QED
  BY <1>1, <1>2, <1>3, TypedParts

(* The ways out of a place: back to the caller, or (a wrapper) on to the   *)
(* service.                                                                *)
GoesOn(c) ==
    /\ Op(c) = "acquire"
    /\ Goto(c, "ask")
    /\ silent' = [silent EXCEPT ![c] = FALSE]
    /\ blob' = [blob EXCEPT ![c] = Absent]
    /\ seen' = [seen EXCEPT ![c] = NoToken]
    /\ got' = [got EXCEPT ![c] = NoToken]
    /\ had' = had \ {c}
    /\ UNCHANGED <<call, result>>

LEMMA FailIsWayOut ==
    ASSUME Typed, NEW c \in Callers, pc[c] # "idle", Fail(c)
    PROVE  Return(c, NoToken) \/ GoesOn(c)
<1>1. CASE silent[c] /\ Slot(c) \in {"app", "obo"}
  <2>1. Op(c) = "acquire"
    BY <1>1 DEF Typed, Arguments
  <2>2. QED
    BY <1>1, <2>1 DEF Fail, GoesOn
<1>2. CASE ~(silent[c] /\ Slot(c) \in {"app", "obo"})
  BY <1>2 DEF Fail
<1>3. QED
  BY <1>1, <1>2

LEMMA ReturnTyped ==
    ASSUME CallsTyped, NEW c \in Callers, NEW t \in Tokens \cup {NoToken}, Return(c, t)
    PROVE  CallsTyped'
<1>1. NoCall \in Calls /\ Absent \in Snapshots \cup {Absent} /\ "idle" \in Places
  BY DEF Calls, Places
<1>2. pc' \in [Callers -> Places] /\ call' \in [Callers -> Calls]
  BY <1>1 DEF CallsTyped, Return, Goto
<1>3. Arguments'
  BY DEF CallsTyped, Return, Goto, Arguments, Op, Slot
<1>4. OpsWhere'
  BY DEF CallsTyped, Return, Goto, OpsWhere, Op, Writing
<1>5. QED
  BY <1>1, <1>2, <1>3, <1>4 DEF CallsTyped, Return

LEMMA GoesOnTyped ==
    ASSUME CallsTyped, NEW c \in Callers, pc[c] # "idle", GoesOn(c)
    PROVE  CallsTyped'
<1>1. pc' \in [Callers -> Places]
  BY DEF CallsTyped, GoesOn, Goto, Places
<1>2. Arguments'
  BY DEF CallsTyped, GoesOn, Goto, Arguments, Op, Slot
<1>3. OpsWhere'
  BY DEF CallsTyped, GoesOn, Goto, OpsWhere, Op, Writing
<1>4. QED
  BY <1>1, <1>2, <1>3 DEF CallsTyped, GoesOn

LEMMA FailTyped ==
    ASSUME Typed, NEW c \in Callers, pc[c] # "idle", Fail(c)
    PROVE  CallsTyped'
BY FailIsWayOut, TypedParts, ReturnTyped, GoesOnTyped

(* A step that only moves a goroutine.                                     *)
LEMMA MoveTyped ==
    ASSUME CallsTyped, NEW c \in Callers, pc[c] # "idle", NEW p \in Places, Goto(c, p),
           UNCHANGED <<call, silent, seen, got, result>>,
           blob' \in [Callers -> Snapshots \cup {Absent}], had' \subseteq Callers,
           p \in {"rlock", "rfetch", "rload"} => Op(c) \in {"acquire", "accounts", "account"},
           p = "read" => Op(c) = "acquire",
           p = "ask" => Op(c) \in {"acquire", "signin"},
           p \in {"lock", "drain"} \cup Writing =>
                \/ Op(c) = "remove" /\ got[c] = NoToken
                \/ Op(c) \in {"acquire", "signin"} /\ got[c] \in Tokens,
           p # "idle"
    PROVE  CallsTyped'
<1>1. pc' \in [Callers -> Places]
  BY DEF CallsTyped, Goto
<1>2. Arguments'
  BY DEF CallsTyped, Goto, Arguments, Op, Slot
<1>3. OpsWhere'
  BY DEF CallsTyped, Goto, OpsWhere, Op
<1>4. QED
  BY <1>1, <1>2, <1>3 DEF CallsTyped

LEMMA CallsStep == Typed /\ [Next]_vars => CallsTyped'
<1> SUFFICES ASSUME Typed, [Next]_vars PROVE CallsTyped'
  OBVIOUS
<1> USE DEF history, lockVars
<1>0. CallsTyped /\ DataTyped
  BY TypedParts
<1>1. ASSUME NEW c \in Callers, NEW op \in Ops, NEW s \in Slots, Start(c, op, s)
      PROVE  CallsTyped'
  <2>1. call' \in [Callers -> Calls] /\ pc' \in [Callers -> Places]
    BY <1>0, <1>1 DEF CallsTyped, Start, Goto, First, Calls, Places
  <2>2. Arguments'
    BY <1>0, <1>1 DEF CallsTyped, Start, Goto, First, Arguments, Op, Slot, Ops
  <2>3. OpsWhere'
    BY <1>0, <1>1 DEF CallsTyped, Start, Goto, First, Arguments, OpsWhere, Op, Writing, Ops
  <2>4. QED
    BY <1>0, <1>1, <2>1, <2>2, <2>3 DEF CallsTyped, Start
<1>2. ASSUME NEW c \in Callers, RLock(c) PROVE CallsTyped'
  BY <1>0, <1>2, MoveTyped DEF RLock, CallsTyped, OpsWhere, Places, Writing
<1>3. ASSUME NEW c \in Callers, pc[c] # "idle", call[c] \in [op : Ops, slot : Slots]
      PROVE  Key(c) \in Keys /\ store[Key(c)] \in Snapshots \cup {Absent}
  <2>1. Key(c) \in Keys
    BY <1>3, KeysAssumption, SlotsAssumption DEF Key, Op, Slot
  <2>2. QED
    BY <1>0, <2>1 DEF DataTyped
<1>4. ASSUME NEW c \in Callers, RFetch(c) PROVE CallsTyped'
  <2>1. pc[c] = "rfetch" /\ store[Key(c)] \in Snapshots \cup {Absent}
    BY <1>0, <1>3, <1>4 DEF RFetch, CallsTyped, Arguments
  <2>2. blob' \in [Callers -> Snapshots \cup {Absent}] /\ had' \subseteq Callers
    BY <1>0, <1>4, <2>1 DEF RFetch, CallsTyped
  <2>3. "rload" \in Places /\ Goto(c, "rload") /\ UNCHANGED <<call, silent, seen, got, result>>
    BY <1>4 DEF RFetch, Places
  <2>4. Op(c) \in {"acquire", "accounts", "account"}
    BY <1>0, <2>1 DEF CallsTyped, OpsWhere
  <2>5. QED
    BY <1>0, <2>1, <2>2, <2>3, <2>4, MoveTyped DEF Writing
<1>5. ASSUME NEW c \in Callers, RFail(c) PROVE CallsTyped'
  BY <1>5, FailTyped DEF RFail
<1>6. ASSUME NEW c \in Callers, RLoad(c) PROVE CallsTyped'
  <2>1. CASE Fail(c)
    BY <1>6, <2>1, FailTyped DEF RLoad
  <2>2. CASE Return(c, NoToken)
    BY <1>0, <2>2, ReturnTyped
  <2>3. CASE /\ Op(c) = "acquire" /\ Goto(c, "read")
             /\ UNCHANGED <<call, silent, blob, seen, got, result, had>>
    BY <1>0, <1>6, <2>3, MoveTyped DEF RLoad, CallsTyped, Places, Writing
  <2>4. QED
    BY <1>6, <2>1, <2>2, <2>3 DEF RLoad
<1>7. ASSUME NEW c \in Callers, pc[c] = "read" PROVE mem[Slot(c)] \in Tokens \cup {NoToken}
  BY <1>0, <1>7 DEF CallsTyped, DataTyped, Arguments, Slot
<1>8. ASSUME NEW c \in Callers, Serve(c) PROVE CallsTyped'
  BY <1>0, <1>7, <1>8, ReturnTyped DEF Serve
<1>9. ASSUME NEW c \in Callers, Replaceable(c) PROVE CallsTyped'
  <2>1. pc[c] = "read" /\ Op(c) = "acquire" /\ mem[Slot(c)] \in Tokens \cup {NoToken}
    BY <1>0, <1>7, <1>9 DEF Replaceable, CallsTyped, OpsWhere
  <2>2. Arguments'
    BY <1>0, <1>9, <2>1 DEF Replaceable, CallsTyped, Goto, Arguments, Op, Slot
  <2>3. OpsWhere'
    BY <1>0, <1>9, <2>1 DEF Replaceable, CallsTyped, Goto, OpsWhere, Op, Writing
  <2>4. QED
    BY <1>0, <1>9, <2>1, <2>2, <2>3 DEF Replaceable, CallsTyped, Goto, Places
<1>10. ASSUME NEW c \in Callers, Miss(c) PROVE CallsTyped'
  BY <1>10, FailTyped DEF Miss
<1>11. ASSUME NEW c \in Callers, Granted(c) PROVE CallsTyped'
  <2>1. issued + 1 \in Tokens /\ pc[c] = "ask" /\ Op(c) \in {"acquire", "signin"}
    BY <1>0, <1>11, BoundsAssumption DEF Granted, CallsTyped, DataTyped, OpsWhere, Tokens
  <2>2. Arguments'
    BY <1>0, <1>11, <2>1 DEF Granted, CallsTyped, Goto, Arguments, Op, Slot
  <2>3. OpsWhere'
    BY <1>0, <1>11, <2>1 DEF Granted, CallsTyped, Goto, OpsWhere, Op, Writing
  <2>4. QED
    BY <1>0, <1>11, <2>1, <2>2, <2>3 DEF Granted, CallsTyped, Goto, Places
<1>12. ASSUME NEW c \in Callers, Refused(c) PROVE CallsTyped'
  <2>1. pc[c] # "idle" /\ seen[c] \in Tokens \cup {NoToken}
    BY <1>0, <1>12 DEF Refused, CallsTyped
  <2>2. QED
    BY <1>0, <1>12, <2>1, FailTyped, ReturnTyped DEF Refused
<1>13. ASSUME NEW c \in Callers, Lock(c) \/ Drained(c) PROVE CallsTyped'
  <2>1. PICK p \in {"drain", "wfetch"} : Goto(c, p)
    BY <1>13 DEF Lock, Drained
  <2>2. pc[c] \in {"lock", "drain"} /\ UNCHANGED <<call, silent, blob, seen, got, result, had>>
    BY <1>13 DEF Lock, Drained
  <2>3. QED
    BY <1>0, <2>1, <2>2, MoveTyped DEF CallsTyped, OpsWhere, Places, Writing
<1>14. ASSUME NEW c \in Callers, WFetch(c) PROVE CallsTyped'
  <2>1. pc[c] = "wfetch" /\ store[Key(c)] \in Snapshots \cup {Absent}
    BY <1>0, <1>3, <1>14 DEF WFetch, CallsTyped, Arguments
  <2>2. blob' \in [Callers -> Snapshots \cup {Absent}] /\ had' \subseteq Callers
    BY <1>0, <1>14, <2>1 DEF WFetch, CallsTyped
  <2>3. "wload" \in Places /\ Goto(c, "wload") /\ UNCHANGED <<call, silent, seen, got, result>>
    BY <1>14 DEF WFetch, Places
  <2>4. QED
    BY <1>0, <2>1, <2>2, <2>3, MoveTyped DEF CallsTyped, OpsWhere, Writing
<1>15. ASSUME NEW c \in Callers, WFail(c) \/ WriteFail(c) PROVE CallsTyped'
  BY <1>15, FailTyped DEF WFail, WriteFail, Abort
<1>16. ASSUME NEW c \in Callers, WLoad(c) PROVE CallsTyped'
  <2>1. CASE Fail(c)
    BY <1>16, <2>1, FailTyped DEF WLoad
  <2>2. CASE Goto(c, "write") /\ UNCHANGED <<call, silent, blob, seen, got, result, had>>
    BY <1>0, <1>16, <2>2, MoveTyped DEF WLoad, CallsTyped, OpsWhere, Places, Writing
  <2>3. QED
    BY <1>16, <2>1, <2>2 DEF WLoad, Abort
<1>17. ASSUME NEW c \in Callers, Write(c) PROVE CallsTyped'
  <2>1. pc[c] = "write" /\ Goto(c, "export") /\ had' \subseteq Callers
    BY <1>0, <1>17 DEF Write, CallsTyped
  <2>2. QED
    BY <1>0, <1>17, <2>1, MoveTyped DEF Write, CallsTyped, OpsWhere, Places, Writing
<1>18. ASSUME NEW c \in Callers, Export(c) PROVE CallsTyped'
  <2>1. got[c] \in Tokens \cup {NoToken} /\ Return(c, got[c])
    BY <1>0, <1>18 DEF Export, CallsTyped
  <2>2. QED
    BY <1>0, <2>1, ReturnTyped
<1>19. CASE Restart
  BY <1>0, <1>19 DEF Restart, CallsTyped, Arguments, OpsWhere, Places, Writing
<1>20. CASE UNCHANGED vars
  BY <1>0, <1>20 DEF vars, CallsTyped, Arguments, OpsWhere, Op, Slot
<1>21. QED
  BY <1>1, <1>2, <1>4, <1>5, <1>6, <1>8, <1>9, <1>10, <1>11, <1>12, <1>13, <1>14, <1>15,
     <1>16, <1>17, <1>18, <1>19, <1>20 DEF Next, Step

LEMMA DataStep == Typed /\ [Next]_vars => DataTyped'
<1> SUFFICES ASSUME Typed, [Next]_vars PROVE DataTyped'
  OBVIOUS
<1> USE DEF history
<1>0. CallsTyped /\ DataTyped
  BY TypedParts
<1>1. ASSUME NEW c \in Callers, NEW op \in Ops, NEW s \in Slots, Start(c, op, s)
      PROVE  DataTyped'
  BY <1>0, <1>1 DEF DataTyped, Start
<1>2. ASSUME NEW c \in Callers,
             \/ RLock(c) \/ RFetch(c) \/ RFail(c) \/ Serve(c) \/ Replaceable(c) \/ Miss(c)
             \/ Refused(c) \/ Lock(c) \/ Drained(c) \/ WFetch(c) \/ WFail(c) \/ WriteFail(c)
      PROVE  DataTyped'
  <2>1. UNCHANGED <<store, mem, issued, restarts, exported, removed, forgot>>
    BY <1>2 DEF RLock, RFetch, RFail, Serve, Replaceable, Miss, Refused, Lock, Drained,
                WFetch, WFail, WriteFail, Abort
  <2>2. QED
    BY <1>0, <2>1 DEF DataTyped
<1>3. ASSUME NEW c \in Callers, RLoad(c) \/ WLoad(c) PROVE DataTyped'
  <2>1. blob[c] \in Snapshots \cup {Absent} /\ mem \in [Slots -> Tokens \cup {NoToken}]
    BY <1>0 DEF CallsTyped, DataTyped
  <2>2. Loaded(c) \in [Slots -> Tokens \cup {NoToken}]
    BY <2>1 DEF Loaded, Snapshots, ManagerSlots, Absent
  <2>3. mem' \in [Slots -> Tokens \cup {NoToken}]
    BY <1>3, <2>1, <2>2 DEF RLoad, WLoad
  <2>4. UNCHANGED <<store, issued, restarts, exported, removed, forgot>>
    BY <1>3 DEF RLoad, WLoad, Abort
  <2>5. QED
    BY <1>0, <2>3, <2>4 DEF DataTyped
<1>4. ASSUME NEW c \in Callers, Granted(c) PROVE DataTyped'
  BY <1>0, <1>4, BoundsAssumption DEF DataTyped, Granted
<1>5. ASSUME NEW c \in Callers, Write(c) PROVE DataTyped'
  <2>1. got[c] \in Tokens \cup {NoToken} /\ mem \in [Slots -> Tokens \cup {NoToken}]
    BY <1>0 DEF CallsTyped, DataTyped
  <2>2. mem' \in [Slots -> Tokens \cup {NoToken}]
    BY <1>5, <2>1 DEF Write
  <2>3. UNCHANGED <<store, issued, restarts, exported, removed, forgot>>
    BY <1>5 DEF Write
  <2>4. QED
    BY <1>0, <2>2, <2>3 DEF DataTyped
<1>6. ASSUME NEW c \in Callers, Export(c) PROVE DataTyped'
  <2>1. Snapshot \in Snapshots
    BY <1>0 DEF DataTyped, Snapshot, Snapshots, ManagerSlots
  <2>2. store' \in [Keys -> Snapshots \cup {Absent}]
    BY <1>0, <1>6, <2>1 DEF DataTyped, Export, ExportedStore
  <2>3. exported' \in [ManagerSlots -> Tokens \cup {NoToken}]
    BY <1>0, <1>6 DEF CallsTyped, DataTyped, Export
  <2>4. removed' \subseteq Tokens
    BY <1>0, <1>6, SlotsAssumption DEF DataTyped, Export, ManagerSlots
  <2>5. UNCHANGED <<mem, issued, restarts, forgot>>
    BY <1>6 DEF Export
  <2>6. QED
    BY <1>0, <2>2, <2>3, <2>4, <2>5 DEF DataTyped
<1>7. CASE Restart
  BY <1>0, <1>7, BoundsAssumption DEF DataTyped, Restart
<1>8. CASE UNCHANGED vars
  BY <1>0, <1>8 DEF vars, DataTyped
<1>9. QED
  BY <1>1, <1>2, <1>3, <1>4, <1>5, <1>6, <1>7, <1>8 DEF Next, Step

Holding == {"drain"} \cup Writing

(* How a step may move a goroutine through the lock: without touching it,  *)
(* out of the readers, or out of the writer's place.                       *)
LEMMA LockFrame ==
    ASSUME Typed, NEW c \in Callers, NEW p \in Places, Goto(c, p),
           \/ /\ UNCHANGED lockVars
              /\ pc[c] \in Reading <=> p \in Reading
              /\ pc[c] \in Holding <=> p \in Holding
              /\ p \in Writing => pc[c] \in Writing \/ readers = {}
           \/ /\ readers' = readers \ {c} /\ UNCHANGED writer
              /\ pc[c] \in Reading /\ p \notin Reading \cup Holding
           \/ /\ writer' = Nobody /\ UNCHANGED readers
              /\ pc[c] \in Holding /\ p \notin Reading \cup Holding
    PROVE  LockInv'
<1>0. CallsTyped /\ LockInv
  BY TypedParts
<1>1. pc' = [pc EXCEPT ![c] = p] /\ pc \in [Callers -> Places]
  BY <1>0 DEF Goto, CallsTyped
<1>2. readers' = {d \in Callers : pc'[d] \in Reading}
  BY <1>0, <1>1 DEF LockInv, lockVars, Reading, Holding, Writing
<1>3. /\ writer' \in Callers \cup {Nobody}
      /\ \A d \in Callers : pc'[d] \in Holding <=> writer' = d
  BY <1>0, <1>1, NobodyAssumption DEF LockInv, lockVars, Holding, Reading, Writing
<1>4. Exclusive'
  BY <1>0, <1>1 DEF LockInv, lockVars, Exclusive, Holding, Reading, Writing
<1>5. QED
  BY <1>2, <1>3, <1>4 DEF LockInv, Holding

LEMMA FailGoes ==
    ASSUME NEW c \in Callers, Fail(c) \/ \E t \in Tokens \cup {NoToken} : Return(c, t)
    PROVE  \E p \in {"idle", "ask"} : Goto(c, p)
<1>1. Goto(c, "idle") \/ Goto(c, "ask")
  BY DEF Fail, Return
<1>2. QED
  BY <1>1

LEMMA LockStep == Typed /\ [Next]_vars => LockInv'
<1> SUFFICES ASSUME Typed, [Next]_vars PROVE LockInv'
  OBVIOUS
<1> USE DEF Reading, Holding, Writing, Places
<1>0. CallsTyped /\ DataTyped /\ LockInv
  BY TypedParts
<1>1. ASSUME NEW c \in Callers, NEW op \in Ops, NEW s \in Slots, Start(c, op, s)
      PROVE  LockInv'
  BY <1>1, LockFrame DEF Start, First
<1>2. ASSUME NEW c \in Callers, RLock(c) PROVE LockInv'
  <2>1. pc' = [pc EXCEPT ![c] = "rfetch"] /\ pc \in [Callers -> Places] /\ pc[c] = "rlock"
    BY <1>0, <1>2 DEF RLock, Goto, CallsTyped
  <2>2. readers' = {d \in Callers : pc'[d] \in Reading}
    BY <1>0, <1>2, <2>1 DEF RLock, LockInv
  <2>3. \A d \in Callers : pc'[d] \notin Holding
    BY <1>0, <1>2, <2>1, NobodyAssumption DEF RLock, LockInv
  <2>4. QED
    BY <1>0, <1>2, <2>2, <2>3, NobodyAssumption DEF RLock, LockInv, Exclusive
<1>3. ASSUME NEW c \in Callers, RFetch(c) \/ WFetch(c) \/ Write(c) PROVE LockInv'
  BY <1>3, LockFrame DEF RFetch, WFetch, Write
<1>4. ASSUME NEW c \in Callers, RFail(c) PROVE LockInv'
  BY <1>4, LockFrame, FailGoes DEF RFail
<1>5. ASSUME NEW c \in Callers, RLoad(c) PROVE LockInv'
  <2>1. PICK p \in {"idle", "ask", "read"} : Goto(c, p)
    BY <1>5, FailGoes DEF RLoad
  <2>2. QED
    BY <1>5, <2>1, LockFrame DEF RLoad
<1>6. ASSUME NEW c \in Callers, Serve(c) \/ Miss(c) \/ Refused(c) PROVE LockInv'
  <2>1. PICK p \in {"idle", "ask"} : Goto(c, p)
    BY <1>6, FailGoes DEF Serve, Miss, Refused, Return
  <2>2. pc[c] \in {"read", "ask"} /\ UNCHANGED lockVars
    BY <1>6 DEF Serve, Miss, Refused
  <2>3. QED
    BY <2>1, <2>2, LockFrame
<1>7. ASSUME NEW c \in Callers, Replaceable(c) \/ Granted(c) PROVE LockInv'
  BY <1>7, LockFrame DEF Replaceable, Granted
<1>8. ASSUME NEW c \in Callers, Lock(c) PROVE LockInv'
  <2>1. pc' = [pc EXCEPT ![c] = "drain"] /\ pc \in [Callers -> Places] /\ pc[c] = "lock"
    BY <1>0, <1>8 DEF Lock, Goto, CallsTyped
  <2>2. readers' = {d \in Callers : pc'[d] \in Reading}
    BY <1>0, <1>8, <2>1 DEF Lock, LockInv
  <2>3. \A d \in Callers : pc'[d] \in Holding <=> writer' = d
    BY <1>0, <1>8, <2>1, NobodyAssumption DEF Lock, LockInv
  <2>4. \A d \in Callers : pc'[d] \notin Writing
    BY <1>0, <1>8, <2>1, NobodyAssumption DEF Lock, LockInv
  <2>5. QED
    BY <1>0, <1>8, <2>2, <2>3, <2>4 DEF Lock, LockInv, Exclusive
<1>9. ASSUME NEW c \in Callers, Drained(c) PROVE LockInv'
  BY <1>9, LockFrame DEF Drained
<1>10. ASSUME NEW c \in Callers, WFail(c) \/ WriteFail(c) PROVE LockInv'
  <2>1. PICK p \in {"idle", "ask"} : Goto(c, p)
    BY <1>10, FailGoes DEF WFail, WriteFail, Abort
  <2>2. QED
    BY <1>10, <2>1, LockFrame DEF WFail, WriteFail, Abort
<1>11. ASSUME NEW c \in Callers, WLoad(c) PROVE LockInv'
  <2>1. CASE Abort(c)
    <3>1. PICK p \in {"idle", "ask"} : Goto(c, p)
      BY <2>1, FailGoes DEF Abort
    <3>2. QED
      BY <1>11, <2>1, <3>1, LockFrame DEF WLoad, Abort
  <2>2. CASE Goto(c, "write") /\ UNCHANGED lockVars
    BY <1>11, <2>2, LockFrame DEF WLoad
  <2>3. QED
    BY <1>11, <2>1, <2>2 DEF WLoad
<1>12. ASSUME NEW c \in Callers, Export(c) PROVE LockInv'
  BY <1>12, LockFrame DEF Export, Return
<1>13. CASE Restart
  BY <1>13, NobodyAssumption DEF Restart, LockInv, Exclusive
<1>14. CASE UNCHANGED vars
  BY <1>0, <1>14 DEF vars, lockVars, LockInv, Exclusive
<1>15. QED
  BY <1>1, <1>2, <1>3, <1>4, <1>5, <1>6, <1>7, <1>8, <1>9, <1>10, <1>11, <1>12, <1>13,
     <1>14 DEF Next, Step

LEMMA TypedStep == Typed /\ [Next]_vars => Typed'
<1>1. (CallsTyped /\ DataTyped /\ LockInv)' => Typed'
  BY DEF Typed, TypeOK, CallsTyped, DataTyped, LockInv, Reading, Writing
<1>2. QED
  BY <1>1, CallsStep, DataStep, LockStep

LEMMA TypedAlways == Spec => []Typed
BY InitTyped, TypedStep, PTL DEF Spec

(* Type correctness, and who is where cacheAccessorMu is held (shared      *)
(* around Replace in a read, exclusively from Replace to Export in a       *)
(* write) is who holds it, on every path out of base.go's calls.           *)
THEOREM TypeCorrect == Spec => []TypeOK
BY TypedAlways, PTL DEF Typed

-----------------------------------------------------------------------------
(* No update is lost.                                                      *)

(* What a goroutine does in one step.                                      *)
Act(c) ==
    \/ \E op \in Ops, s \in Slots : Start(c, op, s)
    \/ RLock(c) \/ Lock(c) \/ Step(c)

(* It changes nothing of the others' calls.                                *)
OthersStay(c) ==
    \A d \in Callers \ {c} :
        /\ pc'[d] = pc[d] /\ call'[d] = call[d] /\ blob'[d] = blob[d]
        /\ seen'[d] = seen[d] /\ got'[d] = got[d] /\ result'[d] = result[d]
        /\ forgot'[d] = forgot[d]

LEMMA FailIsOwn ==
    ASSUME Typed, NEW c \in Callers, UNCHANGED forgot,
           Fail(c) \/ \E t \in Tokens \cup {NoToken} : Return(c, t)
    PROVE  OthersStay(c)
<1>1. CallsTyped /\ DataTyped
  BY TypedParts
<1>2. CASE silent[c] /\ Slot(c) \in {"app", "obo"} /\ Fail(c)
  BY <1>1, <1>2 DEF CallsTyped, Fail, Goto, OthersStay
<1>3. CASE \E t \in Tokens \cup {NoToken} : Return(c, t)
  BY <1>1, <1>3 DEF CallsTyped, Return, Goto, OthersStay
<1>4. NoToken \in Tokens \cup {NoToken}
  OBVIOUS
<1>5. CASE ~(silent[c] /\ Slot(c) \in {"app", "obo"}) /\ Fail(c)
  BY <1>3, <1>4, <1>5 DEF Fail
<1>6. QED
  BY <1>2, <1>3, <1>5

LEMMA ActIsOwn ==
    ASSUME Typed, NEW c \in Callers, Act(c)
    PROVE  OthersStay(c)
<1> USE DEF history
<1>0. CallsTyped /\ DataTyped
  BY TypedParts
<1>1. ASSUME NEW op \in Ops, NEW s \in Slots, Start(c, op, s) PROVE OthersStay(c)
  BY <1>0, <1>1 DEF CallsTyped, DataTyped, Start, Goto, OthersStay
<1>2. CASE \/ RLock(c) \/ RFetch(c) \/ Replaceable(c) \/ Granted(c) \/ Lock(c)
           \/ Drained(c) \/ WFetch(c) \/ Write(c)
  BY <1>0, <1>2 DEF CallsTyped, RLock, RFetch, Replaceable, Granted, Lock, Drained, WFetch,
                    Write, Goto, OthersStay
<1>3. CASE RFail(c) \/ Miss(c) \/ WFail(c) \/ WriteFail(c)
  BY <1>3, FailIsOwn DEF RFail, Miss, WFail, WriteFail, Abort
<1>4. CASE Serve(c)
  <2>1. mem[Slot(c)] \in Tokens \cup {NoToken}
    BY <1>0, <1>4 DEF CallsTyped, DataTyped, Arguments, Slot, Serve
  <2>2. QED
    BY <1>4, <2>1, FailIsOwn DEF Serve
<1>5. CASE Refused(c)
  <2>1. seen[c] \in Tokens \cup {NoToken}
    BY <1>0 DEF CallsTyped
  <2>2. QED
    BY <1>5, <2>1, FailIsOwn DEF Refused
<1>6. CASE Export(c)
  <2>1. got[c] \in Tokens \cup {NoToken}
    BY <1>0 DEF CallsTyped
  <2>2. QED
    BY <1>6, <2>1, FailIsOwn DEF Export
<1>7. CASE RLoad(c)
  <2>1. CASE Fail(c) \/ Return(c, NoToken)
    BY <1>7, <2>1, FailIsOwn DEF RLoad
  <2>2. CASE Goto(c, "read") /\ UNCHANGED <<call, silent, blob, seen, got, result, had>>
    BY <1>0, <1>7, <2>2 DEF RLoad, CallsTyped, Goto, OthersStay
  <2>3. QED
    BY <1>7, <2>1, <2>2 DEF RLoad
<1>8. CASE WLoad(c)
  <2>1. CASE Abort(c)
    BY <2>1, FailIsOwn DEF Abort
  <2>2. CASE /\ Goto(c, "write")
             /\ UNCHANGED <<store, lockVars, call, silent, blob, seen, got, result,
                            issued, restarts, history>>
    BY <1>0, <2>2 DEF CallsTyped, Goto, OthersStay
  <2>3. QED
    BY <1>8, <2>1, <2>2 DEF WLoad
<1>9. QED
  BY <1>1, <1>2, <1>3, <1>4, <1>5, <1>6, <1>7, <1>8 DEF Act, Step

LEMMA NextIsAct == Next <=> Restart \/ \E c \in Callers : Act(c)
BY DEF Next, Act

(* A goroutine that is writing has the lock for itself, and one that is    *)
(* reading shares it with readers.                                         *)
LEMMA Alone ==
    ASSUME Typed, NEW c \in Callers, NEW d \in Callers, d # c
    PROVE  /\ pc[c] \in Writing => pc[d] \notin Reading \cup Holding
           /\ pc[c] \in Reading => pc[d] \notin Writing
BY TypedParts DEF LockInv, Exclusive, Reading, Writing, Holding

(* Who changes the store, and who the memory.                              *)
LEMMA DataStays ==
    ASSUME NEW c \in Callers, Act(c)
    PROVE  /\ pc[c] # "export" => UNCHANGED <<store, exported, removed>>
           /\ pc[c] \notin {"rload", "wload", "write"} => UNCHANGED mem
           /\ pc[c] # "ask" => UNCHANGED issued
<1> USE DEF history
<1>1. UNCHANGED <<store, exported, removed>> \/ pc[c] = "export"
  BY DEF Act, Step, Start, RLock, Lock, RFetch, RFail, RLoad, Serve, Replaceable, Miss,
         Granted, Refused, Drained, WFetch, WFail, WLoad, Write, WriteFail, Export, Abort
<1>2. UNCHANGED mem \/ pc[c] \in {"rload", "wload", "write"}
  BY DEF Act, Step, Start, RLock, Lock, RFetch, RFail, RLoad, Serve, Replaceable, Miss,
         Granted, Refused, Drained, WFetch, WFail, WLoad, Write, WriteFail, Export
<1>3. UNCHANGED issued \/ pc[c] = "ask"
  BY DEF Act, Step, Start, RLock, Lock, RFetch, RFail, RLoad, Serve, Replaceable, Miss,
         Granted, Refused, Drained, WFetch, WFail, WLoad, Write, WriteFail, Export, Abort
<1>4. QED
  BY <1>1, <1>2, <1>3

LEMMA ExportOnly ==
    ASSUME NEW c \in Callers, Act(c)
    PROVE  Export(c) \/ UNCHANGED <<store, exported, removed>>
<1>1. ASSUME pc[c] = "export" PROVE Export(c) \/ UNCHANGED <<store, exported, removed>>
  BY <1>1 DEF Act, Step, Start, RLock, Lock, RFetch, RFail, RLoad, Serve, Replaceable, Miss,
         Granted, Refused, Drained, WFetch, WFail, WLoad, Write, WriteFail, Abort, history
<1>2. QED
  BY <1>1, DataStays

LEMMA LoadedStep == Typed /\ LoadedInv /\ [Next]_vars => LoadedInv'
<1> SUFFICES ASSUME Typed, LoadedInv, [Next]_vars PROVE LoadedInv'
  OBVIOUS
<1>0. CallsTyped /\ DataTyped
  BY TypedParts
<1> DEFINE LoadedAt(c) ==
        /\ pc[c] \in {"rload", "wload"} => blob[c] = store[Key(c)]
        /\ pc[c] \in {"write", "export"} /\ store[Key(c)] # Absent =>
            \A s \in ManagerSlots :
                \/ mem[s] = store[Key(c)][s]
                \/ pc[c] = "export" /\ s = Slot(c) /\ (Op(c) = "remove" \/ mem[s] = got[c])
<1>1. ASSUME NEW c \in Callers, Act(c), NEW d \in Callers, d # c
      PROVE  LoadedAt(d)'
  <2>1. pc'[d] = pc[d] /\ call'[d] = call[d] /\ blob'[d] = blob[d] /\ got'[d] = got[d]
    BY <1>1, ActIsOwn DEF OthersStay
  <2>2. CASE pc[d] = "rload"
    BY <1>1, <2>1, <2>2, Alone, DataStays DEF LoadedInv, Reading, Writing, Key, Op, Slot
  <2>3. CASE pc[d] \in {"wload", "write", "export"}
    <3>1. UNCHANGED <<store, mem>>
      BY <1>1, <2>3, Alone, DataStays DEF Reading, Writing, Holding
    <3>2. QED
      BY <2>1, <2>3, <3>1 DEF LoadedInv, Key, Op, Slot
  <2>4. QED
    BY <2>1, <2>2, <2>3
<1>2. ASSUME NEW c \in Callers, Act(c) PROVE LoadedAt(c)'
  <2>1. ASSUME pc'[c] \notin {"rload", "wload", "write", "export"} PROVE LoadedAt(c)'
    BY <2>1
  <2>2. CASE RFetch(c) \/ WFetch(c)
    <3>1. pc'[c] \in {"rload", "wload"} /\ blob'[c] = store[Key(c)] /\ UNCHANGED <<store, call>>
      BY <1>0, <2>2 DEF CallsTyped, RFetch, WFetch, Goto
    <3>2. QED
      BY <3>1 DEF Key, Op, Slot
  <2>3. CASE WLoad(c)
    <3>1. CASE Abort(c)
      <4>1. PICK p \in {"idle", "ask"} : Goto(c, p)
        BY <3>1, FailGoes DEF Abort
      <4>2. QED
        BY <1>0, <2>1, <4>1 DEF CallsTyped, Goto
    <3>2. CASE mem' = Loaded(c) /\ Goto(c, "write") /\ UNCHANGED <<store, call, blob>>
      <4>1. blob[c] = store[Key(c)] /\ Key(c)' = Key(c) /\ pc'[c] = "write"
        BY <1>0, <2>3, <3>2 DEF CallsTyped, WLoad, LoadedInv, Goto, Key, Op, Slot
      <4>2. ASSUME store[Key(c)] # Absent, NEW s \in ManagerSlots
            PROVE  mem'[s] = store[Key(c)][s]
        <5>1. s \in Slots /\ s \in DOMAIN blob[c]
          BY <1>0, <4>1, <4>2 DEF CallsTyped, Snapshots, ManagerSlots
        <5>2. QED
          BY <3>2, <4>1, <5>1 DEF Loaded
      <4>3. QED
        BY <3>2, <4>1, <4>2
    <3>3. QED
      BY <2>3, <3>1, <3>2 DEF WLoad
  <2>4. CASE Write(c)
    <3>1. pc[c] = "write" /\ pc'[c] = "export" /\ UNCHANGED <<store, call, got>>
      BY <1>0, <2>4 DEF CallsTyped, Write, Goto
    <3>2. Key(c)' = Key(c) /\ Op(c)' = Op(c) /\ Slot(c)' = Slot(c) /\ Slot(c) \in Slots
      BY <1>0, <3>1 DEF CallsTyped, Arguments, Key, Op, Slot
    <3>3. ASSUME NEW s \in ManagerSlots
          PROVE  \/ mem'[s] = mem[s]
                 \/ s = Slot(c) /\ (Op(c) = "remove" \/ mem'[s] = got[c])
      <4>1. CASE Op(c) = "remove"
        <5>1. Slot(c) = "user"
          BY <1>0, <3>1, <4>1 DEF CallsTyped, Arguments
        <5>2. QED
          BY <1>0, <2>4, <4>1, <5>1, <3>3 DEF Write, DataTyped, ManagerSlots
      <4>2. CASE Op(c) # "remove"
        BY <1>0, <2>4, <3>2, <3>3, <4>2 DEF Write, DataTyped, ManagerSlots
      <4>3. QED
        BY <4>1, <4>2
    <3>4. QED
      BY <3>1, <3>2, <3>3 DEF LoadedInv
  <2>5. CASE \/ RLock(c) \/ Replaceable(c) \/ Granted(c) \/ Lock(c) \/ Drained(c)
    <3>1. pc'[c] \in {"rfetch", "ask", "lock", "drain", "wfetch"}
      BY <1>0, <2>5 DEF CallsTyped, RLock, Replaceable, Granted, Lock, Drained, Goto
    <3>2. QED
      BY <2>1, <3>1
  <2>6. CASE \E op \in Ops, s \in Slots : Start(c, op, s)
    <3>1. pc'[c] \in {"ask", "lock", "rlock"}
      BY <1>0, <2>6 DEF CallsTyped, Start, First, Goto
    <3>2. QED
      BY <2>1, <3>1
  <2>7. CASE \/ RFail(c) \/ Serve(c) \/ Miss(c) \/ Refused(c) \/ WFail(c) \/ WriteFail(c)
             \/ RLoad(c) \/ Export(c)
    <3>1. Goto(c, "idle") \/ Goto(c, "ask") \/ Goto(c, "read")
      BY <2>7 DEF RFail, Serve, Miss, Refused, WFail, WriteFail, RLoad, Export, Abort, Fail,
                  Return
    <3>2. pc'[c] \in {"idle", "ask", "read"}
      BY <1>0, <3>1 DEF CallsTyped, Goto
    <3>3. QED
      BY <2>1, <3>2
  <2>8. QED
    BY <1>2, <2>2, <2>3, <2>4, <2>5, <2>6, <2>7 DEF Act, Step
<1>3. CASE Restart
  BY <1>3 DEF Restart, LoadedInv
<1>4. CASE UNCHANGED vars
  BY <1>4 DEF vars, LoadedInv, Key, Op, Slot
<1>5. ASSUME NEW c \in Callers, Act(c) PROVE LoadedInv'
  <2>1. ASSUME NEW d \in Callers PROVE LoadedAt(d)'
    BY <1>1, <1>2, <1>5
  <2>2. QED
    BY <2>1 DEF LoadedInv
<1>6. QED
  BY <1>3, <1>4, <1>5, NextIsAct

LEMMA SnapshotIsThere == Snapshot # Absent /\ \A s \in ManagerSlots : Snapshot[s] = mem[s]
<1>1. "user" \in DOMAIN Snapshot /\ "user" \notin DOMAIN Absent
  BY SlotsAssumption DEF Snapshot, Absent, ManagerSlots
<1>2. QED
  BY <1>1 DEF Snapshot

LEMMA UpdatesStep == Typed /\ LoadedInv /\ NoLostUpdate /\ [Next]_vars => NoLostUpdate'
<1> SUFFICES ASSUME Typed, LoadedInv, NoLostUpdate, [Next]_vars PROVE NoLostUpdate'
  OBVIOUS
<1>0. CallsTyped /\ DataTyped
  BY TypedParts
<1>1. CASE UNCHANGED <<store, exported>>
  BY <1>1 DEF NoLostUpdate
<1>2. ASSUME NEW c \in Callers, Export(c) PROVE NoLostUpdate'
  <2> SUFFICES ASSUME NEW s \in ManagerSlots, exported'[s] # NoToken
               PROVE  store'[KeyOf[s]] # Absent /\ store'[KeyOf[s]][s] = exported'[s]
    BY DEF NoLostUpdate
  <2>1. /\ pc[c] = "export" /\ store' = [store EXCEPT ![Key(c)] = Snapshot]
        /\ KeyOf[s] \in Keys /\ DOMAIN store = Keys /\ s \in Slots
    BY <1>0, <1>2, KeysAssumption DEF Export, ExportedStore, DataTyped, ManagerSlots
  <2>2. \/ Op(c) = "remove"
        \/ Op(c) = "acquire"
        \/ Op(c) = "signin" /\ Slot(c) = "user"
    BY <1>0, <2>1 DEF CallsTyped, Arguments, OpsWhere, Writing
  <2>3. CASE KeyOf[s] # Key(c)
    <3>1. store'[KeyOf[s]] = store[KeyOf[s]]
      BY <2>1, <2>3
    <3>2. s # Slot(c) \/ Op(c) = "remove"
      BY <2>2, <2>3, SignInKeyAssumption DEF Key
    <3>3. exported'[s] = exported[s]
      BY <1>2, <3>2 DEF Export
    <3>4. QED
      BY <3>1, <3>3 DEF NoLostUpdate
  <2>4. CASE KeyOf[s] = Key(c)
    <3>1. store'[KeyOf[s]] # Absent /\ store'[KeyOf[s]][s] = mem[s]
      BY <2>1, <2>4, SnapshotIsThere
    <3>2. CASE exported'[s] = exported[s]
      <4>1. store[Key(c)] # Absent /\ store[Key(c)][s] = exported[s]
        BY <2>4, <3>2 DEF NoLostUpdate
      <4>2. CASE s = Slot(c)
        <5>1. mem[s] = exported'[s] \/ mem[s] = store[Key(c)][s]
          BY <1>2, <2>1, <4>1, <4>2 DEF Export, LoadedInv
        <5>2. QED
          BY <3>1, <3>2, <4>1, <5>1
      <4>3. CASE s # Slot(c)
        <5>1. mem[s] = store[Key(c)][s]
          BY <2>1, <4>1, <4>3 DEF LoadedInv
        <5>2. QED
          BY <3>1, <3>2, <4>1, <5>1
      <4>4. QED
        BY <4>2, <4>3
    <3>3. CASE exported'[s] # exported[s]
      <4>1. exported'[s] = got[c] /\ mem[s] = got[c]
        BY <1>2, <3>3 DEF Export
      <4>2. QED
        BY <3>1, <4>1
    <3>4. QED
      BY <3>2, <3>3
  <2>5. QED
    BY <2>3, <2>4
<1>3. CASE Restart
  BY <1>1, <1>3 DEF Restart
<1>4. ASSUME NEW c \in Callers, Act(c) PROVE NoLostUpdate'
  BY <1>1, <1>2, <1>4, ExportOnly
<1>5. CASE UNCHANGED vars
  BY <1>1, <1>5 DEF vars, history
<1>6. QED
  BY <1>3, <1>4, <1>5, NextIsAct

LEMMA InitLoaded == Init => LoadedInv /\ NoLostUpdate
BY DEF Init, LoadedInv, NoLostUpdate

(* No update is lost: every export writes the whole memory, by whichever   *)
(* goroutine and after whatever failures and crashes, and yet the store    *)
(* holds, for every slot, the token of the last call that exported one.    *)
(* However the accessor partitions its store.                              *)
THEOREM NoUpdateLost == Spec => []NoLostUpdate
<1>1. Init => Typed /\ LoadedInv /\ NoLostUpdate
  BY InitTyped, InitLoaded
<1>2. Typed /\ LoadedInv /\ NoLostUpdate /\ [Next]_vars
        => Typed' /\ LoadedInv' /\ NoLostUpdate'
  BY TypedStep, LoadedStep, UpdatesStep
<1>3. QED
  BY <1>1, <1>2, PTL DEF Spec

-----------------------------------------------------------------------------
(* Where tokens go.                                                        *)

(* What a goroutine's own variables hold after a step of its.              *)
LEMMA OwnCopies ==
    ASSUME Typed, NEW c \in Callers, Act(c)
    PROVE  /\ blob'[c] \in {Absent, blob[c], store[Key(c)]}
           /\ \/ got'[c] = NoToken /\ seen'[c] = NoToken
              \/ /\ Slot(c)' = Slot(c)
                 /\ \/ seen'[c] \in {seen[c], NoToken}
                    \/ pc[c] = "read" /\ seen'[c] = mem[Slot(c)]
                 /\ \/ got'[c] \in {got[c], NoToken}
                    \/ pc[c] = "ask" /\ got'[c] = issued + 1 /\ issued' = issued + 1
<1> USE DEF history
<1>0. CallsTyped /\ DataTyped
  BY TypedParts
<1> DEFINE Kept == UNCHANGED <<blob, got, seen, call>>
           Left == Return(c, NoToken) \/ Return(c, got[c]) \/ Return(c, seen[c])
                   \/ Return(c, mem[Slot(c)]) \/ GoesOn(c)
<1>1. CASE Kept
  BY <1>1 DEF Slot
<1>2. CASE Left
  <2>1. blob'[c] = Absent /\ got'[c] = NoToken /\ seen'[c] = NoToken
    BY <1>0, <1>2 DEF CallsTyped, Return, GoesOn
  <2>2. QED
    BY <2>1
<1>3. ASSUME NEW op \in Ops, NEW s \in Slots, Start(c, op, s)
      PROVE  blob'[c] = blob[c] /\ got'[c] = NoToken /\ seen'[c] = NoToken
  BY <1>0, <1>3 DEF CallsTyped, Arguments, Start
<1>4. CASE RFetch(c) \/ WFetch(c)
  BY <1>0, <1>4 DEF CallsTyped, RFetch, WFetch, Slot
<1>5. CASE Replaceable(c)
  BY <1>0, <1>5 DEF CallsTyped, Replaceable, Slot
<1>6. CASE Granted(c)
  BY <1>0, <1>6 DEF CallsTyped, Granted, Slot
<1>7. CASE \/ RLock(c) \/ Lock(c) \/ Drained(c) \/ Write(c)
  BY <1>1, <1>7 DEF RLock, Lock, Drained, Write
<1>8. CASE RFail(c) \/ Serve(c) \/ Miss(c) \/ Refused(c) \/ WFail(c) \/ WriteFail(c) \/ Export(c)
  <2>1. pc[c] # "idle"
    BY <1>8 DEF RFail, Serve, Miss, Refused, WFail, WriteFail, Export
  <2>2. Left
    BY <1>8, <2>1, FailIsWayOut DEF RFail, Serve, Miss, Refused, WFail, WriteFail, Export, Abort
  <2>3. QED
    BY <1>2, <2>2
<1>9. CASE RLoad(c) \/ WLoad(c)
  <2>1. pc[c] # "idle"
    BY <1>9 DEF RLoad, WLoad
  <2>2. Left \/ Kept
    BY <1>9, <2>1, FailIsWayOut DEF RLoad, WLoad, Abort
  <2>3. QED
    BY <1>1, <1>2, <2>2
<1>10. QED
  BY <1>3, <1>4, <1>5, <1>6, <1>7, <1>8, <1>9 DEF Act, Step

(* What the memory holds after a step.                                     *)
LEMMA MemoryCopies ==
    ASSUME Typed, NEW c \in Callers, Act(c)
    PROVE  \/ UNCHANGED mem
           \/ pc[c] \in {"rload", "wload"} /\ ~Unloadable(c) /\ mem' = Loaded(c)
           \/ pc[c] = "write" /\ Op(c) # "remove" /\ mem' = [mem EXCEPT ![Slot(c)] = got[c]]
           \/ pc[c] = "write" /\ Op(c) = "remove" /\ mem' = [mem EXCEPT !["user"] = NoToken]
<1> USE DEF history
<1>1. ASSUME pc[c] \in {"rload", "wload"}
      PROVE  UNCHANGED mem \/ (~Unloadable(c) /\ mem' = Loaded(c))
  BY <1>1 DEF Act, Step, Start, RLock, Lock, RFetch, RFail, RLoad, Serve, Replaceable, Miss,
         Granted, Refused, Drained, WFetch, WFail, WLoad, Write, WriteFail, Export
<1>2. ASSUME pc[c] = "write"
      PROVE  \/ UNCHANGED mem
             \/ Op(c) # "remove" /\ mem' = [mem EXCEPT ![Slot(c)] = got[c]]
             \/ Op(c) = "remove" /\ mem' = [mem EXCEPT !["user"] = NoToken]
  BY <1>2 DEF Act, Step, Start, RLock, Lock, RFetch, RFail, RLoad, Serve, Replaceable, Miss,
         Granted, Refused, Drained, WFetch, WFail, WLoad, Write, WriteFail, Export
<1>3. QED
  BY <1>1, <1>2, DataStays

(* The parts of IsAt.                                                      *)
InBlobs(s, t) == \E c \in Callers : blob[c] # Absent /\ s \in ManagerSlots /\ blob[c][s] = t
InCalls(s, t) == \E c \in Callers : Slot(c) = s /\ (got[c] = t \/ seen[c] = t)
InStore(s, t) == \E k \in Keys : store[k] # Absent /\ s \in ManagerSlots /\ store[k][s] = t

LEMMA IsAtParts ==
    ASSUME NEW s, NEW t
    PROVE  IsAt(s, t) <=> \/ mem[s] = t
                          \/ s \in ManagerSlots /\ exported[s] = t
                          \/ InStore(s, t) \/ InBlobs(s, t) \/ InCalls(s, t)
                          \/ s = "user" /\ t \in removed
BY DEF IsAt, InStore, InBlobs, InCalls

(* A step copies tokens within the places of their slot; only the service  *)
(* brings a new one.                                                       *)
LEMMA Copies ==
    ASSUME Typed, NEW c \in Callers, Act(c), NEW s \in Slots, NEW t \in Tokens, IsAt(s, t)'
    PROVE  \/ IsAt(s, t)
           \/ /\ pc[c] = "ask" /\ s = Slot(c)
              /\ t = issued + 1 /\ issued' = issued + 1
<1>0. CallsTyped /\ DataTyped
  BY TypedParts
<1>a. t # NoToken
  BY DEF Tokens, NoToken
<1>b. ASSUME pc[c] # "idle" PROVE Slot(c) \in Slots /\ Key(c) \in Keys
  BY <1>0, <1>b, KeysAssumption, SlotsAssumption DEF CallsTyped, Arguments, Key, Op, Slot
<1>1. ASSUME mem'[s] = t PROVE IsAt(s, t)
  <2>1. CASE UNCHANGED mem
    BY <1>1, <2>1 DEF IsAt
  <2>2. CASE mem' = Loaded(c)
    <3>1. CASE s \in DOMAIN blob[c]
      <4>1. blob[c] # Absent /\ s \in ManagerSlots /\ blob[c][s] = t
        BY <1>0, <1>1, <2>2, <3>1 DEF CallsTyped, Loaded, Snapshots, Absent
      <4>2. QED
        BY <4>1 DEF IsAt
    <3>2. CASE s \notin DOMAIN blob[c]
      BY <1>1, <2>2, <3>2 DEF Loaded, IsAt
    <3>3. QED
      BY <3>1, <3>2
  <2>3. CASE pc[c] = "write" /\ mem' = [mem EXCEPT ![Slot(c)] = got[c]]
    <3>1. mem[s] = t \/ (s = Slot(c) /\ got[c] = t)
      BY <1>0, <1>1, <2>3 DEF DataTyped
    <3>2. QED
      BY <3>1 DEF IsAt
  <2>4. CASE mem' = [mem EXCEPT !["user"] = NoToken]
    <3>1. mem[s] = t
      BY <1>0, <1>1, <1>a, <2>4 DEF DataTyped
    <3>2. QED
      BY <3>1 DEF IsAt
  <2>5. QED
    BY <2>1, <2>2, <2>3, <2>4, MemoryCopies
<1>2. ASSUME Export(c)
      PROVE  /\ s \in ManagerSlots /\ exported'[s] = t => IsAt(s, t)
             /\ InStore(s, t)' => IsAt(s, t)
             /\ s = "user" /\ t \in removed' => IsAt(s, t)
  <2>1. ASSUME s \in ManagerSlots, exported'[s] = t PROVE IsAt(s, t)
    <3>0. exported' = [r \in ManagerSlots |->
                          IF r # Slot(c) THEN exported[r]
                          ELSE IF Op(c) = "remove" THEN NoToken
                          ELSE IF mem[r] = got[c] THEN got[c] ELSE exported[r]]
      BY <1>2 DEF Export
    <3>1. exported[s] = t \/ (s = Slot(c) /\ got[c] = t)
      BY <1>a, <2>1, <3>0
    <3>2. QED
      BY <2>1, <3>1 DEF IsAt
  <2>2. ASSUME InStore(s, t)' PROVE IsAt(s, t)
    <3>1. PICK k \in Keys : store'[k] # Absent /\ s \in ManagerSlots /\ store'[k][s] = t
      BY <2>2 DEF InStore
    <3>2. store'[k] = store[k] \/ store'[k] = Snapshot
      BY <1>0, <1>2, <3>1 DEF Export, ExportedStore, DataTyped
    <3>3. mem[s] = t \/ InStore(s, t)
      BY <3>1, <3>2, SnapshotIsThere DEF InStore
    <3>4. QED
      BY <3>3, IsAtParts
  <2>3. ASSUME s = "user", t \in removed' PROVE IsAt(s, t)
    <3>1. t \in removed \/ exported["user"] = t
      BY <1>2, <2>3 DEF Export
    <3>2. QED
      BY <2>3, <3>1, SlotsAssumption DEF IsAt, ManagerSlots
  <2>4. QED
    BY <2>1, <2>2, <2>3
<1>3. ASSUME InBlobs(s, t)' PROVE IsAt(s, t)
  <2>1. PICK d \in Callers : blob'[d] # Absent /\ s \in ManagerSlots /\ blob'[d][s] = t
    BY <1>3 DEF InBlobs
  <2>2. CASE d # c \/ blob'[d] = blob[d]
    <3>1. blob'[d] = blob[d]
      BY <2>2, ActIsOwn DEF OthersStay
    <3>2. QED
      BY <2>1, <3>1 DEF IsAt
  <2>3. CASE d = c /\ blob'[d] = store[Key(c)]
    <3>1. CASE pc[c] = "idle"
      <4>1. UNCHANGED blob
        BY <3>1 DEF Act, Step, Start, RLock, Lock, RFetch, RFail, RLoad, Serve, Replaceable,
           Miss, Granted, Refused, Drained, WFetch, WFail, WLoad, Write, WriteFail, Export
      <4>2. QED
        BY <2>2, <4>1
    <3>2. CASE pc[c] # "idle"
      BY <1>b, <2>1, <2>3, <3>2 DEF IsAt
    <3>3. QED
      BY <3>1, <3>2
  <2>4. QED
    BY <2>1, <2>2, <2>3, OwnCopies
<1>4. ASSUME InCalls(s, t)', ~(/\ pc[c] = "ask" /\ s = Slot(c)
                              /\ t = issued + 1 /\ issued' = issued + 1)
      PROVE  IsAt(s, t)
  <2>1. PICK d \in Callers : Slot(d)' = s /\ (got'[d] = t \/ seen'[d] = t)
    BY <1>4 DEF InCalls
  <2>2. CASE d # c
    <3>1. Slot(d)' = Slot(d) /\ got'[d] = got[d] /\ seen'[d] = seen[d]
      BY <2>2, ActIsOwn DEF OthersStay, Slot
    <3>2. QED
      BY <2>1, <3>1 DEF IsAt
  <2>3. CASE d = c
    <3>1. Slot(c) = s
      BY <1>a, <2>1, <2>3, OwnCopies
    <3>2. got[c] = t \/ seen[c] = t \/ mem[s] = t
      BY <1>4, <1>a, <2>1, <2>3, <3>1, OwnCopies
    <3>3. QED
      BY <3>1, <3>2 DEF IsAt
  <2>4. QED
    BY <2>2, <2>3
<1>5. CASE UNCHANGED <<store, exported, removed>>
  <2>1. InStore(s, t)' => InStore(s, t)
    BY <1>5 DEF InStore
  <2>2. (s \in ManagerSlots /\ exported[s] = t)' => s \in ManagerSlots /\ exported[s] = t
    BY <1>5
  <2>3. (s = "user" /\ t \in removed)' => s = "user" /\ t \in removed
    BY <1>5
  <2>4. \/ (mem[s] = t)' \/ (s \in ManagerSlots /\ exported[s] = t)'
        \/ InStore(s, t)' \/ InBlobs(s, t)' \/ InCalls(s, t)'
        \/ (s = "user" /\ t \in removed)'
    BY DEF IsAt, InStore, InBlobs, InCalls
  <2>5. QED
    BY <1>1, <1>3, <1>4, <2>1, <2>2, <2>3, <2>4, IsAtParts
<1>6. CASE Export(c)
  <2>1. \/ (mem[s] = t)' \/ (s \in ManagerSlots /\ exported[s] = t)'
        \/ InStore(s, t)' \/ InBlobs(s, t)' \/ InCalls(s, t)'
        \/ (s = "user" /\ t \in removed)'
    BY DEF IsAt, InStore, InBlobs, InCalls
  <2>2. /\ s \in ManagerSlots /\ exported'[s] = t => IsAt(s, t)
        /\ InStore(s, t)' => IsAt(s, t)
        /\ s = "user" /\ t \in removed' => IsAt(s, t)
    BY <1>2, <1>6
  <2>3. QED
    BY <1>1, <1>3, <1>4, <2>1, <2>2
<1>7. QED
  BY <1>5, <1>6, ExportOnly

LEMMA RestartCopies ==
    ASSUME Typed, Restart, NEW s \in Slots, NEW t \in Tokens, IsAt(s, t)'
    PROVE  IsAt(s, t)
<1>1. t # NoToken
  BY DEF Tokens, NoToken
<1>2. /\ UNCHANGED <<store, exported, removed>>
      /\ mem'[s] = NoToken
      /\ \A c \in Callers : blob'[c] = Absent /\ got'[c] = NoToken /\ seen'[c] = NoToken
  BY DEF Restart
<1>3. QED
  BY <1>1, <1>2 DEF IsAt

LEMMA IssuedGrows ==
    ASSUME NEW c \in Callers, Act(c)
    PROVE  issued' = issued \/ (pc[c] = "ask" /\ issued' = issued + 1)
<1>1. ASSUME pc[c] = "ask" PROVE issued' = issued \/ issued' = issued + 1
  BY <1>1 DEF Act, Step, Start, RLock, Lock, RFetch, RFail, RLoad, Serve, Replaceable, Miss,
         Granted, Refused, Drained, WFetch, WFail, WLoad, Write, WriteFail, Export, Abort
<1>2. QED
  BY <1>1, DataStays

LEMMA OneSlotStep ==
    ASSUME Typed, OneSlot, [Next]_vars
    PROVE  OneSlot'
<1>0. issued \in Nat
  BY TypedParts, BoundsAssumption DEF DataTyped
<1>1. CASE UNCHANGED vars
  BY <1>1 DEF vars, lockVars, history, OneSlot, IsAt, Slot
<1>2. CASE Restart
  <2>1. UNCHANGED issued
    BY <1>2 DEF Restart
  <2>2. \A s \in Slots, t \in Tokens : IsAt(s, t)' => IsAt(s, t)
    BY <1>2, RestartCopies
  <2>3. QED
    BY <2>1, <2>2 DEF OneSlot
<1>3. ASSUME NEW c \in Callers, Act(c) PROVE OneSlot'
  <2>1. ASSUME NEW s \in Slots, NEW t \in Tokens, IsAt(s, t)'
        PROVE  IsAt(s, t) \/ (s = Slot(c) /\ t = issued + 1 /\ issued' = issued + 1)
    BY <1>3, <2>1, Copies
  <2>2. ASSUME NEW s \in Slots, NEW t \in Tokens, IsAt(s, t) PROVE t \in Nat /\ t <= issued
    BY <2>2 DEF OneSlot, Tokens
  <2>3. ASSUME NEW s \in Slots, NEW t \in Tokens, IsAt(s, t)' PROVE t <= issued'
    BY <1>0, <1>3, <2>1, <2>2, <2>3, IssuedGrows
  <2>4. ASSUME NEW s \in Slots, NEW r \in Slots, NEW t \in Tokens, IsAt(s, t)', IsAt(r, t)'
        PROVE  s = r
    <3>1. CASE IsAt(s, t) /\ IsAt(r, t)
      BY <3>1 DEF OneSlot
    <3>2. CASE ~IsAt(s, t) \/ ~IsAt(r, t)
      <4>1. t = issued + 1
        BY <2>1, <2>4, <3>2
      <4>2. ~IsAt(s, t) /\ ~IsAt(r, t)
        BY <1>0, <2>2, <4>1
      <4>3. QED
        BY <2>1, <2>4, <4>2
    <3>3. QED
      BY <3>1, <3>2
  <2>5. QED
    BY <2>3, <2>4 DEF OneSlot
<1>4. QED
  BY <1>1, <1>2, <1>3, NextIsAct

LEMMA GotIsFreshStep ==
    ASSUME Typed, Serials, [Next]_vars
    PROVE  GotIsFresh'
<1>0. CallsTyped /\ DataTyped /\ issued \in Nat /\ "user" \in ManagerSlots
  BY TypedParts, BoundsAssumption, SlotsAssumption DEF DataTyped, ManagerSlots
<1>1. CASE UNCHANGED vars
  BY <1>1 DEF vars, history, Serials, GotIsFresh
<1>2. CASE Restart
  BY <1>2 DEF Restart, GotIsFresh
<1>3. ASSUME NEW c \in Callers, Act(c) PROVE GotIsFresh'
  <2> SUFFICES ASSUME NEW e \in Callers, got'[e] # NoToken
               PROVE  /\ got'[e] <= issued'
                      /\ got'[e] \notin removed'
                      /\ \A s \in ManagerSlots : exported'[s] # got'[e]
                      /\ \A d \in Callers : d # e => got'[d] # got'[e]
    BY DEF GotIsFresh
  <2>1. \A d \in Callers : d # c => got'[d] = got[d]
    BY <1>3, ActIsOwn DEF OthersStay
  <2>2. \/ got'[c] \in {got[c], NoToken}
        \/ got'[c] = issued + 1 /\ issued' = issued + 1 /\ pc[c] = "ask"
    BY <1>3, OwnCopies
  <2>3. \A d \in Callers : got[d] # NoToken => got[d] \in Nat /\ got[d] <= issued
    BY <1>0 DEF Serials, GotIsFresh, CallsTyped, Tokens
  <2>4. issued' \in Nat /\ issued <= issued'
    BY <1>0, <1>3, IssuedGrows
  <2>5. CASE Export(c)
    <3>1. got'[c] = NoToken
      BY <1>0, <2>5 DEF Export, Return, CallsTyped
    <3>2. e # c /\ got'[e] = got[e]
      BY <2>1, <3>1
    <3>3. got'[e] \notin removed'
      <4>1. got[e] \notin removed /\ got[e] # exported["user"]
        BY <1>0, <3>2 DEF Serials, GotIsFresh
      <4>2. removed' \subseteq removed \cup {exported["user"]}
        BY <2>5 DEF Export
      <4>3. QED
        BY <3>2, <4>1, <4>2
    <3>4. ASSUME NEW s \in ManagerSlots PROVE exported'[s] # got'[e]
      <4>0. exported' = [r \in ManagerSlots |->
                            IF r # Slot(c) THEN exported[r]
                            ELSE IF Op(c) = "remove" THEN NoToken
                            ELSE IF mem[r] = got[c] THEN got[c] ELSE exported[r]]
        BY <2>5 DEF Export
      <4>1. exported'[s] \in {exported[s], NoToken, got[c]}
        BY <4>0
      <4>2. got[e] # got[c] /\ got[e] # exported[s] /\ got[e] # NoToken
        BY <3>2 DEF Serials, GotIsFresh
      <4>3. QED
        BY <3>2, <4>1, <4>2
    <3>5. ASSUME NEW d \in Callers, d # e PROVE got'[d] # got'[e]
      BY <2>1, <3>1, <3>2, <3>5 DEF Serials, GotIsFresh
    <3>6. got'[e] <= issued'
      BY <1>0, <2>3, <2>4, <3>2
    <3>7. QED
      BY <3>3, <3>4, <3>5, <3>6
  <2>6. CASE UNCHANGED <<store, exported, removed>> /\ got'[e] = got[e]
    <3>1. got'[e] <= issued'
      BY <1>0, <2>3, <2>4, <2>6
    <3>2. got'[e] \notin removed' /\ \A s \in ManagerSlots : exported'[s] # got'[e]
      BY <2>6 DEF Serials, GotIsFresh
    <3>3. ASSUME NEW d \in Callers, d # e PROVE got'[d] # got'[e]
      <4>1. got'[d] = got[d] \/ got'[d] = NoToken \/ got'[d] = issued + 1
        BY <2>1, <2>2
      <4>2. got[d] # got[e] /\ got[e] # issued + 1
        BY <1>0, <2>3, <2>6, <3>3 DEF Serials, GotIsFresh
      <4>3. QED
        BY <2>6, <4>1, <4>2
    <3>4. QED
      BY <3>1, <3>2, <3>3
  <2>7. CASE UNCHANGED <<store, exported, removed>> /\ got'[e] # got[e]
    <3>1. e = c /\ got'[e] = issued + 1 /\ issued' = issued + 1 /\ pc[c] = "ask"
      BY <2>1, <2>2, <2>7
    <3>2. issued + 1 \in Tokens /\ "user" \in Slots
      <4>1. got' \in [Callers -> Tokens \cup {NoToken}]
        BY CallsStep DEF CallsTyped
      <4>2. QED
        BY <3>1, <4>1, SlotsAssumption
    <3>3. \A s \in Slots : ~IsAt(s, issued + 1)
      BY <1>0, <3>2 DEF Serials, OneSlot
    <3>4. issued + 1 \notin removed /\ \A s \in ManagerSlots : exported[s] # issued + 1
      BY <3>2, <3>3 DEF IsAt, ManagerSlots
    <3>5. ASSUME NEW d \in Callers, d # e PROVE got'[d] # got'[e]
      BY <1>0, <2>1, <2>3, <3>1, <3>5
    <3>6. QED
      BY <1>0, <2>7, <3>1, <3>4, <3>5
  <2>8. QED
    BY <1>3, <2>5, <2>6, <2>7, ExportOnly
<1>4. QED
  BY <1>1, <1>2, <1>3, NextIsAct

LEMMA SerialsStep == Typed /\ Serials /\ [Next]_vars => Serials'
BY OneSlotStep, GotIsFreshStep DEF Serials

-----------------------------------------------------------------------------
(* One file: what it holds and what is loaded from it.                     *)

LEMMA FileKey ==
    ASSUME OneFile, Typed, NEW c \in Callers, pc[c] # "idle", Slot(c) # "obo"
    PROVE  Key(c) = AccountsKey
<1>1. call[c] \in [op : Ops, slot : Slots] /\ (Op(c) # "acquire" => Slot(c) = "user")
  BY TypedParts DEF CallsTyped, Arguments
<1>2. Slot(c) \in ManagerSlots /\ "user" \in ManagerSlots
  BY <1>1, SlotsAssumption DEF ManagerSlots, Slot
<1>3. QED
  BY <1>1, <1>2, SignInKeyAssumption DEF OneFile, Key

(* A load takes what it takes from the file as it is now: the blobs of     *)
(* other keys, whose user token may be stale, are not loadable.            *)
LEMMA LoadsTheFile ==
    ASSUME OneFile, Typed, LoadedInv, NEW c \in Callers, pc[c] \in {"rload", "wload"},
           ~Unloadable(c), NEW s \in Slots
    PROVE  \/ /\ s \in ManagerSlots /\ store[AccountsKey] # Absent
              /\ Loaded(c)[s] = store[AccountsKey][s]
           \/ /\ Loaded(c)[s] = mem[s]
              /\ s \in ManagerSlots /\ Key(c) = AccountsKey => store[AccountsKey] = Absent
<1>0. CallsTyped /\ DataTyped
  BY TypedParts
<1>1. blob[c] = store[Key(c)] /\ blob[c] \in Snapshots \cup {Absent}
  BY <1>0 DEF LoadedInv, CallsTyped
<1>2. CASE blob[c] = Absent
  BY <1>1, <1>2 DEF Loaded, Absent
<1>3. CASE blob[c] # Absent
  <2>1. Slot(c) # "obo"
    <3>1. Op(c) # "acquire" => Slot(c) = "user"
      BY <1>0 DEF CallsTyped, Arguments
    <3>2. QED
      BY <1>3, <3>1 DEF Unloadable
  <2>2. Key(c) = AccountsKey
    BY <2>1, FileKey
  <2>3. DOMAIN blob[c] = ManagerSlots
    BY <1>1, <1>3 DEF Snapshots
  <2>4. CASE s \in ManagerSlots
    BY <1>1, <1>3, <2>2, <2>3, <2>4 DEF Loaded
  <2>5. CASE s \notin ManagerSlots
    BY <2>3, <2>5 DEF Loaded
  <2>6. QED
    BY <2>4, <2>5
<1>4. QED
  BY <1>2, <1>3

(* What a call returns, and what it remembers to be forgotten.             *)
LEMMA OwnResult ==
    ASSUME Typed, NEW c \in Callers, Act(c)
    PROVE  \/ forgot' = [forgot EXCEPT ![c] = removed] /\ result'[c] = NoToken
           \/ /\ UNCHANGED forgot
              /\ \/ result'[c] \in {NoToken, result[c]}
                 \/ pc[c] = "read" /\ result'[c] = mem[Slot(c)]
                 \/ pc[c] = "ask" /\ result'[c] = seen[c]
                 \/ pc[c] = "export" /\ result'[c] = got[c]
<1> USE DEF history
<1>0. CallsTyped /\ DataTyped
  BY TypedParts
<1> DEFINE Left(t) == Return(c, t) \/ GoesOn(c)
<1>1. ASSUME NEW t, Left(t) PROVE result'[c] \in {t, result[c]}
  BY <1>0, <1>1 DEF CallsTyped, Return, GoesOn
<1>2. ASSUME NEW op \in Ops, NEW s \in Slots, Start(c, op, s)
      PROVE  forgot' = [forgot EXCEPT ![c] = removed] /\ result'[c] = NoToken
  BY <1>0, <1>2 DEF CallsTyped, Start
<1>3. CASE \/ RLock(c) \/ Lock(c) \/ Drained(c) \/ RFetch(c) \/ WFetch(c) \/ Replaceable(c)
           \/ Granted(c) \/ Write(c)
  BY <1>3 DEF RLock, Lock, Drained, RFetch, WFetch, Replaceable, Granted, Write
<1>4. CASE RFail(c) \/ Miss(c) \/ WFail(c) \/ WriteFail(c)
  <2>1. pc[c] # "idle" /\ Fail(c) /\ UNCHANGED forgot
    BY <1>4 DEF RFail, Miss, WFail, WriteFail, Abort
  <2>2. Left(NoToken)
    BY <2>1, FailIsWayOut
  <2>3. QED
    BY <1>1, <2>1, <2>2
<1>5. CASE RLoad(c) \/ WLoad(c)
  <2>1. pc[c] # "idle" /\ UNCHANGED forgot
    BY <1>5 DEF RLoad, WLoad, Abort
  <2>2. Fail(c) \/ Return(c, NoToken) \/ UNCHANGED result
    BY <1>5 DEF RLoad, WLoad, Abort
  <2>3. Left(NoToken) \/ UNCHANGED result
    BY <2>1, <2>2, FailIsWayOut
  <2>4. QED
    BY <1>1, <2>1, <2>3
<1>6. CASE Serve(c)
  BY <1>0, <1>6 DEF CallsTyped, Serve, Return
<1>7. CASE Refused(c)
  <2>1. pc[c] = "ask" /\ UNCHANGED forgot
    BY <1>7 DEF Refused
  <2>2. Left(NoToken) \/ Return(c, seen[c])
    BY <1>7, <2>1, FailIsWayOut DEF Refused
  <2>3. Left(NoToken) \/ Left(seen[c])
    BY <2>2
  <2>4. QED
    BY <1>1, <2>1, <2>3
<1>8. CASE Export(c)
  BY <1>0, <1>8 DEF CallsTyped, Export, Return
<1>9. QED
  BY <1>2, <1>3, <1>4, <1>5, <1>6, <1>7, <1>8 DEF Act, Step

LEMMA WriteFirst ==
    ASSUME Typed, NEW c \in Callers, Act(c), pc'[c] = "export"
    PROVE  Write(c)
<1>0. CallsTyped
  BY TypedParts
<1>1. ~ \E op \in Ops, s \in Slots : Start(c, op, s)
  BY <1>0 DEF CallsTyped, Start, First, Goto
<1>2. ~(\/ RLock(c) \/ Lock(c) \/ Drained(c) \/ RFetch(c) \/ WFetch(c) \/ Replaceable(c)
        \/ Granted(c))
  BY <1>0 DEF CallsTyped, RLock, Lock, Drained, RFetch, WFetch, Replaceable, Granted, Goto
<1>3. ~(\/ RFail(c) \/ Serve(c) \/ Miss(c) \/ Refused(c) \/ WFail(c) \/ WriteFail(c)
        \/ RLoad(c) \/ Export(c) \/ WLoad(c))
  <2>1. ~(Goto(c, "idle") \/ Goto(c, "ask") \/ Goto(c, "read") \/ Goto(c, "write"))
    BY <1>0 DEF CallsTyped, Goto
  <2>2. QED
    BY <2>1 DEF RFail, Serve, Miss, Refused, WFail, WriteFail, RLoad, Export, WLoad, Abort, Fail,
                Return
<1>4. QED
  BY <1>1, <1>2, <1>3 DEF Act, Step

LEMMA ForgetStep ==
    ASSUME OneFile, Typed, LoadedInv, Serials, ForgetInv, [Next]_vars
    PROVE  ForgetInv'
<1>0. /\ CallsTyped /\ DataTyped
      /\ "user" \in ManagerSlots /\ "user" \in Slots /\ NoToken \notin Tokens
  BY TypedParts, SlotsAssumption DEF ManagerSlots, Tokens, NoToken
<1>1. CASE UNCHANGED vars
  BY <1>1 DEF vars, history, ForgetInv, Op
<1>2. CASE Restart
  BY <1>0, <1>2 DEF Restart, ForgetInv, DataTyped
<1>3. ASSUME NEW c \in Callers, Act(c) PROVE ForgetInv'
  <2>1. mem'["user"] \notin removed'
    <3>1. CASE Export(c)
      <4>1. UNCHANGED mem /\ pc[c] = "export"
        BY <3>1 DEF Export
      <4>2. CASE Op(c) = "remove"
        <5>1. mem["user"] = NoToken /\ removed' \subseteq Tokens
          BY <4>1, <4>2, DataStep DEF ForgetInv, DataTyped
        <5>2. QED
          BY <1>0, <4>1, <5>1
      <4>3. CASE Op(c) # "remove"
        BY <3>1, <4>1, <4>3 DEF Export, ForgetInv
      <4>4. QED
        BY <4>2, <4>3
    <3>2. CASE UNCHANGED <<store, exported, removed>>
      <4>1. CASE UNCHANGED mem
        BY <3>2, <4>1 DEF ForgetInv
      <4>2. CASE pc[c] \in {"rload", "wload"} /\ ~Unloadable(c) /\ mem' = Loaded(c)
        BY <1>0, <3>2, <4>2, LoadsTheFile DEF ForgetInv
      <4>3. CASE pc[c] = "write" /\ Op(c) # "remove" /\ mem' = [mem EXCEPT ![Slot(c)] = got[c]]
        <5>1. got[c] # NoToken
          BY <1>0, <4>3 DEF CallsTyped, OpsWhere, Writing
        <5>2. got[c] \notin removed
          BY <5>1 DEF Serials, GotIsFresh
        <5>3. QED
          BY <1>0, <3>2, <4>3, <5>2 DEF ForgetInv, DataTyped
      <4>4. CASE mem' = [mem EXCEPT !["user"] = NoToken]
        BY <1>0, <3>2, <4>4 DEF DataTyped
      <4>5. QED
        BY <1>3, <4>1, <4>2, <4>3, <4>4, MemoryCopies
    <3>3. QED
      BY <1>3, <3>1, <3>2, ExportOnly
  <2>2. store'[AccountsKey] # Absent => store'[AccountsKey]["user"] \notin removed'
    <3>1. CASE Export(c)
      <4>1. pc[c] = "export" /\ store' = [store EXCEPT ![Key(c)] = Snapshot] /\ UNCHANGED mem
        BY <3>1 DEF Export, ExportedStore
      <4>2. CASE Key(c) = AccountsKey
        <5>1. store'[AccountsKey]["user"] = mem'["user"]
          BY <1>0, <4>1, <4>2, SnapshotIsThere, KeysAssumption DEF DataTyped
        <5>2. QED
          BY <2>1, <5>1
      <4>3. CASE Key(c) # AccountsKey
        <5>1. Op(c) # "remove"
          BY <4>3 DEF Key
        <5>2. UNCHANGED removed /\ store'[AccountsKey] = store[AccountsKey]
          BY <1>0, <3>1, <4>1, <4>3, <5>1 DEF Export, DataTyped
        <5>3. QED
          BY <5>2 DEF ForgetInv
      <4>4. QED
        BY <4>2, <4>3
    <3>2. CASE UNCHANGED <<store, exported, removed>>
      BY <3>2 DEF ForgetInv
    <3>3. QED
      BY <1>3, <3>1, <3>2, ExportOnly
  <2>3. ASSUME NEW d \in Callers, pc'[d] = "export", Op(d)' = "remove"
        PROVE  mem'["user"] = NoToken
    <3>1. CASE d = c
      <4>1. Write(c) /\ Op(c) = "remove"
        BY <1>3, <2>3, <3>1, WriteFirst DEF Write, Op
      <4>2. mem' = [mem EXCEPT !["user"] = NoToken]
        BY <4>1 DEF Write
      <4>3. QED
        BY <1>0, <4>2 DEF DataTyped
    <3>2. CASE d # c
      <4>1. pc[d] = "export" /\ Op(d) = "remove"
        BY <1>3, <2>3, <3>2, ActIsOwn DEF OthersStay, Op
      <4>2. UNCHANGED mem
        BY <1>3, <3>2, <4>1, Alone, DataStays DEF Reading, Writing, Holding
      <4>3. QED
        BY <4>1, <4>2 DEF ForgetInv
    <3>3. QED
      BY <3>1, <3>2
  <2>4. removed \subseteq removed' /\ removed \subseteq Tokens
    BY <1>0, <1>3, ExportOnly DEF Export, DataTyped
  <2>5. ASSUME NEW d \in Callers, d # c
        PROVE  forgot'[d] \subseteq removed' /\ seen'[d] \notin forgot'[d] /\ result'[d] \notin forgot'[d]
    BY <1>3, <2>4, <2>5, ActIsOwn DEF OthersStay, ForgetInv
  <2>6. \A s \in Slots : mem[s] \notin forgot[c]
    <3>1. ASSUME NEW s \in Slots, mem[s] \in forgot[c] PROVE FALSE
      <4>1. mem[s] \in Tokens /\ mem[s] \in removed
        BY <2>4, <3>1 DEF ForgetInv
      <4>2. IsAt(s, mem[s]) /\ IsAt("user", mem[s])
        BY <4>1 DEF IsAt
      <4>3. s = "user"
        BY <1>0, <4>1, <4>2 DEF Serials, OneSlot
      <4>4. QED
        BY <4>1, <4>3 DEF ForgetInv
    <3>2. QED
      BY <3>1
  <2>7. pc[c] = "read" => mem[Slot(c)] \notin forgot[c]
    BY <1>0, <2>6 DEF CallsTyped, Arguments, Slot
  <2>8. NoToken \notin forgot[c] /\ got[c] \notin forgot[c]
    BY <1>0, <2>4 DEF CallsTyped, Serials, GotIsFresh, ForgetInv
  <2>9. forgot'[c] \subseteq removed' /\ seen'[c] \notin forgot'[c] /\ result'[c] \notin forgot'[c]
    <3>1. CASE forgot' = [forgot EXCEPT ![c] = removed] /\ result'[c] = NoToken
      <4>1. forgot'[c] = removed
        BY <1>0, <3>1 DEF DataTyped
      <4>2. CASE seen'[c] = NoToken
        BY <1>0, <2>4, <3>1, <4>1, <4>2
      <4>3. CASE seen'[c] = seen[c] /\ pc[c] = "idle"
        BY <1>0, <2>4, <3>1, <4>1, <4>3 DEF CallsTyped, Arguments
      <4>4. CASE UNCHANGED forgot
        BY <1>0, <1>3, <2>4, <2>7, <2>8, <3>1, <4>4, OwnCopies DEF ForgetInv
      <4>5. UNCHANGED forgot \/ (pc[c] = "idle" /\ UNCHANGED seen)
        BY <1>3 DEF Act, Step, Start, RLock, Lock, RFetch, RFail, RLoad, Serve, Replaceable,
           Miss, Granted, Refused, Drained, WFetch, WFail, WLoad, Write, WriteFail, Export,
           Abort, history
      <4>6. QED
        BY <4>2, <4>3, <4>4, <4>5
    <3>2. CASE UNCHANGED forgot
      <4>1. forgot'[c] = forgot[c] /\ forgot[c] \subseteq removed
        BY <3>2 DEF ForgetInv
      <4>2. seen'[c] \in {NoToken, seen[c]} \/ (pc[c] = "read" /\ seen'[c] = mem[Slot(c)])
        BY <1>3, OwnCopies
      <4>3. seen'[c] \notin forgot[c]
        BY <2>7, <2>8, <4>2 DEF ForgetInv
      <4>4. result'[c] \in {NoToken, result[c], seen[c], got[c]}
               \/ (pc[c] = "read" /\ result'[c] = mem[Slot(c)])
               \/ result'[c] = NoToken
        BY <1>3, OwnResult
      <4>5. result'[c] \notin forgot[c]
        BY <2>7, <2>8, <4>4 DEF ForgetInv
      <4>6. QED
        BY <2>4, <4>1, <4>3, <4>5
    <3>3. QED
      BY <1>3, <3>1, <3>2, OwnResult
  <2>10. QED
    BY <2>1, <2>2, <2>3, <2>5, <2>9 DEF ForgetInv
<1>4. QED
  BY <1>1, <1>2, <1>3, NextIsAct

LEMMA InitForget == Init => Serials /\ ForgetInv
<1> SUFFICES ASSUME Init PROVE Serials /\ ForgetInv
  OBVIOUS
<1>1. \A s \in Slots, t \in Tokens : ~IsAt(s, t)
  BY DEF Init, IsAt, Tokens, NoToken, ManagerSlots
<1>2. Serials
  BY <1>1 DEF Init, Serials, OneSlot, GotIsFresh
<1>3. ForgetInv
  BY KeysAssumption, SlotsAssumption DEF Init, ForgetInv
<1>4. QED
  BY <1>2, <1>3

(* No call that begins after a RemoveAccount returns a token it forgot,    *)
(* whatever Replace and Export bring back, in this process or a later one, *)
(* where the store is one file.  With a blob per partition key it is false *)
(* of the code: the blobs of other keys keep the forgotten token.          *)
THEOREM ForgottenForGood ==
    ASSUME OneFile
    PROVE  Spec => []ForgottenStaysForgotten
<1> DEFINE Inv == Typed /\ LoadedInv /\ Serials /\ ForgetInv
<1>1. Init => Inv
  BY InitTyped, InitLoaded, InitForget
<1>2. Inv /\ [Next]_vars => Inv'
  BY TypedStep, LoadedStep, SerialsStep, ForgetStep
<1>3. Inv => ForgottenStaysForgotten
  BY DEF ForgetInv, ForgottenStaysForgotten
<1> HIDE DEF Inv
<1>4. QED
  BY <1>1, <1>2, <1>3, PTL DEF Spec

-----------------------------------------------------------------------------
(* What was found stays findable.                                          *)

LEMMA HadMoves ==
    ASSUME Typed, NEW c \in Callers, Act(c), c \notin had \/ pc[c] # "idle"
    PROVE  /\ had' \ {c} \subseteq had
           /\ c \in had' =>
                \/ /\ c \in had /\ pc'[c] # "idle" /\ UNCHANGED call
                   /\ pc'[c] = "read" => pc[c] = "rload" /\ mem' = Loaded(c) /\ ~Unloadable(c)
                \/ /\ RFetch(c)
                   /\ Slot(c) \in DOMAIN store[Key(c)] /\ store[Key(c)][Slot(c)] # NoToken
           /\ Write(c) /\ Op(c) = "remove" => \A d \in had' : Slot(d) # "user"
<1> USE DEF history
<1>0. CallsTyped /\ DataTyped
  BY TypedParts
<1>1. ASSUME NEW op \in Ops, NEW s \in Slots, Start(c, op, s)
      PROVE  had' \subseteq had /\ c \notin had'
  BY <1>1 DEF Start
<1>2. CASE RFetch(c)
  <2>1. pc[c] = "rfetch" /\ pc'[c] = "rload" /\ UNCHANGED call
    BY <1>0, <1>2 DEF CallsTyped, RFetch, Goto
  <2>2. \/ had' = had
        \/ /\ had' = had \cup {c}
           /\ Slot(c) \in DOMAIN store[Key(c)] /\ store[Key(c)][Slot(c)] # NoToken
    BY <1>2 DEF RFetch
  <2>3. ~Write(c)
    BY <2>1 DEF Write
  <2>4. QED
    BY <1>2, <2>1, <2>2, <2>3
<1>3. CASE \/ RLock(c) \/ Lock(c) \/ Drained(c) \/ WFetch(c) \/ Replaceable(c) \/ Granted(c)
  <2>1. pc'[c] \notin {"idle", "read"} /\ UNCHANGED <<call, had>> /\ pc[c] # "write"
    BY <1>0, <1>3 DEF CallsTyped, RLock, Lock, Drained, WFetch, Replaceable, Granted, Goto
  <2>2. QED
    BY <2>1 DEF Write
<1>4. CASE Write(c)
  <2>1. pc'[c] = "export" /\ UNCHANGED call /\ had' \subseteq had
        /\ (Op(c) = "remove" => \A d \in had' : Slot(d) # "user")
    BY <1>0, <1>4 DEF CallsTyped, Write, Goto
  <2>2. QED
    BY <2>1
<1> DEFINE Left == Fail(c) \/ Return(c, NoToken) \/ Return(c, got[c]) \/ Return(c, seen[c])
                   \/ Return(c, mem[Slot(c)])
<1>5. ASSUME pc[c] # "idle", Left PROVE had' = had \ {c}
  <2>1. CASE Fail(c)
    BY <1>5, <2>1, FailIsWayOut DEF Return, GoesOn
  <2>2. QED
    BY <1>5, <2>1 DEF Return
<1>6. CASE RFail(c) \/ Serve(c) \/ Miss(c) \/ Refused(c) \/ WFail(c) \/ Export(c)
  <2>1. pc[c] # "idle" /\ Left /\ ~Write(c)
    BY <1>6 DEF RFail, Serve, Miss, Refused, WFail, Export, Abort, Write
  <2>2. QED
    BY <1>5, <2>1
<1>7. CASE WriteFail(c)
  <2>1. pc[c] # "idle" /\ Left /\ Op(c) # "remove"
    BY <1>7 DEF WriteFail, Abort
  <2>2. QED
    BY <1>5, <2>1
<1>8. CASE RLoad(c)
  <2>1. pc[c] = "rload" /\ ~Write(c)
    BY <1>8 DEF RLoad, Write
  <2>2. CASE Left
    BY <1>5, <2>1, <2>2
  <2>3. CASE ~Unloadable(c) /\ mem' = Loaded(c) /\ Goto(c, "read") /\ UNCHANGED <<call, had>>
    <3>1. pc'[c] = "read"
      BY <1>0, <2>3 DEF CallsTyped, Goto
    <3>2. QED
      BY <2>1, <2>3, <3>1
  <2>4. QED
    BY <1>8, <2>2, <2>3 DEF RLoad
<1>9. CASE WLoad(c)
  <2>1. pc[c] = "wload" /\ ~Write(c)
    BY <1>9 DEF WLoad, Write
  <2>2. CASE Left
    BY <1>5, <2>1, <2>2
  <2>3. CASE Goto(c, "write") /\ UNCHANGED <<call, had>>
    <3>1. pc'[c] = "write"
      BY <1>0, <2>3 DEF CallsTyped, Goto
    <3>2. QED
      BY <2>1, <2>3, <3>1
  <2>4. QED
    BY <1>9, <2>2, <2>3 DEF WLoad, Abort
<1>10. ASSUME NEW op \in Ops, NEW s \in Slots, Start(c, op, s) PROVE ~Write(c)
  BY <1>10 DEF Start, Write
<1>11. QED
  BY <1>1, <1>2, <1>3, <1>4, <1>6, <1>7, <1>8, <1>9, <1>10 DEF Act, Step

LEMMA FileKeeps ==
    ASSUME OneFile, Typed, LoadedInv, NEW c \in Callers, Act(c), NEW s \in ManagerSlots,
           store[AccountsKey] # Absent, store[AccountsKey][s] # NoToken,
           pc[c] = "export" /\ Op(c) = "remove" => s # "user"
    PROVE  store'[AccountsKey] # Absent /\ store'[AccountsKey][s] # NoToken
<1>0. CallsTyped /\ DataTyped
  BY TypedParts
<1>1. CASE UNCHANGED <<store, exported, removed>>
  BY <1>1
<1>2. CASE Export(c)
  <2>1. pc[c] = "export" /\ store' = [store EXCEPT ![Key(c)] = Snapshot]
    BY <1>2 DEF Export, ExportedStore
  <2>2. CASE Key(c) # AccountsKey
    BY <1>0, <2>1, <2>2, KeysAssumption DEF DataTyped
  <2>3. CASE Key(c) = AccountsKey
    <3>1. store'[AccountsKey] # Absent /\ store'[AccountsKey][s] = mem[s]
      BY <1>0, <2>1, <2>3, SnapshotIsThere, KeysAssumption DEF DataTyped
    <3>2. \/ mem[s] = store[AccountsKey][s]
          \/ s = Slot(c) /\ (Op(c) = "remove" \/ mem[s] = got[c])
      BY <2>1, <2>3 DEF LoadedInv
    <3>3. CASE mem[s] # store[AccountsKey][s] /\ Op(c) = "remove"
      BY <1>0, <2>1, <3>2, <3>3 DEF CallsTyped, Arguments
    <3>4. CASE mem[s] # store[AccountsKey][s] /\ Op(c) # "remove"
      <4>1. mem[s] = got[c] /\ got[c] \in Tokens
        BY <1>0, <2>1, <3>2, <3>4 DEF CallsTyped, OpsWhere, Writing
      <4>2. QED
        BY <3>1, <4>1 DEF Tokens, NoToken
    <3>5. QED
      BY <3>1, <3>3, <3>4
  <2>4. QED
    BY <2>2, <2>3
<1>3. QED
  BY <1>1, <1>2, ExportOnly

LEMMA MemoryKeeps ==
    ASSUME OneFile, Typed, LoadedInv, NEW c \in Callers, Act(c), NEW s \in ManagerSlots,
           store[AccountsKey] # Absent, store[AccountsKey][s] # NoToken, mem[s] # NoToken,
           Write(c) /\ Op(c) = "remove" => s # "user"
    PROVE  mem'[s] # NoToken
<1>0. CallsTyped /\ DataTyped /\ s \in Slots
  BY TypedParts DEF ManagerSlots
<1>1. CASE pc[c] \in {"rload", "wload"} /\ ~Unloadable(c) /\ mem' = Loaded(c)
  BY <1>0, <1>1, LoadsTheFile
<1>2. CASE pc[c] = "write" /\ Op(c) # "remove" /\ mem' = [mem EXCEPT ![Slot(c)] = got[c]]
  <2>1. got[c] \in Tokens
    BY <1>0, <1>2 DEF CallsTyped, OpsWhere, Writing
  <2>2. mem'[s] \in {mem[s], got[c]}
    BY <1>0, <1>2 DEF DataTyped
  <2>3. QED
    BY <2>1, <2>2 DEF Tokens, NoToken
<1>3. CASE pc[c] = "write" /\ Op(c) = "remove" /\ mem' = [mem EXCEPT !["user"] = NoToken]
  <2>1. Write(c) \/ UNCHANGED mem
    BY <1>3 DEF Act, Step, Start, RLock, Lock, RFetch, RFail, RLoad, Serve, Replaceable, Miss,
       Granted, Refused, Drained, WFetch, WFail, WLoad, WriteFail, Export
  <2>2. QED
    BY <1>0, <1>3, <2>1 DEF DataTyped
<1>4. QED
  BY <1>1, <1>2, <1>3, MemoryCopies

LEMMA FoundStep ==
    ASSUME OneFile, Typed, LoadedInv, FoundInv, [Next]_vars
    PROVE  FoundInv'
<1>0. CallsTyped /\ DataTyped
  BY TypedParts
<1>1. CASE UNCHANGED vars
  BY <1>1 DEF vars, history, FoundInv, Op, Slot
<1>2. CASE Restart
  BY <1>2 DEF Restart, FoundInv
<1>3. ASSUME NEW c \in Callers, Act(c) PROVE FoundInv'
  <2> SUFFICES ASSUME NEW e \in had'
               PROVE  /\ pc'[e] # "idle" /\ Slot(e)' \in ManagerSlots
                      /\ store'[AccountsKey] # Absent /\ store'[AccountsKey][Slot(e)'] # NoToken
                      /\ pc'[e] = "read" => mem'[Slot(e)'] # NoToken
                      /\ \A d \in Callers :
                            pc'[d] = "export" /\ Op(d)' = "remove" => Slot(e)' # "user"
    BY DEF FoundInv
  <2>1. e \in Callers /\ had' \subseteq Callers
    BY CallsStep DEF CallsTyped
  <2>2. c \notin had \/ pc[c] # "idle"
    BY DEF FoundInv
  <2>3. \/ e \in had /\ pc'[e] # "idle" /\ Slot(e)' = Slot(e)
        \/ e = c /\ RFetch(c)
    <3>1. CASE e # c
      <4>1. e \in had /\ pc'[e] = pc[e] /\ Slot(e)' = Slot(e)
        BY <1>3, <2>1, <2>2, <3>1, HadMoves, ActIsOwn DEF OthersStay, Slot
      <4>2. QED
        BY <4>1 DEF FoundInv
    <3>2. CASE e = c
      BY <1>3, <2>2, <3>2, HadMoves DEF Slot
    <3>3. QED
      BY <3>1, <3>2
  <2>4. ASSUME NEW d \in Callers, pc'[d] = "export", Op(d)' = "remove", Slot(e)' = "user"
        PROVE  FALSE
    <3>1. CASE d = c
      <4>1. Write(c) /\ Op(c) = "remove" /\ ~RFetch(c)
        BY <1>3, <2>4, <3>1, WriteFirst DEF Write, Op, RFetch
      <4>2. Slot(e) = "user"
        BY <2>3, <2>4, <4>1
      <4>3. QED
        BY <1>3, <2>2, <4>1, <4>2, HadMoves
    <3>2. CASE d # c
      <4>1. pc[d] = "export" /\ Op(d) = "remove"
        BY <1>3, <2>4, <3>2, ActIsOwn DEF OthersStay, Op
      <4>2. ~RFetch(c)
        BY <3>2, <4>1, Alone DEF RFetch, Reading, Writing
      <4>3. QED
        BY <2>3, <2>4, <4>1, <4>2 DEF FoundInv
    <3>3. QED
      BY <3>1, <3>2
  <2>5. CASE e \in had /\ pc'[e] # "idle" /\ Slot(e)' = Slot(e)
    <3>1. /\ Slot(e) \in ManagerSlots /\ store[AccountsKey] # Absent
          /\ store[AccountsKey][Slot(e)] # NoToken
          /\ pc[e] = "read" => mem[Slot(e)] # NoToken
      BY <2>5 DEF FoundInv
    <3>2. store'[AccountsKey] # Absent /\ store'[AccountsKey][Slot(e)] # NoToken
      <4>1. pc[c] = "export" /\ Op(c) = "remove" => Slot(e) # "user"
        BY <2>5 DEF FoundInv
      <4>2. QED
        BY <1>3, <3>1, <4>1, FileKeeps
    <3>3. ASSUME pc'[e] = "read" PROVE mem'[Slot(e)] # NoToken
      <4>1. CASE pc[e] = "read"
        <5>1. Write(c) /\ Op(c) = "remove" => Slot(e) # "user"
          BY <1>3, <2>2, HadMoves
        <5>2. QED
          BY <1>3, <3>1, <4>1, <5>1, MemoryKeeps
      <4>2. CASE pc[e] # "read"
        <5>1. e = c
          BY <1>3, <2>1, <3>3, <4>2, ActIsOwn DEF OthersStay
        <5>2. pc[c] = "rload" /\ mem' = Loaded(c) /\ ~Unloadable(c)
          <6>1. ~RFetch(c)
            BY <1>0, <3>3, <5>1 DEF CallsTyped, RFetch, Goto
          <6>2. QED
            BY <1>3, <2>2, <3>3, <5>1, <6>1, HadMoves
        <5>3. Key(c) = AccountsKey /\ Slot(c) \in Slots
          BY <3>1, <5>1, <5>2, FileKey DEF ManagerSlots
        <5>4. QED
          BY <3>1, <5>1, <5>2, <5>3, LoadsTheFile
      <4>3. QED
        BY <4>1, <4>2
    <3>4. QED
      BY <2>4, <2>5, <3>1, <3>2, <3>3
  <2>6. CASE e = c /\ RFetch(c) /\ e \notin had
    <3>1. pc[c] = "rfetch" /\ pc'[c] = "rload" /\ UNCHANGED store /\ Slot(c)' = Slot(c)
      BY <1>0, <2>6 DEF CallsTyped, RFetch, Goto, Slot
    <3>2. Slot(c) \in DOMAIN store[Key(c)] /\ store[Key(c)][Slot(c)] # NoToken
      BY <1>3, <2>2, <2>6, HadMoves
    <3>3. Key(c) \in Keys
      BY <1>0, <3>1, KeysAssumption, SlotsAssumption DEF CallsTyped, Arguments, Key, Op, Slot
    <3>4. store[Key(c)] \in Snapshots \cup {Absent}
      BY <1>0, <3>3 DEF DataTyped
    <3>5. store[Key(c)] # Absent /\ Slot(c) \in ManagerSlots
      BY <3>2, <3>4 DEF Absent, Snapshots
    <3>6. Key(c) = AccountsKey
      BY <3>1, <3>5, FileKey DEF ManagerSlots
    <3>7. QED
      BY <2>4, <2>6, <3>1, <3>2, <3>5, <3>6
  <2>7. CASE e = c /\ e \in had /\ RFetch(c)
    <3>1. pc'[c] = "rload" /\ Slot(c)' = Slot(c)
      BY <1>0, <2>7 DEF CallsTyped, RFetch, Goto, Slot
    <3>2. QED
      BY <2>5, <2>7, <3>1
  <2>8. QED
    BY <2>3, <2>5, <2>6, <2>7
<1>4. QED
  BY <1>1, <1>2, <1>3, NextIsAct

(* A silent call whose slot the file held when its Replace read it, and    *)
(* that RemoveAccount did not forget meanwhile, finds it in the memory,    *)
(* which it reads after it let go of the lock.  With a blob per partition  *)
(* key another key's Replace can take it away in between.                  *)
THEOREM FoundInMemory ==
    ASSUME OneFile
    PROVE  Spec => []StoredIsFound
<1> DEFINE Inv == Typed /\ LoadedInv /\ FoundInv
<1>1. Init => Inv
  BY InitTyped, InitLoaded DEF Init, FoundInv
<1>2. Inv /\ [Next]_vars => Inv'
  BY TypedStep, LoadedStep, FoundStep
<1>3. Inv => StoredIsFound
  BY DEF FoundInv, StoredIsFound
<1> HIDE DEF Inv
<1>4. QED
  BY <1>1, <1>2, <1>3, PTL DEF Spec
=============================================================================
