-------------------------- MODULE TokenStoreProofs --------------------------
(***************************************************************************)
(* Proofs about TokenStore, for every set of goroutines, environments and  *)
(* aliases, every external contract and every bound.                       *)
(*                                                                         *)
(* Typing needs the shape of what a read has left and that only v1.0 keys  *)
(* are upgraded; ReadsChangeNothing follows from it.  RemovedStaysRemoved  *)
(* and ReadFinds have inductive invariants of their own, RemovalInv and    *)
(* FindingInv, each explained where it is defined.                         *)
(***************************************************************************)
EXTENDS TokenStore, TLAPS

(* What is left of a read.                                                 *)
ReadLefts ==
    {<<"at", "idt", "app", "rt", "account">>, <<"idt", "app", "rt", "account">>,
     <<"app", "rt", "account">>, <<"rt", "account">>, <<"account">>, <<>>}

ReadsInOrder == \A c \in Callers : op[c] = "read" => left[c] \in ReadLefts

UpgradesOld == \A c \in Callers : pc[c] = "upgrade" => key[c][3] = "v1.0"

Typed == TypeOK /\ ReadsInOrder /\ UpgradesOld

-----------------------------------------------------------------------------
(* What the operators return.                                              *)

LEMMA ReadTail ==
    ASSUME NEW s \in ReadLefts, s # <<>>
    PROVE  /\ s \in Seq(Kinds) /\ Head(s) \in Kinds
           /\ Tail(s) \in ReadLefts
           /\ Head(s) = "app" => Tail(Tail(s)) \in ReadLefts /\ Head(Tail(s)) = "rt"
<1> USE DEF ReadLefts, Kinds
<1>1. CASE s = <<"at", "idt", "app", "rt", "account">>
  BY <1>1
<1>2. CASE s = <<"idt", "app", "rt", "account">>
  BY <1>2
<1>3. CASE s = <<"app", "rt", "account">>
  <2>1. s \in Seq(Kinds) /\ Head(s) = "app"
    BY <1>3
  <2>2. Tail(s) = <<"rt", "account">>
    BY <1>3
  <2>3. Tail(<<"rt", "account">>) = <<"account">> /\ Head(<<"rt", "account">>) = "rt"
    OBVIOUS
  <2>4. QED
    BY <2>1, <2>2, <2>3
<1>4. CASE s = <<"rt", "account">>
  BY <1>4
<1>5. CASE s = <<"account">>
  BY <1>5
<1>6. QED
  BY <1>1, <1>2, <1>3, <1>4, <1>5

LEMMA ReadLeftsTyped == ReadLefts \subseteq Seq(Kinds)
BY DEF ReadLefts, Kinds

LEMMA TailTyped ==
    ASSUME NEW s \in Seq(Kinds), s # <<>>
    PROVE  Tail(s) \in Seq(Kinds) /\ Head(s) \in Kinds /\ Tail(s) # s
<1>1. Len(s) \in Nat \ {0} /\ Len(Tail(s)) = Len(s) - 1
  OBVIOUS
<1>2. Tail(s) # s
  <2>1. PICK t : t = Tail(s)
    OBVIOUS
  <2>2. Len(t) = Len(s) - 1
    BY <1>1, <2>1, Zenon
  <2>3. t # s
    BY <1>1, <2>2
  <2>4. QED
    BY <2>1, <2>3, Zenon
<1>3. QED
  BY <1>2

LEMMA OrdersTyped ==
    /\ ReadOrder \in ReadLefts \ {<<>>}
    /\ RemoveOrder \in Seq(Kinds) \ {<<>>}
    /\ WriteOrders \subseteq Seq(Kinds) \ {<<>>}
BY DEF ReadOrder, RemoveOrder, WriteOrders, ReadLefts, Kinds

LEMMA KeyParts ==
    ASSUME NEW k \in Keys
    PROVE  New(k) \in Keys /\ k = <<k[1], k[2], k[3]>> /\ k[1] \in Kinds
BY DEF Keys, New, Schemas

LEMMA BlobsTyped == Blobs \subseteq Contracts
BY BlobsAssumption, BoundsAssumption DEF Contracts, Values, Older, Newer, NoItem

LEMMA UpgradedTyped ==
    ASSUME NEW m \in Contracts, NEW k \in Keys
    PROVE  Upgraded(m, k) \in Contracts
BY KeyParts DEF Contracts, Upgraded, NoItem, Values

LEMMA ClearedTyped ==
    ASSUME NEW m \in Contracts, NEW kind, NEW e
    PROVE  Cleared(m, kind, e) \in Contracts
BY DEF Contracts, Cleared

(* An upgrade keeps the newest item of every kind and environment.         *)
LEMMA UpgradedNewest ==
    ASSUME NEW m \in Contracts, NEW k \in Keys, k[3] = "v1.0",
           NEW kind \in Kinds, NEW e \in Envs
    PROVE  Newest(Upgraded(m, k), kind, e) = Newest(m, kind, e)
<1>1. New(k) \in Keys /\ k = <<k[1], k[2], k[3]>>
  BY KeyParts
<1>2. <<kind, e, "v1.0">> \in Keys /\ <<kind, e, "v1.1">> \in Keys
  BY DEF Keys, Schemas
<1>3. CASE k = <<kind, e, "v1.0">>
  <2>1. New(k) = <<kind, e, "v1.1">>
    BY <1>3 DEF New
  <2>2. <<kind, e, "v1.1">> # <<kind, e, "v1.0">>
    OBVIOUS
  <2>3. QED
    BY <1>1, <1>2, <1>3, <2>1, <2>2 DEF Contracts, Upgraded, Newest
<1>4. CASE k # <<kind, e, "v1.0">>
  <2>1. New(k) # <<kind, e, "v1.1">>
    BY <1>1, <1>4 DEF New
  <2>2. New(k) # <<kind, e, "v1.0">>
    BY DEF New
  <2>3. k # <<kind, e, "v1.1">>
    BY <1>1
  <2>4. QED
    BY <1>1, <1>2, <1>4, <2>1, <2>2, <2>3 DEF Contracts, Upgraded, Newest
<1>5. QED
  BY <1>3, <1>4

-----------------------------------------------------------------------------
(* Type correctness.                                                       *)

LEMMA InitTyped == Init => Typed
<1> SUFFICES ASSUME Init PROVE Typed
  OBVIOUS
<1>1. Host \in Envs /\ NoKey \in Keys
  BY HostAssumption DEF NoKey, Keys, Kinds, Schemas
<1>2. [k \in Keys |-> NoItem] \in Contracts
  BY DEF Contracts
<1>3. maps \in Seq(Contracts) /\ Len(maps) = 1
  BY <1>2 DEF Init
<1>4. <<>> \in Seq(Kinds) /\ <<>> \in ReadLefts
  BY DEF ReadLefts
<1>5. TypeOK
  BY <1>1, <1>3, <1>4, BoundsAssumption DEF Init, TypeOK, NoItem
<1>6. QED
  BY <1>4, <1>5 DEF Init, Typed, ReadsInOrder, UpgradesOld

(* A method begins.                                                        *)
LEMMA BeginTyped ==
    ASSUME Typed, NEW c \in Callers, NEW o \in {"read", "write", "remove"},
           NEW e \in Envs, NEW order \in Seq(Kinds) \ {<<>>},
           o = "read" => order \in ReadLefts,
           Begin(c, o, e, order),
           writes' \in 0..MaxWrites, serial' \in [Callers -> 0..MaxWrites],
           \A d \in Callers : op'[d] = "write" => serial'[d] \in 1..writes'
    PROVE  Typed'
<1>1. TypeOK'
  BY DEF Begin, Typed, TypeOK
<1>2. ReadsInOrder'
  BY DEF Begin, Typed, TypeOK, ReadsInOrder
<1>3. UpgradesOld'
  BY DEF Begin, Typed, TypeOK, UpgradesOld
<1>4. QED
  BY <1>1, <1>2, <1>3 DEF Typed

(* A method goes on to what is left.                                       *)
LEMMA GotoTyped ==
    ASSUME Typed, NEW c \in Callers, pc[c] # "idle", NEW rest \in Seq(Kinds),
           op[c] = "read" => rest \in ReadLefts,
           Goto(c, rest), UNCHANGED <<callVars, writes>>,
           maps' \in Seq(Contracts), Len(maps') = Len(maps),
           key' \in [Callers -> Keys], held' \in [Callers -> 1..Len(maps)],
           found' \in [Callers -> SUBSET Kinds],
           \A d \in Callers : d # c => key'[d] = key[d]
    PROVE  Typed'
<1>1. TypeOK'
  BY DEF Goto, Typed, TypeOK, callVars
<1>2. ReadsInOrder'
  BY DEF Goto, Typed, TypeOK, ReadsInOrder, callVars
<1>3. UpgradesOld'
  BY DEF Goto, Typed, TypeOK, UpgradesOld, callVars
<1>4. QED
  BY <1>1, <1>2, <1>3 DEF Typed

LEMMA StartTyped ==
    ASSUME Typed, NEW c \in Callers,
           \/ StartRead(c)
           \/ \E order \in WriteOrders : StartWrite(c, order)
           \/ \E e \in Envs : StartRemove(c, e)
    PROVE  Typed'
<1>1. Host \in Envs
  BY HostAssumption
<1>2. CASE StartRead(c)
  <2>1. ReadOrder \in Seq(Kinds) \ {<<>>}
    BY OrdersTyped, ReadLeftsTyped
  <2>2. Begin(c, "read", Host, ReadOrder) /\ UNCHANGED <<serial, writes>>
    BY <1>2 DEF StartRead
  <2>3. \A d \in Callers : op'[d] = "write" => serial'[d] \in 1..writes'
    BY <2>2 DEF Begin, Typed, TypeOK
  <2>4. writes' \in 0..MaxWrites /\ serial' \in [Callers -> 0..MaxWrites]
    BY <2>2 DEF Typed, TypeOK
  <2>5. QED
    BY <1>1, <2>1, <2>2, <2>3, <2>4, BeginTyped, OrdersTyped
<1>3. ASSUME NEW order \in WriteOrders, StartWrite(c, order)
      PROVE  Typed'
  <2>1. order \in Seq(Kinds) \ {<<>>}
    BY OrdersTyped
  <2>2. /\ Begin(c, "write", Host, order) /\ writes < MaxWrites
        /\ writes' = writes + 1 /\ serial' = [serial EXCEPT ![c] = writes + 1]
    BY <1>3 DEF StartWrite
  <2>3. \A d \in Callers : op'[d] = "write" => serial'[d] \in 1..writes'
    BY <2>2, BoundsAssumption DEF Begin, Typed, TypeOK
  <2>4. writes' \in 0..MaxWrites /\ serial' \in [Callers -> 0..MaxWrites]
    BY <2>2, BoundsAssumption DEF Typed, TypeOK
  <2>5. QED
    BY <1>1, <2>1, <2>2, <2>3, <2>4, BeginTyped
<1>4. ASSUME NEW e \in Envs, StartRemove(c, e)
      PROVE  Typed'
  <2>1. Begin(c, "remove", e, RemoveOrder) /\ UNCHANGED <<serial, writes>>
    BY <1>4 DEF StartRemove
  <2>2. \A d \in Callers : op'[d] = "write" => serial'[d] \in 1..writes'
    BY <2>1 DEF Begin, Typed, TypeOK
  <2>3. writes' \in 0..MaxWrites /\ serial' \in [Callers -> 0..MaxWrites]
    BY <2>1 DEF Typed, TypeOK
  <2>4. QED
    BY <2>1, <2>2, <2>3, BeginTyped, OrdersTyped
<1>5. QED
  BY <1>2, <1>3, <1>4

(* What is left of a running method.                                       *)
LEMMA LeftTyped ==
    ASSUME Typed, NEW c \in Callers, pc[c] # "idle"
    PROVE  /\ left[c] \in Seq(Kinds) /\ left[c] # <<>>
           /\ Head(left[c]) \in Kinds /\ Tail(left[c]) \in Seq(Kinds)
           /\ Tail(left[c]) # left[c]
           /\ op[c] = "read" =>
               /\ Tail(left[c]) \in ReadLefts
               /\ Head(left[c]) = "app" => Tail(Tail(left[c])) \in ReadLefts
<1>1. left[c] \in Seq(Kinds) /\ left[c] # <<>>
  BY DEF Typed, TypeOK
<1>2. op[c] = "read" => left[c] \in ReadLefts
  BY DEF Typed, ReadsInOrder
<1>3. QED
  BY <1>1, <1>2, TailTyped, ReadTail

LEMMA CurrentTyped ==
    ASSUME Typed
    PROVE  maps \in Seq(Contracts) /\ Len(maps) \in Nat \ {0} /\ Current \in Contracts
BY BoundsAssumption DEF Typed, TypeOK, Current

LEMMA ReadStepTyped ==
    ASSUME Typed, NEW c \in Callers, Find(c) \/ FindNothing(c)
    PROVE  Typed'
<1>1. pc[c] = "run" /\ op[c] = "read" /\ UNCHANGED <<maps, callVars, writes>>
  BY DEF Find, FindNothing, Running
<1>2. maps' \in Seq(Contracts) /\ Len(maps') = Len(maps)
  BY <1>1, CurrentTyped
<1>3. UNCHANGED <<key, held>> => key' \in [Callers -> Keys] /\ held' \in [Callers -> 1..Len(maps)]
  BY DEF Typed, TypeOK
<1>4. ASSUME NEW rest \in ReadLefts, Goto(c, rest), UNCHANGED <<key, held>>,
             found' \in [Callers -> SUBSET Kinds]
      PROVE  Typed'
  <2>1. rest \in Seq(Kinds)
    BY ReadLeftsTyped
  <2>2. pc[c] # "idle"
    BY <1>1
  <2>3. QED
    BY <1>1, <1>2, <1>3, <1>4, <2>1, <2>2, GotoTyped
<1>5. CASE FindNothing(c)
  <2>1. found' \in [Callers -> SUBSET Kinds] /\ UNCHANGED <<key, held>>
    BY <1>5 DEF FindNothing, Typed, TypeOK
  <2>2. PICK rest \in ReadLefts : Goto(c, rest)
    BY <1>1, <1>5, LeftTyped DEF FindNothing
  <2>3. QED
    BY <1>4, <2>1, <2>2
<1>6. CASE Find(c)
  <2>1. PICK k \in Matching(Current, Head(left[c])) :
          \/ /\ k[3] = "v1.1"
             /\ found' = [found EXCEPT ![c] = @ \cup {k[1]}]
             /\ Goto(c, Tail(left[c]))
             /\ UNCHANGED <<key, held>>
          \/ /\ k[3] = "v1.0"
             /\ pc' = [pc EXCEPT ![c] = "upgrade"]
             /\ key' = [key EXCEPT ![c] = k]
             /\ held' = [held EXCEPT ![c] = Len(maps)]
             /\ UNCHANGED <<found, left>>
    BY <1>6 DEF Find
  <2>2. k \in Keys /\ k[1] = Head(left[c]) /\ k[1] \in Kinds
    BY <1>1, LeftTyped, HostAssumption DEF Matching, Keys
  <2>3. CASE k[3] = "v1.1"
    <3>1. Goto(c, Tail(left[c])) /\ UNCHANGED <<key, held>>
      BY <2>1, <2>3
    <3>2. found' = [found EXCEPT ![c] = @ \cup {k[1]}]
      BY <2>1, <2>3
    <3>3. found' \in [Callers -> SUBSET Kinds]
      BY <2>2, <3>2 DEF Typed, TypeOK
    <3>4. Tail(left[c]) \in ReadLefts
      BY <1>1, LeftTyped
    <3>5. QED
      BY <1>4, <3>1, <3>3, <3>4
  <2>4. CASE k[3] = "v1.0"
    <3>1. /\ pc' = [pc EXCEPT ![c] = "upgrade"] /\ key' = [key EXCEPT ![c] = k]
          /\ held' = [held EXCEPT ![c] = Len(maps)] /\ UNCHANGED <<found, left>>
      BY <2>1, <2>4
    <3>2. TypeOK'
      BY <1>1, <2>2, <3>1, CurrentTyped, LeftTyped DEF Typed, TypeOK, callVars
    <3>3. ReadsInOrder' /\ UpgradesOld'
      BY <1>1, <2>4, <3>1 DEF Typed, TypeOK, ReadsInOrder, UpgradesOld, callVars
    <3>4. QED
      BY <3>2, <3>3 DEF Typed
  <2>5. QED
    BY <2>1, <2>3, <2>4
<1>7. QED
  BY <1>5, <1>6

(* What the steps that change a map do to the contracts.                   *)
LEMMA UpgradeMaps ==
    ASSUME Typed, NEW c \in Callers, Upgrade(c)
    PROVE  /\ maps' \in Seq(Contracts) /\ Len(maps') = Len(maps)
           /\ key[c] \in Keys /\ key[c][3] = "v1.0" /\ op[c] = "read" /\ pc[c] = "upgrade"
           /\ Current' = Current \/ Current' = Upgraded(Current, key[c])
<1>1. pc[c] = "upgrade" /\ key[c] \in Keys /\ key[c][3] = "v1.0" /\ op[c] = "read"
  BY DEF Upgrade, Typed, TypeOK, UpgradesOld
<1>2. maps \in Seq(Contracts) /\ Len(maps) \in Nat \ {0}
  BY CurrentTyped
<1>3. PICK i \in 1..Len(maps) : i = Target(c)
  BY <1>2 DEF Target, Typed, TypeOK
<1>4. PICK m \in Contracts : m = Upgraded(maps[i], key[c])
  BY <1>1, <1>2, UpgradedTyped
<1>5. maps' = [maps EXCEPT ![i] = m]
  BY <1>3, <1>4 DEF Upgrade
<1>6. maps' \in Seq(Contracts) /\ Len(maps') = Len(maps)
  BY <1>2, <1>5
<1>7. CASE i = Len(maps)
  <2>1. maps'[Len(maps)] = m
    BY <1>2, <1>5, <1>7
  <2>2. QED
    BY <1>1, <1>4, <1>6, <1>7, <2>1 DEF Current
<1>8. CASE i # Len(maps)
  <2>1. maps'[Len(maps)] = maps[Len(maps)]
    BY <1>2, <1>5, <1>8
  <2>2. QED
    BY <1>1, <1>6, <2>1 DEF Current
<1>9. QED
  BY <1>7, <1>8

LEMMA PutMaps ==
    ASSUME Typed, NEW c \in Callers, Put(c)
    PROVE  /\ maps' \in Seq(Contracts) /\ Len(maps') = Len(maps)
           /\ op[c] = "write" /\ pc[c] = "run" /\ serial[c] \in 1..writes
           /\ Current' = [Current EXCEPT ![<<Head(left[c]), Host, "v1.1">>] = serial[c]]
<1>1. pc[c] = "run" /\ op[c] = "write" /\ serial[c] \in 1..writes
  BY DEF Put, Running, Typed, TypeOK
<1>2. maps \in Seq(Contracts) /\ Len(maps) \in Nat \ {0} /\ Current \in Contracts
  BY CurrentTyped
<1>3. serial[c] \in Values
  BY <1>1, BoundsAssumption DEF Values, Newer, Typed, TypeOK
<1>4. PICK m : m = [Current EXCEPT ![<<Head(left[c]), Host, "v1.1">>] = serial[c]]
  OBVIOUS
<1>5. m \in Contracts
  BY <1>2, <1>3, <1>4 DEF Contracts
<1>6. maps' = [maps EXCEPT ![Len(maps)] = m]
  BY <1>4 DEF Put, Current
<1>7. maps' \in Seq(Contracts) /\ Len(maps') = Len(maps) /\ maps'[Len(maps)] = m
  BY <1>2, <1>5, <1>6
<1>8. QED
  BY <1>1, <1>4, <1>7 DEF Current

LEMMA DeleteMaps ==
    ASSUME Typed, NEW c \in Callers, Delete(c)
    PROVE  /\ maps' \in Seq(Contracts) /\ Len(maps') = Len(maps)
           /\ op[c] = "remove" /\ pc[c] = "run"
           /\ Current' = Cleared(Current, Head(left[c]), env[c])
<1>1. pc[c] = "run" /\ op[c] = "remove"
  BY DEF Delete, Running
<1>2. maps \in Seq(Contracts) /\ Len(maps) \in Nat \ {0} /\ Current \in Contracts
  BY CurrentTyped
<1>3. PICK m \in Contracts : m = Cleared(Current, Head(left[c]), env[c])
  BY <1>2, ClearedTyped
<1>4. maps' = [maps EXCEPT ![Len(maps)] = m]
  BY <1>3 DEF Delete
<1>5. maps' \in Seq(Contracts) /\ Len(maps') = Len(maps) /\ maps'[Len(maps)] = m
  BY <1>2, <1>4
<1>6. QED
  BY <1>1, <1>3, <1>5 DEF Current

LEMMA UnmarshalMaps ==
    ASSUME Typed, NEW b \in Blobs, Unmarshal(b)
    PROVE  /\ maps' \in Seq(Contracts) /\ Len(maps') = Len(maps) + 1
           /\ Len(maps') \in 1..(MaxLoads + 1)
           /\ Current' = b
<1>1. maps \in Seq(Contracts) /\ Len(maps) \in Nat \ {0}
  BY CurrentTyped
<1>2. b \in Contracts
  BY BlobsTyped
<1>3. maps' = Append(maps, b) /\ Len(maps) <= MaxLoads
  BY DEF Unmarshal
<1>4. QED
  BY <1>1, <1>2, <1>3, BoundsAssumption DEF Current

LEMMA TypedStep == Typed /\ [Next]_vars => Typed'
<1> SUFFICES ASSUME Typed, [Next]_vars PROVE Typed'
  OBVIOUS
<1>1. ASSUME NEW c \in Callers, Upgrade(c) PROVE Typed'
  <2>1. /\ key' = [key EXCEPT ![c] = NoKey] /\ held' = [held EXCEPT ![c] = 1]
        /\ Goto(c, Tail(left[c])) /\ UNCHANGED <<callVars, writes>>
    BY <1>1 DEF Upgrade
  <2>2. found' \in [Callers -> SUBSET Kinds]
    BY <1>1, UpgradeMaps, KeyParts DEF Upgrade, Typed, TypeOK
  <2>3. key' \in [Callers -> Keys] /\ \A d \in Callers : d # c => key'[d] = key[d]
    BY <2>1, HostAssumption DEF Typed, TypeOK, NoKey, Keys, Kinds, Schemas
  <2>4. held' \in [Callers -> 1..Len(maps)]
    BY <2>1, BoundsAssumption DEF Typed, TypeOK
  <2>5. pc[c] # "idle" /\ op[c] = "read"
    BY <1>1, UpgradeMaps
  <2>6. QED
    BY <1>1, <2>1, <2>2, <2>3, <2>4, <2>5, UpgradeMaps, LeftTyped, GotoTyped
<1>2. ASSUME NEW c \in Callers, Put(c) \/ Delete(c) PROVE Typed'
  <2>1. UNCHANGED <<callVars, writes, key, held, found>> /\ Goto(c, Tail(left[c]))
    BY <1>2 DEF Put, Delete
  <2>2. pc[c] # "idle" /\ op[c] # "read"
    BY <1>2 DEF Put, Delete, Running
  <2>3. maps' \in Seq(Contracts) /\ Len(maps') = Len(maps)
    BY <1>2, PutMaps, DeleteMaps
  <2>4. /\ key' \in [Callers -> Keys] /\ held' \in [Callers -> 1..Len(maps)]
        /\ found' \in [Callers -> SUBSET Kinds]
    BY <2>1 DEF Typed, TypeOK
  <2>5. QED
    BY <2>1, <2>2, <2>3, <2>4, LeftTyped, GotoTyped
<1>3. ASSUME NEW b \in Blobs, Unmarshal(b) PROVE Typed'
  <2>1. UNCHANGED <<pc, callVars, left, key, held, found, writes>>
    BY <1>3 DEF Unmarshal
  <2>2. held' \in [Callers -> 1..Len(maps')]
    BY <1>3, <2>1, UnmarshalMaps, CurrentTyped DEF Typed, TypeOK
  <2>3. TypeOK'
    BY <1>3, <2>1, <2>2, UnmarshalMaps DEF Typed, TypeOK, callVars
  <2>4. QED
    BY <2>1, <2>3 DEF Typed, ReadsInOrder, UpgradesOld, callVars
<1>4. CASE UNCHANGED vars
  BY <1>4 DEF vars, callVars, Typed, TypeOK, ReadsInOrder, UpgradesOld
<1>5. QED
  BY <1>1, <1>2, <1>3, <1>4, StartTyped, ReadStepTyped DEF Next

(* The variables keep their types; a goroutine in a method has kinds left  *)
(* to look at, and one that upgrades is a read at the kind of its key.     *)
THEOREM TypeCorrect == Spec => []TypeOK
<1>1. Typed => TypeOK
  BY DEF Typed
<1>2. QED
  BY <1>1, InitTyped, TypedStep, PTL DEF Spec

-----------------------------------------------------------------------------
(* Reads never change the newest item of a kind and environment in the     *)
(* cache, however the upgrades of several goroutines and the loads from    *)
(* external storage interleave.                                            *)
THEOREM ReadsKeep == Spec => ReadsChangeNothing
<1> DEFINE Kept ==
        \A kind \in Kinds, e \in Envs :
            Newest(Current', kind, e) # Newest(Current, kind, e) =>
                \/ Len(maps') > Len(maps)
                \/ \E c \in Callers : Changing(c) /\ left'[c] # left[c]
<1>1. ASSUME Typed, [Next]_vars PROVE Kept
  <2>1. CASE UNCHANGED maps
    BY <2>1 DEF Current
  <2>2. ASSUME NEW c \in Callers, Upgrade(c) PROVE Kept
    BY <2>2, <1>1, UpgradeMaps, UpgradedNewest, CurrentTyped
  <2>3. ASSUME NEW c \in Callers, Put(c) \/ Delete(c) PROVE Kept
    <3>1. Changing(c)
      BY <2>3 DEF Changing, Put, Delete, Running
    <3>2. left' = [left EXCEPT ![c] = Tail(left[c])]
      BY <2>3 DEF Put, Delete, Goto
    <3>3. left'[c] # left[c]
      BY <1>1, <3>1, <3>2, LeftTyped DEF Changing, Typed, TypeOK
    <3>4. QED
      BY <3>1, <3>3
  <2>4. ASSUME NEW b \in Blobs, Unmarshal(b) PROVE Kept
    BY <2>4, <1>1, UnmarshalMaps, CurrentTyped
  <2>5. QED
    BY <1>1, <2>1, <2>2, <2>3, <2>4
       DEF Next, vars, Begin, StartRead, StartWrite, StartRemove, Find, FindNothing
<1>2. QED
  BY <1>1, InitTyped, TypedStep, PTL DEF Spec, ReadsChangeNothing

-----------------------------------------------------------------------------
(* RemovedStaysRemoved.  Its strengthening says where values can be: those *)
(* a write has yet to store are nowhere in the cache, and those a removal  *)
(* found are gone from the kinds it has done.                              *)

Elems(s) == {s[i] : i \in 1..Len(s)}
Distinct(s) == \A i, j \in 1..Len(s) : s[i] = s[j] => i = j

Writing(c) == pc[c] # "idle" /\ op[c] = "write"

Holds(m, kind, e, v) == \E s \in Schemas : m[<<kind, e, s>>] = v

(* The values there can be so far.                                         *)
Stored == 1..writes \cup {Older, Newer}
Remembered == {g \in Kinds \X Envs \X Values : g[3] \in Stored}

ValuesStored == \A k \in Keys : Current[k] \in Stored \cup {NoItem}

HistoryTyped == gone \subseteq Remembered /\ doomed \in [Callers -> SUBSET Remembered]

KindsDistinct == \A c \in Callers : Distinct(left[c])

(* Two writes have different serials.                                      *)
SerialsDistinct ==
    \A c, d \in Callers : Writing(c) /\ Writing(d) /\ serial[c] = serial[d] => c = d

(* What a write has yet to store is not in the cache or in the histories.  *)
UnwrittenNowhere ==
    \A c \in Callers : Writing(c) =>
        \A kind \in Elems(left[c]) :
            /\ \A e \in Envs : ~Holds(Current, kind, e, serial[c])
            /\ \A g \in gone : ~(g[1] = kind /\ g[3] = serial[c])
            /\ \A d \in Callers : \A g \in doomed[d] : ~(g[1] = kind /\ g[3] = serial[c])

(* What a removal found is gone from the kinds it has done.                *)
DoneIsGone ==
    \A c \in Callers : \A g \in doomed[c] :
        /\ pc[c] = "run" /\ op[c] = "remove" /\ g[2] = env[c]
        /\ g[1] \notin Elems(left[c]) => ~Holds(Current, g[1], g[2], g[3])

GoneIsGone == \A g \in gone : ~Holds(Current, g[1], g[2], g[3])

RemovalInv ==
    /\ Typed /\ ValuesStored /\ HistoryTyped /\ KindsDistinct
    /\ SerialsDistinct /\ UnwrittenNowhere /\ DoneIsGone /\ GoneIsGone

LEMMA TailElems ==
    ASSUME NEW s \in Seq(Kinds), s # <<>>, Distinct(s)
    PROVE  /\ Distinct(Tail(s)) /\ Elems(Tail(s)) = Elems(s) \ {Head(s)}
           /\ Head(s) \in Elems(s)
           /\ Len(s) = 1 => Elems(s) = {Head(s)}
<1>1. /\ Len(s) \in Nat \ {0} /\ Len(Tail(s)) = Len(s) - 1 /\ Head(s) = s[1]
      /\ \A i \in 1..(Len(s) - 1) : Tail(s)[i] = s[i + 1]
  OBVIOUS
<1>2. Distinct(Tail(s))
  BY <1>1 DEF Distinct
<1>3. ASSUME NEW x \in Elems(Tail(s)) PROVE x \in Elems(s) \ {Head(s)}
  <2>1. PICK i \in 1..(Len(s) - 1) : x = Tail(s)[i]
    BY <1>1 DEF Elems
  <2>2. x = s[i + 1] /\ i + 1 \in 1..Len(s) /\ i + 1 # 1 /\ 1 \in 1..Len(s)
    BY <1>1, <2>1
  <2>3. QED
    BY <1>1, <2>2 DEF Elems, Distinct
<1>4. ASSUME NEW x \in Elems(s), x # Head(s) PROVE x \in Elems(Tail(s))
  <2>1. PICK i \in 1..Len(s) : x = s[i]
    BY <1>4 DEF Elems
  <2>2. i # 1
    BY <1>1, <1>4, <2>1
  <2>3. i - 1 \in 1..(Len(s) - 1) /\ Tail(s)[i - 1] = s[i]
    BY <1>1, <2>1, <2>2
  <2>4. QED
    BY <1>1, <2>1, <2>3 DEF Elems
<1>5. Head(s) \in Elems(s)
  BY <1>1 DEF Elems
<1>6. Len(s) = 1 => Elems(s) = {Head(s)}
  BY <1>1 DEF Elems
<1>7. QED
  BY <1>2, <1>3, <1>4, <1>5, <1>6

LEMMA OrdersDistinct ==
    /\ \A s \in ReadLefts : Distinct(s)
    /\ Distinct(RemoveOrder) /\ \A s \in WriteOrders : Distinct(s)
BY DEF ReadLefts, RemoveOrder, WriteOrders, Distinct

(* Which values a map holds after a step.                                  *)
LEMMA HoldsUpgraded ==
    ASSUME NEW m \in Contracts, NEW k \in Keys, NEW kind \in Kinds, NEW e \in Envs,
           NEW v \in Values, Holds(Upgraded(m, k), kind, e, v)
    PROVE  Holds(m, kind, e, v)
<1>1. PICK s \in Schemas : Upgraded(m, k)[<<kind, e, s>>] = v
  BY DEF Holds
<1>2. \A r \in Schemas : <<kind, e, r>> \in Keys
  BY DEF Keys
<1>3. v # NoItem
  BY DEF Values, NoItem
<1>4. CASE m[<<kind, e, s>>] = v
  BY <1>4 DEF Holds
<1>5. CASE m[<<kind, e, s>>] # v
  <2>1. <<kind, e, s>> = New(k) /\ m[k] = v
    BY <1>1, <1>2, <1>3, <1>5, KeyParts DEF Upgraded, Contracts
  <2>2. k = <<kind, e, k[3]>> /\ k[3] \in Schemas
    BY <2>1 DEF New, Keys
  <2>3. QED
    BY <2>1, <2>2 DEF Holds
<1>6. QED
  BY <1>4, <1>5

LEMMA HoldsPut ==
    ASSUME NEW m \in Contracts, NEW h, NEW w, NEW kind \in Kinds, NEW e \in Envs, NEW v,
           Holds([m EXCEPT ![<<h, Host, "v1.1">>] = w], kind, e, v)
    PROVE  Holds(m, kind, e, v) \/ (kind = h /\ v = w)
<1>1. \A r \in Schemas : <<kind, e, r>> \in Keys
  BY DEF Keys
<1>2. PICK s \in Schemas : [m EXCEPT ![<<h, Host, "v1.1">>] = w][<<kind, e, s>>] = v
  BY DEF Holds
<1>3. QED
  BY <1>1, <1>2 DEF Holds, Contracts

LEMMA HoldsCleared ==
    ASSUME NEW m \in Contracts, NEW h, NEW f, NEW kind \in Kinds, NEW e \in Envs,
           NEW v \in Values, Holds(Cleared(m, h, f), kind, e, v)
    PROVE  Holds(m, kind, e, v) /\ ~(kind = h /\ e = f)
<1>1. \A r \in Schemas : <<kind, e, r>> \in Keys
  BY DEF Keys
<1>2. PICK s \in Schemas : Cleared(m, h, f)[<<kind, e, s>>] = v
  BY DEF Holds
<1>3. v # NoItem
  BY DEF Values, NoItem
<1>4. QED
  BY <1>1, <1>2, <1>3 DEF Holds, Cleared

LEMMA RemovalInit == Init => RemovalInv
<1> SUFFICES ASSUME Init PROVE RemovalInv
  OBVIOUS
<1>1. Current = [k \in Keys |-> NoItem]
  BY DEF Init, Current
<1>2. ValuesStored
  BY <1>1 DEF ValuesStored
<1>3. HistoryTyped /\ DoneIsGone /\ GoneIsGone
  BY DEF Init, HistoryTyped, DoneIsGone, GoneIsGone
<1>4. KindsDistinct /\ SerialsDistinct /\ UnwrittenNowhere
  BY DEF Init, KindsDistinct, Distinct, SerialsDistinct, UnwrittenNowhere, Writing
<1>5. QED
  BY <1>2, <1>3, <1>4, InitTyped DEF RemovalInv

(* The values in the histories and of the running writes.                  *)
LEMMA StoredValues ==
    ASSUME Typed
    PROVE  /\ Stored \subseteq Values /\ NoItem \notin Values
           /\ \A c \in Callers : Writing(c) => serial[c] \in Stored /\ serial[c] <= writes
           /\ writes < MaxWrites => writes + 1 \in Values /\ writes + 1 \notin Stored
<1>1. MaxWrites \in Nat /\ writes \in 0..MaxWrites
  BY BoundsAssumption DEF Typed, TypeOK
<1>2. \A c \in Callers : Writing(c) => serial[c] \in 1..writes
  BY DEF Typed, TypeOK, Writing
<1>3. QED
  BY <1>1, <1>2 DEF Stored, Values, Newer, Older, NoItem

(* A method begins: nothing is stored, and an idle goroutine has no        *)
(* removal to remember.                                                    *)
LEMMA BeginRemoval ==
    ASSUME RemovalInv, NEW c \in Callers, NEW o, NEW e, NEW order,
           Begin(c, o, e, order), Distinct(order), Typed'
    PROVE  /\ Current' = Current /\ doomed[c] = {}
           /\ KindsDistinct'
           /\ \A d \in Callers : d # c =>
               /\ pc'[d] = pc[d] /\ op'[d] = op[d] /\ env'[d] = env[d]
               /\ left'[d] = left[d] /\ (Writing(d)' <=> Writing(d))
           /\ pc'[c] = "run" /\ op'[c] = o /\ env'[c] = e /\ left'[c] = order
           /\ GoneIsGone'
<1>1. /\ pc[c] = "idle" /\ UNCHANGED <<maps, gone>>
      /\ pc' = [pc EXCEPT ![c] = "run"] /\ op' = [op EXCEPT ![c] = o]
      /\ env' = [env EXCEPT ![c] = e] /\ left' = [left EXCEPT ![c] = order]
  BY DEF Begin
<1>2. /\ pc \in [Callers -> {"idle", "run", "upgrade"}] /\ left \in [Callers -> Seq(Kinds)]
      /\ op \in [Callers -> {"read", "write", "remove"}] /\ env \in [Callers -> Envs]
  BY DEF RemovalInv, Typed, TypeOK
<1>3. Current' = Current
  BY <1>1 DEF Current
<1>4. doomed[c] = {}
  BY <1>1 DEF RemovalInv, DoneIsGone
<1>5. /\ pc'[c] = "run" /\ op'[c] = o /\ env'[c] = e /\ left'[c] = order
      /\ \A d \in Callers : d # c =>
               /\ pc'[d] = pc[d] /\ op'[d] = op[d] /\ env'[d] = env[d]
               /\ left'[d] = left[d]
  BY <1>1, <1>2
<1>6. KindsDistinct'
  BY <1>5 DEF RemovalInv, KindsDistinct
<1>7. \A d \in Callers : d # c => (Writing(d)' <=> Writing(d))
  BY <1>5 DEF Writing
<1>8. GoneIsGone'
  BY <1>1, <1>3 DEF RemovalInv, GoneIsGone
<1>9. QED
  BY <1>3, <1>4, <1>5, <1>6, <1>7, <1>8

LEMMA StartReadRemoval ==
    ASSUME RemovalInv, NEW c \in Callers, StartRead(c), Typed'
    PROVE  RemovalInv'
<1>1. Begin(c, "read", Host, ReadOrder) /\ UNCHANGED <<serial, writes, doomed, gone>>
  BY DEF StartRead, Begin
<1>2. Distinct(ReadOrder)
  BY OrdersTyped, OrdersDistinct
<1> DEFINE Same(d) == /\ pc'[d] = pc[d] /\ op'[d] = op[d] /\ env'[d] = env[d]
                      /\ left'[d] = left[d] /\ (Writing(d)' <=> Writing(d))
<1>3. /\ Current' = Current /\ doomed[c] = {} /\ KindsDistinct' /\ GoneIsGone'
      /\ \A d \in Callers : d # c => Same(d)
      /\ pc'[c] = "run" /\ op'[c] = "read"
  BY <1>1, <1>2, BeginRemoval
<1>4. ~Writing(c)'
  BY <1>3 DEF Writing
<1>5. ValuesStored' /\ HistoryTyped'
  BY <1>1, <1>3 DEF RemovalInv, ValuesStored, HistoryTyped, Remembered, Stored
<1>6. SerialsDistinct'
  BY <1>1, <1>3, <1>4 DEF RemovalInv, SerialsDistinct
<1>7. UnwrittenNowhere'
  BY <1>1, <1>3, <1>4 DEF RemovalInv, UnwrittenNowhere
<1>8. DoneIsGone'
  BY <1>1, <1>3 DEF RemovalInv, DoneIsGone
<1>9. QED
  BY <1>3, <1>5, <1>6, <1>7, <1>8 DEF RemovalInv

LEMMA StartWriteRemoval ==
    ASSUME RemovalInv, NEW c \in Callers, NEW order \in WriteOrders, StartWrite(c, order), Typed'
    PROVE  RemovalInv'
<1>1. /\ Begin(c, "write", Host, order) /\ UNCHANGED <<doomed, gone>>
      /\ writes < MaxWrites /\ writes' = writes + 1
      /\ serial' = [serial EXCEPT ![c] = writes + 1]
  BY DEF StartWrite, Begin
<1>2. Distinct(order)
  BY OrdersDistinct
<1> DEFINE Same(d) == /\ pc'[d] = pc[d] /\ op'[d] = op[d] /\ env'[d] = env[d]
                      /\ left'[d] = left[d] /\ (Writing(d)' <=> Writing(d))
<1>3. /\ Current' = Current /\ doomed[c] = {} /\ KindsDistinct' /\ GoneIsGone'
      /\ \A d \in Callers : d # c => Same(d)
      /\ pc'[c] = "run" /\ op'[c] = "write" /\ left'[c] = order
  BY <1>1, <1>2, BeginRemoval
<1>4. /\ Stored \subseteq Values /\ writes + 1 \in Values /\ writes + 1 \notin Stored
      /\ \A d \in Callers : Writing(d) => serial[d] \in Stored
      /\ NoItem \notin Values
  BY <1>1, StoredValues DEF RemovalInv
<1>5. serial'[c] = writes + 1 /\ \A d \in Callers : d # c => serial'[d] = serial[d]
  BY <1>1 DEF RemovalInv, Typed, TypeOK
<1>6. writes \in Nat
  BY DEF RemovalInv, Typed, TypeOK
<1>7. Stored \subseteq Stored'
  BY <1>1, <1>6 DEF Stored, Older, Newer
<1>8. ValuesStored' /\ HistoryTyped'
  BY <1>1, <1>3, <1>7 DEF RemovalInv, ValuesStored, HistoryTyped, Remembered
<1>9. SerialsDistinct'
  BY <1>3, <1>4, <1>5 DEF RemovalInv, SerialsDistinct
<1>10. UnwrittenNowhere'
  <2> SUFFICES ASSUME NEW d \in Callers, Writing(d)', NEW kind \in Elems(left[d])'
               PROVE  /\ \A e \in Envs : ~Holds(Current, kind, e, serial'[d])
                      /\ \A g \in gone : ~(g[1] = kind /\ g[3] = serial'[d])
                      /\ \A b \in Callers : \A g \in doomed[b] :
                            ~(g[1] = kind /\ g[3] = serial'[d])
    BY <1>1, <1>3 DEF UnwrittenNowhere
  <2>1. CASE d # c
    BY <1>3, <1>5, <2>1 DEF RemovalInv, UnwrittenNowhere, Elems
  <2>2. CASE d = c
    <3>1. kind \in Kinds
      BY <1>3, <2>2, OrdersTyped DEF Elems
    <3>2. \A e \in Envs, s \in Schemas : Current[<<kind, e, s>>] \in Stored \cup {NoItem}
      BY <3>1 DEF RemovalInv, ValuesStored, Keys
    <3>3. \A e \in Envs : ~Holds(Current, kind, e, serial'[d])
      BY <1>4, <1>5, <2>2, <3>2 DEF Holds
    <3>4. QED
      BY <1>4, <1>5, <2>2, <3>3 DEF RemovalInv, HistoryTyped, Remembered
  <2>3. QED
    BY <2>1, <2>2
<1>11. DoneIsGone'
  BY <1>1, <1>3 DEF RemovalInv, DoneIsGone
<1>12. QED
  BY <1>3, <1>8, <1>9, <1>10, <1>11 DEF RemovalInv

LEMMA StartRemoveRemoval ==
    ASSUME RemovalInv, NEW c \in Callers, NEW e \in Envs, StartRemove(c, e), Typed'
    PROVE  RemovalInv'
<1>1. Begin(c, "remove", e, RemoveOrder) /\ UNCHANGED <<serial, writes, gone>>
  BY DEF StartRemove, Begin
<1> DEFINE Same(d) == /\ pc'[d] = pc[d] /\ op'[d] = op[d] /\ env'[d] = env[d]
                      /\ left'[d] = left[d] /\ (Writing(d)' <=> Writing(d))
<1>2. /\ Current' = Current /\ doomed[c] = {} /\ KindsDistinct' /\ GoneIsGone'
      /\ \A d \in Callers : d # c => Same(d)
      /\ pc'[c] = "run" /\ op'[c] = "remove" /\ env'[c] = e /\ left'[c] = RemoveOrder
  BY <1>1, BeginRemoval, OrdersDistinct
<1>3. ~Writing(c)'
  BY <1>2 DEF Writing
<1>4. PICK D : D = {<<k[1], k[2], Current[k]>> :
                      k \in {x \in Removable \X {e} \X Schemas : Current[x] # NoItem}}
  OBVIOUS
<1>5. doomed' = [doomed EXCEPT ![c] = D]
  BY <1>4 DEF StartRemove
<1>6. doomed'[c] = D /\ \A d \in Callers : d # c => doomed'[d] = doomed[d]
  BY <1>5 DEF RemovalInv, HistoryTyped
<1>7. \A g \in D : /\ g \in Remembered /\ g[1] \in Removable /\ g[2] = e
                   /\ Holds(Current, g[1], g[2], g[3])
  <2> SUFFICES ASSUME NEW g \in D
               PROVE  /\ g \in Remembered /\ g[1] \in Removable /\ g[2] = e
                      /\ Holds(Current, g[1], g[2], g[3])
    OBVIOUS
  <2>1. PICK k \in Removable \X {e} \X Schemas :
              Current[k] # NoItem /\ g = <<k[1], k[2], Current[k]>>
    BY <1>4
  <2>2. k \in Keys /\ k = <<g[1], g[2], k[3]>> /\ k[3] \in Schemas /\ g[1] \in Removable /\ g[2] = e
    BY <2>1 DEF Keys, Removable, Kinds
  <2>3. Current[k] \in Stored
    BY <2>1, <2>2 DEF RemovalInv, ValuesStored
  <2>4. g \in Remembered
    BY <2>1, <2>2, <2>3, StoredValues DEF RemovalInv, Remembered, Removable, Kinds
  <2>5. Holds(Current, g[1], g[2], g[3])
    BY <2>1, <2>2 DEF Holds
  <2>6. QED
    BY <2>2, <2>4, <2>5
<1>8. ValuesStored'
  BY <1>1, <1>2 DEF RemovalInv, ValuesStored, Stored
<1>9. HistoryTyped'
  BY <1>1, <1>5, <1>7 DEF RemovalInv, HistoryTyped, Remembered, Stored
<1>10. SerialsDistinct'
  BY <1>1, <1>2, <1>3 DEF RemovalInv, SerialsDistinct
<1>11. UnwrittenNowhere'
  <2> SUFFICES ASSUME NEW d \in Callers, Writing(d)', NEW kind \in Elems(left[d])'
               PROVE  /\ \A f \in Envs : ~Holds(Current, kind, f, serial[d])
                      /\ \A g \in gone : ~(g[1] = kind /\ g[3] = serial[d])
                      /\ \A b \in Callers : \A g \in doomed'[b] :
                            ~(g[1] = kind /\ g[3] = serial[d])
    BY <1>1, <1>2 DEF UnwrittenNowhere
  <2>1. d # c /\ Writing(d) /\ kind \in Elems(left[d])
    BY <1>2, <1>3 DEF Elems
  <2>2. /\ \A f \in Envs : ~Holds(Current, kind, f, serial[d])
        /\ \A g \in gone : ~(g[1] = kind /\ g[3] = serial[d])
        /\ \A b \in Callers : \A g \in doomed[b] : ~(g[1] = kind /\ g[3] = serial[d])
    BY <2>1 DEF RemovalInv, UnwrittenNowhere
  <2>3. \A g \in D : ~(g[1] = kind /\ g[3] = serial[d])
    BY <1>7, <2>2
  <2>4. QED
    BY <1>6, <2>2, <2>3
<1>12. DoneIsGone'
  <2>1. Removable \subseteq Elems(RemoveOrder)
    <3>1. Len(RemoveOrder) = 4 /\ RemoveOrder[1] = "rt" /\ RemoveOrder[2] = "at"
          /\ RemoveOrder[3] = "idt" /\ RemoveOrder[4] = "account"
      BY DEF RemoveOrder
    <3>2. 1 \in 1..4 /\ 2 \in 1..4 /\ 3 \in 1..4 /\ 4 \in 1..4
      OBVIOUS
    <3>3. QED
      BY <3>1, <3>2 DEF Removable, Elems
  <2> SUFFICES ASSUME NEW d \in Callers, NEW g \in doomed'[d]
               PROVE  /\ pc'[d] = "run" /\ op'[d] = "remove" /\ g[2] = env'[d]
                      /\ g[1] \notin Elems(left'[d]) => ~Holds(Current', g[1], g[2], g[3])
    BY DEF DoneIsGone, Elems, Holds
  <2>2. CASE d = c
    BY <1>2, <1>6, <1>7, <2>1, <2>2
  <2>3. CASE d # c
    BY <1>2, <1>6, <2>3 DEF RemovalInv, DoneIsGone
  <2>4. QED
    BY <2>2, <2>3
<1>13. QED
  BY <1>2, <1>8, <1>9, <1>10, <1>11, <1>12 DEF RemovalInv

(* A step of a read removes values from the cache or leaves it alone.      *)
LEMMA ReadStepRemoval ==
    ASSUME RemovalInv, NEW c \in Callers, op[c] = "read",
           \A d \in Callers : d # c => pc'[d] = pc[d] /\ left'[d] = left[d],
           UNCHANGED <<callVars, writes, doomed, gone>>,
           Typed', ValuesStored',
           \A kind \in Kinds, e \in Envs, v \in Values :
               Holds(Current', kind, e, v) => Holds(Current, kind, e, v)
    PROVE  RemovalInv'
<1>1. op'[c] = "read" /\ UNCHANGED <<op, env, serial, doomed, gone>>
  BY DEF callVars
<1>2. doomed[c] = {} /\ ~Writing(c)' /\ \A d \in Callers : Writing(d)' => Writing(d)
  BY <1>1 DEF RemovalInv, DoneIsGone, Writing
<1>3. HistoryTyped'
  BY DEF RemovalInv, HistoryTyped, Remembered, Stored
<1>4. /\ \A g \in gone : g[1] \in Kinds /\ g[2] \in Envs /\ g[3] \in Values
      /\ \A d \in Callers : \A g \in doomed[d] :
            g[1] \in Kinds /\ g[2] \in Envs /\ g[3] \in Values
  BY DEF RemovalInv, HistoryTyped, Remembered
<1>5. KindsDistinct'
  <2>1. Distinct(left'[c])
    BY <1>1, OrdersDistinct DEF Typed, ReadsInOrder
  <2>2. QED
    BY <2>1 DEF RemovalInv, KindsDistinct
<1>6. SerialsDistinct'
  BY <1>1, <1>2 DEF RemovalInv, SerialsDistinct
<1>7. UnwrittenNowhere'
  <2> SUFFICES ASSUME NEW d \in Callers, Writing(d)', NEW kind \in Elems(left'[d])
               PROVE  /\ \A e \in Envs : ~Holds(Current', kind, e, serial[d])
                      /\ \A g \in gone : ~(g[1] = kind /\ g[3] = serial[d])
                      /\ \A b \in Callers : \A g \in doomed[b] :
                            ~(g[1] = kind /\ g[3] = serial[d])
    BY <1>1 DEF UnwrittenNowhere
  <2>1. Writing(d) /\ d # c /\ kind \in Elems(left[d])
    BY <1>2
  <2>2. kind \in Kinds
    BY <2>1 DEF RemovalInv, Typed, TypeOK, Elems
  <2>3. serial[d] \in Values
    BY <2>1, StoredValues DEF RemovalInv
  <2>4. QED
    BY <2>1, <2>2, <2>3 DEF RemovalInv, UnwrittenNowhere
<1>8. DoneIsGone'
  <2> SUFFICES ASSUME NEW d \in Callers, NEW g \in doomed[d]
               PROVE  /\ pc'[d] = "run" /\ op[d] = "remove" /\ g[2] = env[d]
                      /\ g[1] \notin Elems(left'[d]) => ~Holds(Current', g[1], g[2], g[3])
    BY <1>1 DEF DoneIsGone
  <2>1. d # c
    BY <1>2
  <2>2. QED
    BY <1>4, <2>1 DEF RemovalInv, DoneIsGone
<1>9. GoneIsGone'
  <2> SUFFICES ASSUME NEW g \in gone PROVE ~Holds(Current', g[1], g[2], g[3])
    BY DEF GoneIsGone
  <2>1. QED
    BY <1>4 DEF RemovalInv, GoneIsGone
<1>10. QED
  BY <1>3, <1>5, <1>6, <1>7, <1>8, <1>9 DEF RemovalInv

LEMMA ReadRemoval ==
    ASSUME RemovalInv, NEW c \in Callers, Find(c) \/ FindNothing(c) \/ Upgrade(c), Typed'
    PROVE  RemovalInv'
<1>1. op[c] = "read" /\ UNCHANGED <<callVars, writes, doomed, gone>>
  BY UpgradeMaps DEF RemovalInv, Find, FindNothing, Upgrade, Running
<1>2. \A d \in Callers : d # c => pc'[d] = pc[d] /\ left'[d] = left[d]
  BY DEF RemovalInv, Typed, TypeOK, Find, FindNothing, Upgrade, Goto
<1>3. CASE Find(c) \/ FindNothing(c)
  <2>1. Current' = Current /\ writes' = writes
    BY <1>3 DEF Find, FindNothing, Current
  <2>2. ValuesStored'
    BY <2>1 DEF RemovalInv, ValuesStored, Stored
  <2>3. QED
    BY <1>1, <1>2, <2>1, <2>2, ReadStepRemoval
<1>4. CASE Upgrade(c)
  <2>1. /\ key[c] \in Keys /\ Current \in Contracts
        /\ Current' = Current \/ Current' = Upgraded(Current, key[c])
    BY <1>4, UpgradeMaps, CurrentTyped DEF RemovalInv
  <2>2. \A k \in Keys : Upgraded(Current, key[c])[k] \in Stored \cup {NoItem}
    BY <2>1, KeyParts DEF RemovalInv, ValuesStored, Upgraded, Contracts
  <2>3. ValuesStored'
    BY <1>1, <2>1, <2>2 DEF RemovalInv, ValuesStored, Stored
  <2>4. \A kind \in Kinds, e \in Envs, v \in Values :
            Holds(Current', kind, e, v) => Holds(Current, kind, e, v)
    BY <2>1, HoldsUpgraded
  <2>5. QED
    BY <1>1, <1>2, <2>3, <2>4, ReadStepRemoval
<1>5. QED
  BY <1>3, <1>4

(* What a step of a write or a removal leaves to do.                       *)
LEMMA NextKind ==
    ASSUME RemovalInv, NEW c \in Callers, pc[c] = "run", Goto(c, Tail(left[c]))
    PROVE  /\ Head(left[c]) \in Kinds
           /\ left'[c] = Tail(left[c]) /\ Elems(left'[c]) = Elems(left[c]) \ {Head(left[c])}
           /\ Head(left[c]) \in Elems(left[c])
           /\ pc'[c] # "idle" <=> Len(left[c]) # 1
           /\ Len(left[c]) = 1 => Elems(left[c]) = {Head(left[c])}
           /\ pc'[c] \in {"run", "idle"}
           /\ KindsDistinct'
           /\ \A d \in Callers : d # c => pc'[d] = pc[d] /\ left'[d] = left[d]
<1>1. left[c] \in Seq(Kinds) /\ left[c] # <<>> /\ Head(left[c]) \in Kinds
  BY LeftTyped DEF RemovalInv
<1>2. Distinct(left[c])
  BY DEF RemovalInv, KindsDistinct
<1>3. /\ Distinct(Tail(left[c])) /\ Elems(Tail(left[c])) = Elems(left[c]) \ {Head(left[c])}
      /\ Head(left[c]) \in Elems(left[c])
      /\ Len(left[c]) = 1 => Elems(left[c]) = {Head(left[c])}
  BY <1>1, <1>2, TailElems
<1>4. Tail(left[c]) = <<>> <=> Len(left[c]) = 1
  <2>1. PICK t : t = Tail(left[c])
    OBVIOUS
  <2>2. t \in Seq(Kinds) /\ Len(t) = Len(left[c]) - 1 /\ Len(left[c]) \in Nat
    BY <1>1, <2>1
  <2>3. \A q \in Seq(Kinds) : q = <<>> <=> Len(q) = 0
    OBVIOUS
  <2>4. t = <<>> <=> Len(t) = 0
    BY <2>2, <2>3, Zenon
  <2>5. Len(t) = 0 <=> Len(left[c]) = 1
    BY <2>2
  <2>6. QED
    BY <2>1, <2>4, <2>5, Zenon
<1>5. /\ left' = [left EXCEPT ![c] = Tail(left[c])]
      /\ pc' = [pc EXCEPT ![c] = IF Tail(left[c]) = <<>> THEN "idle" ELSE "run"]
  BY DEF Goto
<1>6. left'[c] = Tail(left[c]) /\ pc'[c] = IF Tail(left[c]) = <<>> THEN "idle" ELSE "run"
  BY <1>5 DEF RemovalInv, Typed, TypeOK
<1>7. \A d \in Callers : d # c => pc'[d] = pc[d] /\ left'[d] = left[d]
  BY <1>5 DEF RemovalInv, Typed, TypeOK
<1>8. KindsDistinct'
  BY <1>3, <1>6, <1>7 DEF RemovalInv, KindsDistinct
<1>9. QED
  BY <1>1, <1>3, <1>4, <1>6, <1>7, <1>8

LEMMA PutRemoval ==
    ASSUME RemovalInv, NEW c \in Callers, Put(c), Typed'
    PROVE  RemovalInv'
<1>1. /\ pc[c] = "run" /\ op[c] = "write" /\ Goto(c, Tail(left[c]))
      /\ UNCHANGED <<op, env, serial, writes, doomed, gone>>
  BY DEF Put, Running, callVars
<1> DEFINE h == Head(left[c])
<1>2. Writing(c) /\ doomed[c] = {}
  BY <1>1 DEF Writing, RemovalInv, DoneIsGone
<1>3. /\ h \in Elems(left[c]) /\ Elems(left'[c]) = Elems(left[c]) \ {h} /\ h \in Kinds
      /\ KindsDistinct' /\ pc'[c] \in {"run", "idle"}
      /\ \A d \in Callers : d # c => pc'[d] = pc[d] /\ left'[d] = left[d]
  BY <1>1, NextKind
<1>4. /\ Current \in Contracts /\ serial[c] \in 1..writes
      /\ Current' = [Current EXCEPT ![<<h, Host, "v1.1">>] = serial[c]]
  BY PutMaps, CurrentTyped DEF RemovalInv
<1>5. \A kind \in Kinds, e \in Envs, v \in Values :
         Holds(Current', kind, e, v) => Holds(Current, kind, e, v) \/ (kind = h /\ v = serial[c])
  BY <1>4, HoldsPut
<1>6. ValuesStored'
  BY <1>1, <1>4 DEF RemovalInv, ValuesStored, Stored, Contracts
<1>7. HistoryTyped'
  BY <1>1 DEF RemovalInv, HistoryTyped, Remembered, Stored
<1>8. /\ \A g \in gone : g[1] \in Kinds /\ g[2] \in Envs /\ g[3] \in Values
      /\ \A d \in Callers : \A g \in doomed[d] :
            g[1] \in Kinds /\ g[2] \in Envs /\ g[3] \in Values
  BY DEF RemovalInv, HistoryTyped, Remembered
<1>9. \A d \in Callers : Writing(d)' => Writing(d)
  BY <1>1, <1>2, <1>3 DEF Writing
<1>10. SerialsDistinct'
  BY <1>1, <1>9 DEF RemovalInv, SerialsDistinct
<1>11. UnwrittenNowhere'
  <2> SUFFICES ASSUME NEW d \in Callers, Writing(d)', NEW kind \in Elems(left'[d])
               PROVE  /\ \A e \in Envs : ~Holds(Current', kind, e, serial[d])
                      /\ \A g \in gone : ~(g[1] = kind /\ g[3] = serial[d])
                      /\ \A b \in Callers : \A g \in doomed[b] :
                            ~(g[1] = kind /\ g[3] = serial[d])
    BY <1>1 DEF UnwrittenNowhere
  <2>1. Writing(d) /\ kind \in Elems(left[d]) /\ (d = c => kind # h)
    BY <1>3, <1>9
  <2>2. kind \in Kinds
    BY <2>1 DEF RemovalInv, Typed, TypeOK, Elems
  <2>3. serial[d] \in Values
    BY <2>1, StoredValues DEF RemovalInv
  <2>4. kind = h => serial[d] # serial[c]
    BY <1>2, <2>1 DEF RemovalInv, SerialsDistinct
  <2>5. QED
    BY <1>5, <2>1, <2>2, <2>3, <2>4 DEF RemovalInv, UnwrittenNowhere
<1>12. DoneIsGone'
  <2> SUFFICES ASSUME NEW d \in Callers, NEW g \in doomed[d]
               PROVE  /\ pc'[d] = "run" /\ op[d] = "remove" /\ g[2] = env[d]
                      /\ g[1] \notin Elems(left'[d]) => ~Holds(Current', g[1], g[2], g[3])
    BY <1>1 DEF DoneIsGone
  <2>1. d # c
    BY <1>2
  <2>2. ~(g[1] = h /\ g[3] = serial[c])
    BY <1>2, <1>3 DEF RemovalInv, UnwrittenNowhere
  <2>3. QED
    BY <1>3, <1>5, <1>8, <2>1, <2>2 DEF RemovalInv, DoneIsGone
<1>13. GoneIsGone'
  <2> SUFFICES ASSUME NEW g \in gone PROVE ~Holds(Current', g[1], g[2], g[3])
    BY <1>1 DEF GoneIsGone
  <2>1. ~(g[1] = h /\ g[3] = serial[c])
    BY <1>2, <1>3 DEF RemovalInv, UnwrittenNowhere
  <2>2. QED
    BY <1>5, <1>8, <2>1 DEF RemovalInv, GoneIsGone
<1>14. QED
  BY <1>3, <1>6, <1>7, <1>10, <1>11, <1>12, <1>13 DEF RemovalInv

LEMMA DeleteRemoval ==
    ASSUME RemovalInv, NEW c \in Callers, Delete(c), Typed'
    PROVE  RemovalInv'
<1>1. /\ pc[c] = "run" /\ op[c] = "remove" /\ Goto(c, Tail(left[c]))
      /\ UNCHANGED <<op, env, serial, writes>>
      /\ gone' = IF Len(left[c]) = 1 THEN gone \cup doomed[c] ELSE gone
      /\ doomed' = IF Len(left[c]) = 1 THEN [doomed EXCEPT ![c] = {}] ELSE doomed
  BY DEF Delete, Running, callVars
<1> DEFINE h == Head(left[c])
<1>2. ~Writing(c) /\ ~Writing(c)'
  BY <1>1 DEF Writing
<1>3. /\ Elems(left'[c]) = Elems(left[c]) \ {h} /\ h \in Kinds
      /\ pc'[c] # "idle" <=> Len(left[c]) # 1
      /\ Len(left[c]) = 1 => Elems(left[c]) = {h}
      /\ KindsDistinct' /\ pc'[c] \in {"run", "idle"}
      /\ \A d \in Callers : d # c => pc'[d] = pc[d] /\ left'[d] = left[d]
  BY <1>1, NextKind
<1>4. Current \in Contracts /\ Current' = Cleared(Current, h, env[c])
  BY DeleteMaps, CurrentTyped DEF RemovalInv
<1>5. \A kind \in Kinds, e \in Envs, v \in Values :
         Holds(Current', kind, e, v) => Holds(Current, kind, e, v) /\ ~(kind = h /\ e = env[c])
  BY <1>4, HoldsCleared
<1>6. ValuesStored'
  BY <1>1, <1>4 DEF RemovalInv, ValuesStored, Stored, Cleared
<1>7. /\ \A d \in Callers : doomed'[d] \subseteq doomed[d]
      /\ doomed' \in [Callers -> SUBSET Remembered]
      /\ gone' \subseteq gone \cup doomed[c]
  BY <1>1 DEF RemovalInv, HistoryTyped
<1>8. HistoryTyped'
  BY <1>1, <1>7 DEF RemovalInv, HistoryTyped, Remembered, Stored
<1>9. /\ \A g \in gone : g[1] \in Kinds /\ g[2] \in Envs /\ g[3] \in Values
      /\ \A d \in Callers : \A g \in doomed[d] :
            g[1] \in Kinds /\ g[2] \in Envs /\ g[3] \in Values
  BY DEF RemovalInv, HistoryTyped, Remembered
<1>10. \A d \in Callers : Writing(d)' => Writing(d) /\ d # c
  BY <1>1, <1>2, <1>3 DEF Writing
<1>11. SerialsDistinct'
  BY <1>1, <1>10 DEF RemovalInv, SerialsDistinct
<1>12. UnwrittenNowhere'
  <2> SUFFICES ASSUME NEW d \in Callers, Writing(d)', NEW kind \in Elems(left'[d])
               PROVE  /\ \A e \in Envs : ~Holds(Current', kind, e, serial[d])
                      /\ \A g \in gone' : ~(g[1] = kind /\ g[3] = serial[d])
                      /\ \A b \in Callers : \A g \in doomed'[b] :
                            ~(g[1] = kind /\ g[3] = serial[d])
    BY <1>1 DEF UnwrittenNowhere
  <2>1. Writing(d) /\ d # c /\ kind \in Elems(left[d])
    BY <1>3, <1>10
  <2>2. kind \in Kinds
    BY <2>1 DEF RemovalInv, Typed, TypeOK, Elems
  <2>3. serial[d] \in Values
    BY <2>1, StoredValues DEF RemovalInv
  <2>4. /\ \A e \in Envs : ~Holds(Current, kind, e, serial[d])
        /\ \A g \in gone : ~(g[1] = kind /\ g[3] = serial[d])
        /\ \A b \in Callers : \A g \in doomed[b] : ~(g[1] = kind /\ g[3] = serial[d])
    BY <2>1 DEF RemovalInv, UnwrittenNowhere
  <2>5. QED
    BY <1>5, <1>7, <2>2, <2>3, <2>4
(* A removal leaves nothing it found in a kind it has done.                *)
<1>13. \A g \in doomed[c] :
          g[2] = env[c] /\ (g[1] \notin Elems(left'[c]) => ~Holds(Current', g[1], g[2], g[3]))
  BY <1>3, <1>5, <1>9 DEF RemovalInv, DoneIsGone
<1>14. DoneIsGone'
  <2> SUFFICES ASSUME NEW d \in Callers, NEW g \in doomed'[d]
               PROVE  /\ pc'[d] = "run" /\ op[d] = "remove" /\ g[2] = env[d]
                      /\ g[1] \notin Elems(left'[d]) => ~Holds(Current', g[1], g[2], g[3])
    BY <1>1 DEF DoneIsGone
  <2>1. CASE d = c
    <3>1. Len(left[c]) # 1
      BY <1>1, <2>1 DEF RemovalInv, HistoryTyped
    <3>2. pc'[c] = "run"
      BY <1>3, <3>1
    <3>3. QED
      BY <1>1, <1>7, <1>13, <2>1, <3>2
  <2>2. CASE d # c
    BY <1>3, <1>5, <1>7, <1>9, <2>2 DEF RemovalInv, DoneIsGone
  <2>3. QED
    BY <2>1, <2>2
<1>15. GoneIsGone'
  <2> SUFFICES ASSUME NEW g \in gone' PROVE ~Holds(Current', g[1], g[2], g[3])
    BY DEF GoneIsGone
  <2>1. CASE g \in gone
    BY <1>5, <1>9, <2>1 DEF RemovalInv, GoneIsGone
  <2>2. CASE g \notin gone
    <3>1. Len(left[c]) = 1 /\ g \in doomed[c]
      BY <1>1, <2>2
    <3>2. Elems(left'[c]) = {}
      BY <1>3, <3>1
    <3>3. QED
      BY <1>13, <3>1, <3>2
  <2>3. QED
    BY <2>1, <2>2
<1>16. QED
  BY <1>3, <1>6, <1>8, <1>11, <1>12, <1>14, <1>15 DEF RemovalInv

LEMMA UnmarshalRemoval ==
    ASSUME RemovalInv, NEW b \in Blobs, Unmarshal(b), Typed'
    PROVE  RemovalInv'
<1>1. /\ UNCHANGED <<pc, op, env, serial, left, writes, doomed>> /\ gone' = {}
      /\ \A c \in Callers : ~Changing(c)
  BY DEF Unmarshal, LockFree, callVars
<1>2. Current' = b
  BY UnmarshalMaps DEF RemovalInv
<1>3. ValuesStored'
  BY <1>1, <1>2, BlobsAssumption DEF ValuesStored, Stored
<1>4. \A c \in Callers : ~Writing(c) /\ ~Writing(c)' /\ doomed[c] = {}
  BY <1>1 DEF Writing, Changing, RemovalInv, DoneIsGone
<1>5. KindsDistinct' /\ HistoryTyped'
  BY <1>1 DEF RemovalInv, KindsDistinct, HistoryTyped, Remembered, Stored
<1>6. SerialsDistinct' /\ UnwrittenNowhere' /\ DoneIsGone' /\ GoneIsGone'
  BY <1>1, <1>4 DEF SerialsDistinct, UnwrittenNowhere, DoneIsGone, GoneIsGone
<1>7. QED
  BY <1>3, <1>5, <1>6 DEF RemovalInv

LEMMA RemovalStep == RemovalInv /\ [Next]_vars => RemovalInv'
<1> SUFFICES ASSUME RemovalInv, [Next]_vars PROVE RemovalInv'
  OBVIOUS
<1>1. Typed'
  BY TypedStep DEF RemovalInv
<1>2. CASE Next
  BY <1>1, <1>2, StartReadRemoval, StartWriteRemoval, StartRemoveRemoval, ReadRemoval,
     PutRemoval, DeleteRemoval, UnmarshalRemoval DEF Next
<1>3. CASE UNCHANGED vars
  <2>1. UNCHANGED <<maps, pc, op, env, serial, left, writes, doomed, gone>>
    BY <1>3 DEF vars, callVars
  <2>2. ValuesStored' /\ HistoryTyped' /\ KindsDistinct' /\ SerialsDistinct'
    BY <2>1 DEF RemovalInv, ValuesStored, HistoryTyped, KindsDistinct, SerialsDistinct,
                Stored, Remembered, Current, Writing
  <2>3. Current' = Current /\ \A c \in Callers : Writing(c)' <=> Writing(c)
    BY <2>1 DEF Current, Writing
  <2>4. UnwrittenNowhere'
    BY <2>1, <2>3 DEF RemovalInv, UnwrittenNowhere
  <2>5. DoneIsGone' /\ GoneIsGone'
    BY <2>1, <2>3 DEF RemovalInv, DoneIsGone, GoneIsGone
  <2>6. QED
    BY <1>1, <2>2, <2>4, <2>5 DEF RemovalInv
<1>4. QED
  BY <1>2, <1>3

(* What a finished RemoveAccount had found is in the cache no more: no     *)
(* upgrade by a reader and no write that began earlier brings it back.     *)
THEOREM RemovalFinal == Spec => []RemovedStaysRemoved
<1>1. RemovalInv => RemovedStaysRemoved
  <2> SUFFICES ASSUME RemovalInv, NEW k \in Keys, <<k[1], k[2], Current[k]>> \in gone
               PROVE  FALSE
    BY DEF RemovedStaysRemoved
  <2>1. k = <<k[1], k[2], k[3]>> /\ k[3] \in Schemas
    BY DEF Keys
  <2>2. Holds(Current, k[1], k[2], Current[k])
    BY <2>1 DEF Holds
  <2>3. ~Holds(Current, k[1], k[2], Current[k])
    BY DEF RemovalInv, GoneIsGone
  <2>4. QED
    BY <2>2, <2>3
<1>2. QED
  BY <1>1, RemovalInit, RemovalStep, PTL DEF Spec

-----------------------------------------------------------------------------
(* ReadFinds.  As long as a read has a kind of its promise ahead of it, an *)
(* item of that kind matches; as long as it is about to upgrade an item,   *)
(* the item is under the old key or under the new one.                     *)

UnderEither(m, k) == m[k] # NoItem \/ m[New(k)] # NoItem

RemovesRemovable ==
    \A c \in Callers : op[c] = "remove" => Elems(left[c]) \subseteq Removable

SurePromise ==
    \A c \in Callers :
        /\ sure[c] \subseteq Kinds
        /\ op[c] # "read" => sure[c] = {}
        /\ "rt" \in sure[c] => "app" \in sure[c]
        /\ \A kind \in sure[c] :
            /\ kind \in Elems(left[c]) \cup found[c]
            /\ kind \in Elems(left[c]) => Matching(Current, kind) # {}

UpgradeFinds ==
    \A c \in Callers :
        pc[c] = "upgrade" /\ key[c][1] \in sure[c] =>
            held[c] = Len(maps) /\ UnderEither(Current, key[c])

FindingInv ==
    /\ Typed /\ RemovesRemovable /\ SurePromise /\ UpgradeFinds
    /\ sure \in [Callers -> SUBSET Kinds]

LEMMA UnderEitherUpgraded ==
    ASSUME NEW m \in Contracts, NEW k \in Keys, k[3] = "v1.0", NEW x \in Keys, x[3] = "v1.0",
           UnderEither(m, x)
    PROVE  UnderEither(Upgraded(m, k), x)
<1>1. /\ New(k) \in Keys /\ New(x) \in Keys /\ New(x) # k /\ New(k) # x
  BY KeyParts DEF New
<1>2. QED
  BY <1>1 DEF UnderEither, Upgraded, Contracts

LEMMA MatchingUpgraded ==
    ASSUME NEW m \in Contracts, NEW k \in Keys, k[3] = "v1.0", NEW kind \in Kinds,
           Matching(m, kind) # {}
    PROVE  Matching(Upgraded(m, k), kind) # {}
<1>1. PICK x \in {kind} \X Aliases \X Schemas : m[x] # NoItem
  BY DEF Matching
<1>2. x \in Keys /\ x[1] = kind /\ x[2] \in Aliases
  BY HostAssumption DEF Keys
<1>3. New(k) \in Keys /\ New(k) # k /\ (x = k => New(k) \in {kind} \X Aliases \X Schemas)
  BY <1>2, KeyParts DEF New, Schemas
<1>4. CASE x = k
  <2>1. Upgraded(m, k)[New(k)] # NoItem
    BY <1>1, <1>3, <1>4, KeyParts DEF Upgraded, Contracts
  <2>2. QED
    BY <1>3, <1>4, <2>1 DEF Matching
<1>5. CASE x # k
  <2>1. Upgraded(m, k)[x] # NoItem
    BY <1>1, <1>2, <1>5 DEF Upgraded, Contracts
  <2>2. QED
    BY <1>1, <2>1 DEF Matching
<1>6. QED
  BY <1>4, <1>5

LEMMA FindingInit == Init => FindingInv
<1> SUFFICES ASSUME Init PROVE FindingInv
  OBVIOUS
<1>1. RemovesRemovable /\ SurePromise /\ UpgradeFinds /\ sure \in [Callers -> SUBSET Kinds]
  BY DEF Init, RemovesRemovable, SurePromise, UpgradeFinds
<1>2. QED
  BY <1>1, InitTyped DEF FindingInv

LEMMA StartFinding ==
    ASSUME FindingInv, NEW c \in Callers, Typed',
           \/ StartRead(c)
           \/ \E order \in WriteOrders : StartWrite(c, order)
           \/ \E e \in Envs : StartRemove(c, e)
    PROVE  FindingInv'
<1>1. PICK o \in {"read", "write", "remove"}, e \in Envs,
           order \in {ReadOrder, RemoveOrder} \cup WriteOrders :
          /\ Begin(c, o, e, order)
          /\ o = "read" => order = ReadOrder
          /\ o = "remove" => order = RemoveOrder
          /\ sure' = [sure EXCEPT ![c] = IF o # "read" THEN {} ELSE
                 {kind \in Kinds : /\ Matching(Current, kind) # {}
                                   /\ kind = "rt" => Matching(Current, "app") # {}}]
  BY HostAssumption DEF StartRead, StartWrite, StartRemove
<1>2. /\ UNCHANGED <<maps, key, held>> /\ Current' = Current
      /\ pc' = [pc EXCEPT ![c] = "run"] /\ op' = [op EXCEPT ![c] = o]
      /\ left' = [left EXCEPT ![c] = order] /\ found' = [found EXCEPT ![c] = {}]
  BY <1>1 DEF Begin, Current
<1>3. /\ pc'[c] = "run" /\ op'[c] = o /\ left'[c] = order
      /\ sure'[c] = IF o # "read" THEN {} ELSE
             {kind \in Kinds : /\ Matching(Current, kind) # {}
                               /\ kind = "rt" => Matching(Current, "app") # {}}
      /\ \A d \in Callers : d # c =>
            /\ pc'[d] = pc[d] /\ op'[d] = op[d] /\ left'[d] = left[d]
            /\ found'[d] = found[d] /\ sure'[d] = sure[d]
  BY <1>1, <1>2 DEF FindingInv, Typed, TypeOK
<1>4. Elems(ReadOrder) = Kinds /\ Elems(RemoveOrder) \subseteq Removable
  <2>1. Len(ReadOrder) = 5 /\ Len(RemoveOrder) = 4
    BY DEF ReadOrder, RemoveOrder
  <2>2. /\ ReadOrder[1] = "at" /\ ReadOrder[2] = "idt" /\ ReadOrder[3] = "app"
        /\ ReadOrder[4] = "rt" /\ ReadOrder[5] = "account"
        /\ RemoveOrder[1] = "rt" /\ RemoveOrder[2] = "at"
        /\ RemoveOrder[3] = "idt" /\ RemoveOrder[4] = "account"
    BY DEF ReadOrder, RemoveOrder
  <2>3. 1..5 = {1, 2, 3, 4, 5} /\ 1..4 = {1, 2, 3, 4}
    OBVIOUS
  <2>4. QED
    BY <2>1, <2>2, <2>3 DEF Elems, Kinds, Removable
<1>5. RemovesRemovable'
  BY <1>1, <1>3, <1>4 DEF FindingInv, RemovesRemovable
<1>6. SurePromise'
  <2> SUFFICES ASSUME NEW d \in Callers
               PROVE  /\ sure'[d] \subseteq Kinds
                      /\ op'[d] # "read" => sure'[d] = {}
                      /\ "rt" \in sure'[d] => "app" \in sure'[d]
                      /\ \A kind \in sure'[d] :
                          /\ kind \in Elems(left'[d]) \cup found'[d]
                          /\ kind \in Elems(left'[d]) => Matching(Current, kind) # {}
    BY <1>2 DEF SurePromise
  <2>1. CASE d # c
    BY <1>3, <2>1 DEF FindingInv, SurePromise
  <2>2. CASE d = c
    BY <1>1, <1>3, <1>4, <2>2 DEF Kinds
  <2>3. QED
    BY <2>1, <2>2
<1>7. UpgradeFinds'
  BY <1>2, <1>3 DEF FindingInv, UpgradeFinds
<1>8. sure' \in [Callers -> SUBSET Kinds]
  <2>1. sure'[c] \in SUBSET Kinds
    BY <1>3
  <2>2. QED
    BY <1>1, <2>1 DEF FindingInv
<1>9. QED
  BY <1>5, <1>6, <1>7, <1>8 DEF FindingInv

(* The kinds a read has left after one of them.                            *)
LEMMA ReadElems ==
    ASSUME Typed, NEW c \in Callers, pc[c] # "idle", op[c] = "read"
    PROVE  /\ Head(left[c]) \in Kinds /\ Head(left[c]) \in Elems(left[c])
           /\ Elems(Tail(left[c])) = Elems(left[c]) \ {Head(left[c])}
           /\ Head(left[c]) = "app" =>
                Elems(Tail(Tail(left[c]))) = Elems(left[c]) \ {"app", "rt"}
<1>1. /\ left[c] \in ReadLefts /\ left[c] # <<>> /\ left[c] \in Seq(Kinds)
      /\ Tail(left[c]) \in ReadLefts /\ Tail(left[c]) \in Seq(Kinds)
      /\ Head(left[c]) = "app" => Head(Tail(left[c])) = "rt"
  BY LeftTyped, ReadTail DEF Typed, ReadsInOrder
<1>2. Distinct(left[c]) /\ Distinct(Tail(left[c]))
  BY <1>1, OrdersDistinct
<1>3. /\ Head(left[c]) \in Kinds /\ Head(left[c]) \in Elems(left[c])
      /\ Elems(Tail(left[c])) = Elems(left[c]) \ {Head(left[c])}
  BY <1>1, <1>2, TailElems, LeftTyped
<1>4. ASSUME Head(left[c]) = "app"
      PROVE  Elems(Tail(Tail(left[c]))) = Elems(left[c]) \ {"app", "rt"}
  <2>1. Tail(left[c]) # <<>>
    <3>1. left[c] = <<"app", "rt", "account">>
      BY <1>1, <1>4 DEF ReadLefts
    <3>2. Tail(<<"app", "rt", "account">>) = <<"rt", "account">>
      OBVIOUS
    <3>3. QED
      BY <3>1, <3>2
  <2>2. Elems(Tail(Tail(left[c]))) = Elems(Tail(left[c])) \ {"rt"}
    BY <1>1, <1>2, <1>4, <2>1, TailElems
  <2>3. QED
    BY <1>3, <1>4, <2>2
<1>5. QED
  BY <1>3, <1>4

(* A step that keeps what a reader's promise rests on.                     *)
LEMMA PromiseKept ==
    ASSUME FindingInv, NEW d \in Callers, Typed',
           pc'[d] = pc[d], op'[d] = op[d], left'[d] = left[d], found'[d] = found[d],
           key'[d] = key[d], held'[d] = held[d], Len(maps') = Len(maps),
           sure'[d] \subseteq sure[d],
           "rt" \in sure'[d] => "app" \in sure'[d],
           \A kind \in sure'[d] : Matching(Current, kind) # {} => Matching(Current', kind) # {},
           \A k \in Keys : k[1] \in sure'[d] /\ k[3] = "v1.0" /\ UnderEither(Current, k)
                               => UnderEither(Current', k)
    PROVE  /\ sure'[d] \subseteq Kinds
           /\ op'[d] # "read" => sure'[d] = {}
           /\ \A kind \in sure'[d] :
               /\ kind \in Elems(left'[d]) \cup found'[d]
               /\ kind \in Elems(left'[d]) => Matching(Current', kind) # {}
           /\ pc'[d] = "upgrade" /\ key'[d][1] \in sure'[d] =>
                  held'[d] = Len(maps') /\ UnderEither(Current', key'[d])
<1>1. key[d] \in Keys /\ (pc[d] = "upgrade" => key[d][3] = "v1.0")
  BY DEF FindingInv, Typed, TypeOK, UpgradesOld
<1>2. pc[d] = "upgrade" /\ key[d][1] \in sure[d] =>
         held[d] = Len(maps) /\ UnderEither(Current, key[d])
  BY DEF FindingInv, UpgradeFinds
<1>3. /\ sure[d] \subseteq Kinds /\ (op[d] # "read" => sure[d] = {})
      /\ \A kind \in sure[d] :
          /\ kind \in Elems(left[d]) \cup found[d]
          /\ kind \in Elems(left[d]) => Matching(Current, kind) # {}
  BY DEF FindingInv, SurePromise
<1>4. QED
  BY <1>1, <1>2, <1>3

LEMMA FindFinding ==
    ASSUME FindingInv, NEW c \in Callers, Find(c) \/ FindNothing(c), Typed'
    PROVE  FindingInv'
<1>1. /\ pc[c] = "run" /\ op[c] = "read" /\ UNCHANGED <<maps, op, sure>> /\ Current' = Current
      /\ Typed
  BY DEF Find, FindNothing, Running, callVars, Current, FindingInv
<1>2. \A d \in Callers : d # c =>
         /\ pc'[d] = pc[d] /\ left'[d] = left[d] /\ found'[d] = found[d]
         /\ key'[d] = key[d] /\ held'[d] = held[d]
  BY DEF FindingInv, Typed, TypeOK, Find, FindNothing, Goto
<1> DEFINE h == Head(left[c])
<1>3. /\ h \in Kinds /\ h \in Elems(left[c]) /\ Elems(Tail(left[c])) = Elems(left[c]) \ {h}
      /\ h = "app" => Elems(Tail(Tail(left[c]))) = Elems(left[c]) \ {"app", "rt"}
  BY <1>1, ReadElems
<1>4. RemovesRemovable'
  BY <1>1, <1>2 DEF FindingInv, RemovesRemovable
<1> DEFINE P(d) ==
        /\ \A kind \in sure[d] :
            /\ kind \in Elems(left'[d]) \cup found'[d]
            /\ kind \in Elems(left'[d]) => Matching(Current, kind) # {}
        /\ pc'[d] = "upgrade" /\ key'[d][1] \in sure[d] =>
               held'[d] = Len(maps) /\ UnderEither(Current, key'[d])
<1>5. ASSUME NEW d \in Callers, d # c PROVE P(d)
  BY <1>2, <1>5 DEF FindingInv, SurePromise, UpgradeFinds
<1>6. \A kind \in sure[c] :
         /\ kind \in Elems(left[c]) \cup found[c]
         /\ kind \in Elems(left[c]) => Matching(Current, kind) # {}
  BY DEF FindingInv, SurePromise
<1>7. ASSUME FindNothing(c) PROVE P(c)
  <2>1. /\ h \notin sure[c] /\ found' = found /\ key' = key /\ held' = held
        /\ Goto(c, IF h = "app" THEN Tail(Tail(left[c])) ELSE Tail(left[c]))
    BY <1>3, <1>6, <1>7 DEF FindNothing
  <2>2. /\ left'[c] = IF h = "app" THEN Tail(Tail(left[c])) ELSE Tail(left[c])
        /\ pc'[c] # "upgrade"
    BY <1>1, <2>1 DEF Goto, Typed, TypeOK
  <2>3. "rt" \in sure[c] => "app" \in sure[c]
    BY DEF FindingInv, SurePromise
  <2>4. QED
    BY <1>3, <1>6, <2>1, <2>2, <2>3
<1>8. ASSUME Find(c) PROVE P(c)
  <2>1. PICK k \in Matching(Current, h) :
          \/ /\ k[3] = "v1.1"
             /\ found' = [found EXCEPT ![c] = @ \cup {k[1]}]
             /\ Goto(c, Tail(left[c]))
             /\ UNCHANGED <<key, held>>
          \/ /\ k[3] = "v1.0"
             /\ pc' = [pc EXCEPT ![c] = "upgrade"]
             /\ key' = [key EXCEPT ![c] = k]
             /\ held' = [held EXCEPT ![c] = Len(maps)]
             /\ UNCHANGED <<found, left>>
    BY <1>8 DEF Find
  <2>2. k[1] = h /\ Current[k] # NoItem
    BY DEF Matching
  <2>3. CASE k[3] = "v1.1"
    <3>1. found' = [found EXCEPT ![c] = @ \cup {k[1]}] /\ Goto(c, Tail(left[c]))
      BY <2>1, <2>3
    <3>2. found'[c] = found[c] \cup {h} /\ left'[c] = Tail(left[c]) /\ pc'[c] # "upgrade"
      BY <1>1, <2>2, <3>1 DEF Goto, Typed, TypeOK
    <3>3. QED
      BY <1>3, <1>6, <3>2
  <2>4. CASE k[3] = "v1.0"
    <3>1. /\ pc' = [pc EXCEPT ![c] = "upgrade"] /\ key' = [key EXCEPT ![c] = k]
          /\ held' = [held EXCEPT ![c] = Len(maps)] /\ found' = found /\ left' = left
      BY <2>1, <2>4
    <3>2. key'[c] = k /\ held'[c] = Len(maps)
      BY <1>1, <3>1 DEF Typed, TypeOK
    <3>3. UnderEither(Current, k)
      BY <2>2 DEF UnderEither
    <3>4. QED
      BY <1>6, <3>1, <3>2, <3>3
  <2>5. QED
    BY <2>1, <2>3, <2>4
<1>9. \A d \in Callers : P(d)
  BY <1>5, <1>7, <1>8
<1>10. SurePromise' /\ UpgradeFinds'
  BY <1>1, <1>9 DEF FindingInv, SurePromise, UpgradeFinds
<1>11. sure' \in [Callers -> SUBSET Kinds]
  BY <1>1 DEF FindingInv
<1>12. QED
  BY <1>4, <1>10, <1>11 DEF FindingInv

LEMMA UpgradeFinding ==
    ASSUME FindingInv, NEW c \in Callers, Upgrade(c), Typed'
    PROVE  FindingInv'
<1>1. /\ Typed /\ UNCHANGED <<op, sure>> /\ Goto(c, Tail(left[c]))
      /\ key' = [key EXCEPT ![c] = NoKey] /\ held' = [held EXCEPT ![c] = 1]
      /\ found' = [found EXCEPT ![c] =
             IF Returned(maps[Target(c)], key[c]) = NoItem THEN @ ELSE @ \cup {key[c][1]}]
  BY DEF Upgrade, callVars, FindingInv
<1>2. /\ Len(maps') = Len(maps) /\ op[c] = "read" /\ pc[c] = "upgrade"
      /\ key[c] \in Keys /\ key[c][3] = "v1.0"
      /\ Current' = Current \/ Current' = Upgraded(Current, key[c])
  BY <1>1, UpgradeMaps
<1>3. Current \in Contracts
  BY <1>1, CurrentTyped
<1>4. \A d \in Callers : d # c =>
         /\ pc'[d] = pc[d] /\ left'[d] = left[d] /\ found'[d] = found[d]
         /\ key'[d] = key[d] /\ held'[d] = held[d]
  BY <1>1 DEF Typed, TypeOK, Goto
<1> DEFINE h == Head(left[c])
<1>5. /\ h \in Kinds /\ h \in Elems(left[c]) /\ Elems(Tail(left[c])) = Elems(left[c]) \ {h}
      /\ key[c][1] = h
  BY <1>1, <1>2, ReadElems DEF Typed, TypeOK
<1>6. RemovesRemovable'
  BY <1>1, <1>2, <1>4 DEF FindingInv, RemovesRemovable
<1>7. /\ \A kind \in Kinds : Matching(Current, kind) # {} => Matching(Current', kind) # {}
      /\ \A k \in Keys : k[3] = "v1.0" /\ UnderEither(Current, k) => UnderEither(Current', k)
  BY <1>2, <1>3, MatchingUpgraded, UnderEitherUpgraded
<1>8. \A d \in Callers : sure[d] \subseteq Kinds
  BY DEF FindingInv, SurePromise
<1> DEFINE P(d) ==
        /\ \A kind \in sure[d] :
            /\ kind \in Elems(left'[d]) \cup found'[d]
            /\ kind \in Elems(left'[d]) => Matching(Current', kind) # {}
        /\ pc'[d] = "upgrade" /\ key'[d][1] \in sure[d] =>
               held'[d] = Len(maps) /\ UnderEither(Current', key'[d])
<1>9. ASSUME NEW d \in Callers, d # c PROVE P(d)
  <2>1. "rt" \in sure[d] => "app" \in sure[d]
    BY DEF FindingInv, SurePromise
  <2>2. QED
    BY <1>1, <1>2, <1>4, <1>7, <1>8, <1>9, <2>1, PromiseKept
<1>10. P(c)
  <2>1. left'[c] = Tail(left[c]) /\ pc'[c] # "upgrade"
    BY <1>1 DEF Goto, Typed, TypeOK
  <2>2. \A kind \in sure[c] :
           /\ kind \in Elems(left[c]) \cup found[c]
           /\ kind \in Elems(left[c]) => Matching(Current, kind) # {}
    BY DEF FindingInv, SurePromise
  <2>3. found[c] \subseteq found'[c]
    BY <1>1 DEF Typed, TypeOK
  <2>4. ASSUME h \in sure[c] PROVE h \in found'[c]
    <3>1. held[c] = Len(maps) /\ UnderEither(Current, key[c])
      BY <1>2, <1>5, <2>4 DEF FindingInv, UpgradeFinds
    <3>2. maps[Target(c)] = Current
      BY <3>1 DEF Target, Current
    <3>3. Returned(Current, key[c]) # NoItem
      BY <1>2, <1>3, <3>1, KeyParts DEF Returned, Upgraded, UnderEither, Contracts, New
    <3>4. QED
      BY <1>1, <1>5, <3>2, <3>3 DEF Typed, TypeOK
  <2>5. QED
    BY <1>5, <1>7, <1>8, <2>1, <2>2, <2>3, <2>4
<1>11. SurePromise' /\ UpgradeFinds'
  BY <1>1, <1>2, <1>9, <1>10 DEF FindingInv, SurePromise, UpgradeFinds
<1>12. QED
  BY <1>1, <1>6, <1>11 DEF FindingInv

LEMMA ChangeFinding ==
    ASSUME FindingInv, NEW c \in Callers, Put(c) \/ Delete(c), Typed'
    PROVE  FindingInv'
<1>1. /\ Typed /\ UNCHANGED <<op, key, held, found>> /\ Goto(c, Tail(left[c]))
      /\ pc[c] = "run" /\ op[c] # "read" /\ (op[c] = "remove" <=> Delete(c))
  BY DEF Put, Delete, Running, callVars, FindingInv
<1>2. \A d \in Callers : d # c => pc'[d] = pc[d] /\ left'[d] = left[d]
  BY <1>1 DEF Typed, TypeOK, Goto
<1> DEFINE h == Head(left[c])
<1>3. left[c] \in Seq(Kinds) /\ left[c] # <<>> /\ left'[c] = Tail(left[c])
  BY <1>1, LeftTyped DEF Goto, Typed, TypeOK
<1>4. h \in Elems(left[c]) /\ Elems(left'[c]) \subseteq Elems(left[c])
  <2>1. /\ Len(left[c]) \in Nat \ {0} /\ Len(Tail(left[c])) = Len(left[c]) - 1
        /\ h = left[c][1]
        /\ \A i \in 1..(Len(left[c]) - 1) : Tail(left[c])[i] = left[c][i + 1]
    BY <1>3
  <2>2. \A i \in 1..(Len(left[c]) - 1) : i + 1 \in 1..Len(left[c])
    BY <2>1
  <2>3. QED
    BY <1>3, <2>1, <2>2 DEF Elems
<1>5. RemovesRemovable'
  BY <1>1, <1>2, <1>4 DEF FindingInv, RemovesRemovable
<1>6. Current \in Contracts
  BY <1>1, CurrentTyped
<1>7. /\ Len(maps') = Len(maps)
      /\ sure' \in [Callers -> SUBSET Kinds]
      /\ \A d \in Callers :
            /\ sure'[d] \subseteq sure[d]
            /\ "rt" \in sure'[d] => "app" \in sure'[d]
            /\ Delete(c) => h \notin sure'[d]
  <2>1. CASE Put(c)
    BY <1>1, <2>1, PutMaps DEF Put, FindingInv, SurePromise
  <2>2. CASE Delete(c)
    <3>1. h \in Removable
      BY <1>1, <1>4, <2>2 DEF FindingInv, RemovesRemovable
    <3>2. h # "app"
      BY <3>1 DEF Removable
    <3>3. sure' = [d \in Callers |-> sure[d] \ {h}]
      BY <2>2 DEF Delete
    <3>4. QED
      BY <1>1, <2>2, <3>2, <3>3, DeleteMaps DEF FindingInv, SurePromise
  <2>3. QED
    BY <2>1, <2>2
(* Items of other kinds than a removed one stay.                           *)
<1>8. \A k \in Keys : Current[k] # NoItem /\ (Delete(c) => k[1] # h) => Current'[k] # NoItem
  <2>1. CASE Put(c)
    <3>1. serial[c] # NoItem /\ Current' = [Current EXCEPT ![<<h, Host, "v1.1">>] = serial[c]]
      BY <1>1, <2>1, PutMaps DEF NoItem, Typed, TypeOK
    <3>2. QED
      BY <1>6, <3>1 DEF Contracts
  <2>2. CASE Delete(c)
    BY <1>1, <2>2, DeleteMaps DEF Cleared
  <2>3. QED
    BY <2>1, <2>2
<1>9. ASSUME NEW d \in Callers
      PROVE  /\ \A kind \in sure'[d] : Matching(Current, kind) # {} => Matching(Current', kind) # {}
             /\ \A k \in Keys : k[1] \in sure'[d] /\ k[3] = "v1.0" /\ UnderEither(Current, k)
                                   => UnderEither(Current', k)
  <2>1. ASSUME NEW kind \in sure'[d], Matching(Current, kind) # {}
        PROVE  Matching(Current', kind) # {}
    <3>1. PICK x \in {kind} \X Aliases \X Schemas : Current[x] # NoItem
      BY <2>1 DEF Matching
    <3>2. kind \in Kinds /\ (Delete(c) => kind # h)
      BY <1>7
    <3>3. x \in Keys /\ x[1] = kind
      BY <3>2, HostAssumption DEF Keys
    <3>4. Current'[x] # NoItem
      BY <1>8, <3>1, <3>2, <3>3
    <3>5. QED
      BY <3>4 DEF Matching
  <2>2. ASSUME NEW k \in Keys, k[1] \in sure'[d], UnderEither(Current, k)
        PROVE  UnderEither(Current', k)
    <3>1. New(k) \in Keys /\ New(k)[1] = k[1] /\ (Delete(c) => k[1] # h)
      BY <1>7, <2>2, KeyParts DEF New
    <3>2. QED
      BY <1>8, <2>2, <3>1 DEF UnderEither
  <2>3. QED
    BY <2>1, <2>2
<1> DEFINE P(d) ==
        /\ sure'[d] \subseteq Kinds
        /\ op'[d] # "read" => sure'[d] = {}
        /\ \A kind \in sure'[d] :
            /\ kind \in Elems(left'[d]) \cup found'[d]
            /\ kind \in Elems(left'[d]) => Matching(Current', kind) # {}
        /\ pc'[d] = "upgrade" /\ key'[d][1] \in sure'[d] =>
               held'[d] = Len(maps') /\ UnderEither(Current', key'[d])
<1>10. ASSUME NEW d \in Callers, d # c PROVE P(d)
  BY <1>1, <1>2, <1>7, <1>9, <1>10, PromiseKept
<1>11. P(c)
  <2>1. sure[c] = {}
    BY <1>1 DEF FindingInv, SurePromise
  <2>2. sure'[c] = {}
    BY <1>7, <2>1
  <2>3. QED
    BY <2>2
<1>12. SurePromise' /\ UpgradeFinds'
  BY <1>7, <1>10, <1>11 DEF SurePromise, UpgradeFinds
<1>13. QED
  BY <1>5, <1>7, <1>12 DEF FindingInv

LEMMA UnmarshalFinding ==
    ASSUME FindingInv, NEW b \in Blobs, Unmarshal(b), Typed'
    PROVE  FindingInv'
<1>1. UNCHANGED <<op, left>> /\ sure' = [d \in Callers |-> {}]
  BY DEF Unmarshal, callVars
<1>2. SurePromise' /\ UpgradeFinds' /\ sure' \in [Callers -> SUBSET Kinds]
  BY <1>1 DEF SurePromise, UpgradeFinds
<1>3. RemovesRemovable'
  BY <1>1 DEF FindingInv, RemovesRemovable
<1>4. QED
  BY <1>2, <1>3 DEF FindingInv

LEMMA FindingStep == FindingInv /\ [Next]_vars => FindingInv'
<1> SUFFICES ASSUME FindingInv, [Next]_vars PROVE FindingInv'
  OBVIOUS
<1>1. Typed'
  BY TypedStep DEF FindingInv
<1>2. CASE Next
  BY <1>1, <1>2, StartFinding, FindFinding, UpgradeFinding, ChangeFinding, UnmarshalFinding
     DEF Next
<1>3. CASE UNCHANGED vars
  <2>1. UNCHANGED <<maps, pc, op, left, key, held, found, sure>> /\ Current' = Current
    BY <1>3 DEF vars, callVars, Current
  <2>2. QED
    BY <1>1, <2>1 DEF FindingInv, RemovesRemovable, SurePromise, UpgradeFinds
<1>4. QED
  BY <1>2, <1>3

(* A read finds every kind of item that was there when it began and that   *)
(* nobody removed or unloaded, although other reads upgrade the items it   *)
(* is looking for.                                                         *)
THEOREM ReadsFind == Spec => []ReadFinds
<1>1. FindingInv => ReadFinds
  <2> SUFFICES ASSUME FindingInv, NEW c \in Callers, op[c] = "read", NEW kind \in sure[c],
                      \A i \in 1..Len(left[c]) : left[c][i] # kind
               PROVE  kind \in found[c]
    BY DEF ReadFinds
  <2>1. kind \notin Elems(left[c])
    BY DEF Elems
  <2>2. QED
    BY <2>1 DEF FindingInv, SurePromise
<1>2. QED
  BY <1>1, FindingInit, FindingStep, PTL DEF Spec

=============================================================================
