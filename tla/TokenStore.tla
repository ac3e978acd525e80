----------------------------- MODULE TokenStore -----------------------------
(***************************************************************************)
(* storage.Manager: the in-memory cache of one client, seen from inside.   *)
(* Read, Write and RemoveAccount take contractMu once per kind of item, so *)
(* that those of several goroutines interleave between the kinds, and a    *)
(* read that meets an item under a v1.0 key gives up its read lock to move *)
(* the item under the v1.1 key.  Unmarshal puts a whole new contract in    *)
(* place, and a reader may still hold a map of the old one.                *)
(*                                                                         *)
(* One account, app, realm and scope; an item is told from others by its   *)
(* kind, environment (authority host) and key schema.  A value is the      *)
(* number of the Write that stored it.                                     *)
(***************************************************************************)
EXTENDS Naturals, Sequences, FiniteSets

CONSTANTS
    Callers,    \* goroutines
    Host,       \* the client's authority host, the environment it writes
    Envs,       \* environments of items in the cache
    Aliases,    \* the host's aliases, as instance metadata gives them
    Blobs,      \* contracts that external storage may hold
    MaxWrites,  \* bound on the responses written
    MaxLoads    \* bound on the calls of Unmarshal

ASSUME HostAssumption == Host \in Aliases /\ Aliases \subseteq Envs
ASSUME BoundsAssumption == MaxWrites \in Nat /\ MaxLoads \in Nat

Kinds   == {"rt", "at", "idt", "account", "app"}
Schemas == {"v1.0", "v1.1"}
Keys    == Kinds \X Envs \X Schemas
NoItem  == 0
Older   == MaxWrites + 1            \* what other processes wrote
Newer   == MaxWrites + 2
Values  == 1..Newer
Contracts == [Keys -> Values \cup {NoItem}]
ASSUME BlobsAssumption == Blobs \subseteq [Keys -> {NoItem, Older, Newer}]

(* The order in which the methods take the kinds.                          *)
ReadOrder   == <<"at", "idt", "app", "rt", "account">>
RemoveOrder == <<"rt", "at", "idt", "account">>
Removable   == {"rt", "at", "idt", "account"}

(* What Write stores of a response, in order.  An access token about to    *)
(* expire is left out; ID token and account come together or not at all.   *)
WriteOrders == {<<"rt", "at", "idt", "account", "app">>,
                <<"rt", "idt", "account", "app">>,
                <<"rt", "at", "app">>}

VARIABLES
    accessor,   \* has the client a cache accessor
    maps,       \* every contract there was, the last is m.contract
    pc,         \* "idle", "run", or "upgrade" of a v1.0 key
    op,         \* the running (or last) method: "read", "write", "remove"
    env,        \* the environment of the account it removes, or the host
    left,       \* the kinds it has yet to look at
    key,        \* the v1.0 key it is about to upgrade
    held,       \* which contract it found that key in
    found,      \* the kinds a read has found
    serial,     \* the number of a write
    writes,     \* writes so far
    sure,       \* history: kinds a read must find
    doomed,     \* history: <<kind, environment, value>> when a removal began
    gone        \* history: those that removals have forgotten

callVars == <<op, env, serial, accessor>>
vars == <<maps, pc, callVars, left, key, held, found, writes, sure, doomed, gone>>

Current == maps[Len(maps)]
NoKey   == <<"at", Host, "v1.1">>

Init ==
    /\ accessor \in BOOLEAN
    /\ maps = <<[k \in Keys |-> NoItem]>>
    /\ pc = [c \in Callers |-> "idle"]
    /\ op = [c \in Callers |-> "read"]
    /\ env = [c \in Callers |-> Host]
    /\ left = [c \in Callers |-> <<>>]
    /\ key = [c \in Callers |-> NoKey]
    /\ held = [c \in Callers |-> 1]
    /\ found = [c \in Callers |-> {}]
    /\ serial = [c \in Callers |-> NoItem]
    /\ writes = 0
    /\ sure = [c \in Callers |-> {}]
    /\ doomed = [c \in Callers |-> {}]
    /\ gone = {}

-----------------------------------------------------------------------------
(* The methods begin.                                                      *)

Changing(c) == pc[c] # "idle" /\ op[c] \in {"write", "remove"}

(* With an accessor, writes and removals hold cacheAccessorMu, and Replace *)
(* does not run beside them.                                               *)
LockFree == accessor => ~\E c \in Callers : Changing(c)

Begin(c, o, e, order) ==
    /\ pc[c] = "idle"
    /\ pc' = [pc EXCEPT ![c] = "run"]
    /\ op' = [op EXCEPT ![c] = o]
    /\ env' = [env EXCEPT ![c] = e]
    /\ left' = [left EXCEPT ![c] = order]
    /\ found' = [found EXCEPT ![c] = {}]
    /\ UNCHANGED <<accessor, maps, key, held, gone>>

(* The items of a kind that checkAlias lets a read see.                    *)
Matching(m, kind) ==
    {k \in {kind} \X Aliases \X Schemas : m[k] # NoItem}

StartRead(c) ==
    /\ Begin(c, "read", Host, ReadOrder)
    /\ sure' = [sure EXCEPT ![c] =
                   {kind \in Kinds :
                       /\ Matching(Current, kind) # {}
                       /\ kind = "rt" => Matching(Current, "app") # {}}]
    /\ UNCHANGED <<serial, writes, doomed>>

StartWrite(c, order) ==
    /\ LockFree
    /\ writes < MaxWrites
    /\ Begin(c, "write", Host, order)
    /\ writes' = writes + 1
    /\ serial' = [serial EXCEPT ![c] = writes + 1]
    /\ sure' = [sure EXCEPT ![c] = {}]
    /\ UNCHANGED doomed

StartRemove(c, e) ==
    /\ LockFree
    /\ Begin(c, "remove", e, RemoveOrder)
    /\ doomed' = [doomed EXCEPT ![c] =
                     {<<k[1], k[2], Current[k]>> : k \in {x \in Removable \X {e} \X Schemas :
                                                    Current[x] # NoItem}}]
    /\ sure' = [sure EXCEPT ![c] = {}]
    /\ UNCHANGED <<serial, writes>>

-----------------------------------------------------------------------------
(* Their steps, one critical section of contractMu each.                   *)

Running(c, o) == pc[c] = "run" /\ op[c] = o

(* Mutated form: the last kind is left out.                                *)
GotoEarly(c, rest) ==
    /\ left' = [left EXCEPT ![c] = rest]
    /\ pc' = [pc EXCEPT ![c] = IF Len(rest) <= 1 THEN "idle" ELSE "run"]

Goto(c, rest) ==
    /\ left' = [left EXCEPT ![c] = rest]
    /\ pc' = [pc EXCEPT ![c] = IF rest = <<>> THEN "idle" ELSE "run"]

(* A read finds an item, any of the matching ones.                         *)
Find(c) ==
    /\ Running(c, "read")
    /\ \E k \in Matching(Current, Head(left[c])) :
        \/ /\ k[3] = "v1.1"
           /\ found' = [found EXCEPT ![c] = @ \cup {k[1]}]
           /\ Goto(c, Tail(left[c]))
           /\ UNCHANGED <<key, held>>
        \/ /\ k[3] = "v1.0"
           /\ pc' = [pc EXCEPT ![c] = "upgrade"]
           /\ key' = [key EXCEPT ![c] = k]
           /\ held' = [held EXCEPT ![c] = Len(maps)]
           /\ UNCHANGED <<found, left>>
    /\ UNCHANGED <<maps, callVars, writes, sure, doomed, gone>>

(* It finds none; without app metadata it does not look for an RT.         *)
FindNothing(c) ==
    /\ Running(c, "read")
    /\ Matching(Current, Head(left[c])) = {}
    /\ Goto(c, IF Head(left[c]) = "app" THEN Tail(Tail(left[c])) ELSE Tail(left[c]))
    /\ UNCHANGED <<maps, callVars, key, held, found, writes, sure, doomed, gone>>

New(k) == <<k[1], k[2], "v1.1">>

(* Mutated form: the v1.0 item overwrites the v1.1 item.                   *)
OldFirst(m, k) ==
    IF m[k] = NoItem THEN m ELSE [m EXCEPT ![New(k)] = m[k], ![k] = NoItem]

(* upgrade: the map it leaves and the item it returns.                     *)
Upgraded(m, k) ==
    IF m[k] = NoItem THEN m
    ELSE [m EXCEPT ![New(k)] = IF m[New(k)] # NoItem THEN m[New(k)] ELSE m[k],
                   ![k] = NoItem]

(* Mutated form: nothing is returned when another goroutine was faster.    *)
ReturnedIfDone(m, k) ==
    IF m[k] = NoItem THEN NoItem ELSE Upgraded(m, k)[New(k)]

Returned(m, k) == Upgraded(m, k)[New(k)]

(* Only readAccessToken upgrades in the map it searched.                   *)
Target(c) == IF key[c][1] = "at" THEN held[c] ELSE Len(maps)

Upgrade(c) ==
    /\ pc[c] = "upgrade"
    /\ maps' = [maps EXCEPT ![Target(c)] = Upgraded(maps[Target(c)], key[c])]
    /\ found' = [found EXCEPT ![c] =
                    IF Returned(maps[Target(c)], key[c]) = NoItem THEN @
                    ELSE @ \cup {key[c][1]}]
    /\ key' = [key EXCEPT ![c] = NoKey]
    /\ held' = [held EXCEPT ![c] = 1]
    /\ Goto(c, Tail(left[c]))
    /\ UNCHANGED <<callVars, writes, sure, doomed, gone>>

(* writeRefreshToken and the others.                                       *)
Put(c) ==
    /\ Running(c, "write")
    /\ maps' = [maps EXCEPT ![Len(maps)][<<Head(left[c]), Host, "v1.1">>] = serial[c]]
    /\ Goto(c, Tail(left[c]))
    /\ UNCHANGED <<callVars, key, held, found, writes, sure, doomed, gone>>

(* Mutated form: the items are looked up by their v1.1 keys.               *)
ClearedByKey(m, kind, e) == [m EXCEPT ![<<kind, e, "v1.1">>] = NoItem]

(* removeRefreshTokens and the others; the environment must be the same.   *)
Cleared(m, kind, e) ==
    [k \in Keys |-> IF k[1] = kind /\ k[2] = e THEN NoItem ELSE m[k]]

Delete(c) ==
    /\ Running(c, "remove")
    /\ maps' = [maps EXCEPT ![Len(maps)] = Cleared(Current, Head(left[c]), env[c])]
    /\ Goto(c, Tail(left[c]))
    /\ gone' = IF Len(left[c]) = 1 THEN gone \cup doomed[c] ELSE gone
    /\ doomed' = IF Len(left[c]) = 1 THEN [doomed EXCEPT ![c] = {}] ELSE doomed
    /\ sure' = [d \in Callers |-> sure[d] \ {Head(left[c])}]
    /\ UNCHANGED <<callVars, key, held, found, writes>>

(* Unmarshal: from now on external storage says what there is.             *)
Unmarshal(b) ==
    /\ accessor /\ LockFree
    /\ Len(maps) <= MaxLoads
    /\ maps' = Append(maps, b)
    /\ sure' = [d \in Callers |-> {}]
    /\ gone' = {}
    /\ UNCHANGED <<pc, callVars, left, key, held, found, writes, doomed>>

Next ==
    \/ \E c \in Callers :
        \/ StartRead(c)
        \/ \E order \in WriteOrders : StartWrite(c, order)
        \/ \E e \in Envs : StartRemove(c, e)
        \/ Find(c) \/ FindNothing(c) \/ Upgrade(c) \/ Put(c) \/ Delete(c)
    \/ \E b \in Blobs : Unmarshal(b)

Spec == Init /\ [][Next]_vars

-----------------------------------------------------------------------------
(* Properties.                                                             *)

(* The type invariant; a goroutine that upgrades is a read at that kind.   *)
TypeOK ==
    /\ accessor \in BOOLEAN
    /\ maps \in Seq(Contracts) /\ Len(maps) \in 1..(MaxLoads + 1)
    /\ pc \in [Callers -> {"idle", "run", "upgrade"}]
    /\ op \in [Callers -> {"read", "write", "remove"}]
    /\ env \in [Callers -> Envs]
    /\ left \in [Callers -> Seq(Kinds)]
    /\ key \in [Callers -> Keys]
    /\ held \in [Callers -> 1..Len(maps)]
    /\ found \in [Callers -> SUBSET Kinds]
    /\ serial \in [Callers -> 0..MaxWrites]
    /\ writes \in 0..MaxWrites
    /\ \A c \in Callers :
        /\ pc[c] = "idle" <=> left[c] = <<>>
        /\ pc[c] = "upgrade" => op[c] = "read" /\ key[c][1] = Head(left[c])
        /\ op[c] = "write" => serial[c] \in 1..writes

(* The newest item of a kind in an environment: v1.1 before v1.0.          *)
Newest(m, kind, e) ==
    LET new == m[<<kind, e, "v1.1">>]
    IN  IF new # NoItem THEN new ELSE m[<<kind, e, "v1.0">>]

(* Reads never change what the cache says: whatever goroutines upgrade at  *)
(* the same time, in whatever contract, the newest item of a kind stays,   *)
(* unless a write, a removal or a load has replaced it (the preference the *)
(* comment at storage.go:107-109 explains).                                *)
ReadsChangeNothing ==
    [][\A kind \in Kinds, e \in Envs :
        Newest(Current', kind, e) # Newest(Current, kind, e) =>
            \/ Len(maps') > Len(maps)
            \/ \E c \in Callers : Changing(c) /\ left'[c] # left[c]]_vars

(* A read finds every kind of item that was there, under some alias, when  *)
(* it began and has not been removed or unloaded since, although other     *)
(* reads move the items it is looking for (storage.go:102-105).            *)
ReadFinds ==
    \A c \in Callers :
        op[c] = "read" =>
            \A kind \in sure[c] :
                (\A i \in 1..Len(left[c]) : left[c][i] # kind)
                    => kind \in found[c]

(* What RemoveAccount forgot is gone for good: no reader that found it     *)
(* before, no upgrade and no write brings back an item that was there when *)
(* the removal began.                                                      *)
RemovedStaysRemoved ==
    \A k \in Keys : Current[k] # NoItem => <<k[1], k[2], Current[k]>> \notin gone

(* RemoveAccount "signs the account out and forgets account from token     *)
(* cache" (public.go:523): when the removal of the account of the client's *)
(* own host ends, and nobody wrote meanwhile, a read finds no token of it. *)
SignedOut ==
    [][\A c \in Callers :
        Running(c, "remove") /\ env[c] = Host /\ pc'[c] = "idle" /\ writes = 0
            => Matching(Current', "at") = {} /\ Matching(Current', "rt") = {}]_vars
=============================================================================
