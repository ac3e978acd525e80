--------------------------- MODULE ExternalCache ---------------------------
(***************************************************************************)
(* base.Client with a cache accessor (cache.ExportReplace): goroutines     *)
(* that share the in-memory managers, the read/write lock cacheAccessorMu  *)
(* and an external store that outlives the process.                        *)
(*                                                                         *)
(* A read takes the lock shared, lets the accessor replace the memory, and *)
(* reads the memory after letting go of the lock.  A write takes the lock  *)
(* exclusively, replaces the memory, writes it and exports it.  How a      *)
(* goroutine decides to ask the service is module SilentRefresh's subject: *)
(* here a read may end either way.                                         *)
(*                                                                         *)
(* The accessor is the one the repository's tests use (public_test.go:     *)
(* 522-538): a blob per partition key, and Replace leaves the memory alone *)
(* where there is none.  One key for everything makes it the file of the   *)
(* sample accessor.                                                        *)
(***************************************************************************)
EXTENDS Naturals, FiniteSets

CONSTANTS
    Callers,        \* goroutines
    Slots,          \* what a read looks up: "user", "app" or "obo"
    Keys,           \* the accessor's partition keys
    KeyOf,          \* slot -> key of its reads and writes
    AccountsKey,    \* key that Accounts and RemoveAccount use
    SignInKey,      \* key under which a sign-in is exported
    MaxTokens,      \* bound on the access tokens the service issues
    MaxRestarts     \* bound on the crashes of the process

ASSUME SlotsAssumption == Slots \subseteq {"user", "app", "obo"} /\ "user" \in Slots
ASSUME KeysAssumption ==
    KeyOf \in [Slots -> Keys] /\ AccountsKey \in Keys /\ SignInKey \in Keys
ASSUME BoundsAssumption == MaxTokens \in Nat /\ MaxRestarts \in Nat
(* Both are the HomeAccountID (tokens.go CacheKey, authority.go CacheKey), *)
(* or the name of the one file.                                            *)
ASSUME SignInKeyAssumption == SignInKey = KeyOf["user"]

Tokens  == 1..MaxTokens
NoToken == 0
Nobody  == "nobody"
ASSUME NobodyAssumption == Nobody \notin Callers

ManagerSlots == Slots \ {"obo"}   \* the others are pmanager's
Snapshots    == [ManagerSlots -> Tokens \cup {NoToken}]
Absent       == [s \in {} |-> NoToken]
Ops          == {"acquire", "signin", "remove", "accounts", "account"}
NoCall       == [op |-> "none", slot |-> "user"]
Calls        == {NoCall} \cup [op : Ops, slot : Slots]
Places       == {"idle", "rlock", "rfetch", "rload", "read", "ask", "lock", "drain",
                 "wfetch", "wload", "write", "export"}

VARIABLES
    store,      \* key -> what was last exported, or Absent
    mem,        \* the managers' memory: slot -> token or NoToken
    readers,    \* goroutines that hold cacheAccessorMu shared
    writer,     \* the one that holds it, or waits for readers to leave
    pc,         \* where each goroutine is
    call,       \* its current call, NoCall between calls
    silent,     \* is it inside AcquireTokenSilent (a wrapper goes on after)
    blob,       \* what the accessor read for it
    seen,       \* the token it read from memory
    got,        \* the token the service gave it
    result,     \* what the call returned, NoToken for an error
    issued,     \* tokens issued so far
    restarts,   \* crashes so far
    exported,   \* history: slot -> token of the last successful export
    had,        \* history: callers whose slot the store held at their fetch
    removed,    \* history: tokens that a successful RemoveAccount forgot
    forgot      \* history: caller -> removed, when its call began

lockVars == <<readers, writer>>
history  == <<exported, had, removed, forgot>>
vars == <<store, mem, lockVars, pc, call, silent, blob, seen, got, result, issued,
          restarts, history>>

Init ==
    /\ store = [k \in Keys |-> Absent]
    /\ mem = [s \in Slots |-> NoToken]
    /\ readers = {} /\ writer = Nobody
    /\ pc = [c \in Callers |-> "idle"]
    /\ call = [c \in Callers |-> NoCall]
    /\ silent = [c \in Callers |-> FALSE]
    /\ blob = [c \in Callers |-> Absent]
    /\ seen = [c \in Callers |-> NoToken]
    /\ got = [c \in Callers |-> NoToken]
    /\ result = [c \in Callers |-> NoToken]
    /\ issued = 0 /\ restarts = 0
    /\ exported = [s \in ManagerSlots |-> NoToken]
    /\ had = {} /\ removed = {}
    /\ forgot = [c \in Callers |-> {}]

-----------------------------------------------------------------------------
Slot(c) == call[c].slot
Op(c)   == call[c].op

(* The hint given to the accessor: AuthParams.CacheKey and its kin.        *)
Key(c) == CASE Op(c) \in {"acquire", "account"} -> KeyOf[Slot(c)]
            [] Op(c) = "signin"  -> SignInKey
            [] OTHER             -> AccountsKey

Goto(c, p) == pc' = [pc EXCEPT ![c] = p]

(* The call is over.                                                       *)
Return(c, t) ==
    /\ Goto(c, "idle")
    /\ result' = [result EXCEPT ![c] = t]
    /\ seen' = [seen EXCEPT ![c] = NoToken]
    /\ got' = [got EXCEPT ![c] = NoToken]
    /\ blob' = [blob EXCEPT ![c] = Absent]
    /\ silent' = [silent EXCEPT ![c] = FALSE]
    /\ call' = [call EXCEPT ![c] = NoCall]
    /\ had' = had \ {c}

(* Mutated form: the wrapper's own request is tried again too.             *)
FailRetried(c) ==
    \/ Slot(c) \in {"app", "obo"} /\ Goto(c, "ask")
       /\ UNCHANGED <<call, silent, blob, seen, got, result, had>>
    \/ Slot(c) = "user" /\ Return(c, NoToken)

(* An error: a wrapper of AcquireTokenSilent goes to the service.          *)
Fail(c) ==
    \/ /\ silent[c] /\ Slot(c) \in {"app", "obo"}
       /\ Goto(c, "ask")
       /\ silent' = [silent EXCEPT ![c] = FALSE]
       /\ blob' = [blob EXCEPT ![c] = Absent]
       /\ seen' = [seen EXCEPT ![c] = NoToken]
       /\ got' = [got EXCEPT ![c] = NoToken]
       /\ had' = had \ {c}
       /\ UNCHANGED <<call, result>>
    \/ /\ ~(silent[c] /\ Slot(c) \in {"app", "obo"})
       /\ Return(c, NoToken)

(* A call begins.                                                          *)
First(op) == CASE op = "signin" -> "ask"
               [] op = "remove" -> "lock"
               [] OTHER         -> "rlock"

Start(c, op, s) ==
    /\ pc[c] = "idle"
    /\ op # "acquire" => s = "user"
    /\ call' = [call EXCEPT ![c] = [op |-> op, slot |-> s]]
    /\ silent' = [silent EXCEPT ![c] = (op = "acquire")]
    /\ result' = [result EXCEPT ![c] = NoToken]
    /\ forgot' = [forgot EXCEPT ![c] = removed]
    /\ Goto(c, First(op))
    /\ UNCHANGED <<store, mem, lockVars, blob, seen, got, issued, restarts,
                   exported, had, removed>>

-----------------------------------------------------------------------------
(* The read of AcquireTokenSilent, of Accounts and of Account.             *)

(* Mutated form: Replace runs outside the lock.                            *)
NoRLock(c) ==
    /\ pc[c] = "rlock"
    /\ Goto(c, "rfetch")
    /\ UNCHANGED <<store, mem, lockVars, call, silent, blob, seen, got, result,
                   issued, restarts, history>>

(* RLock: a writer that waits keeps later readers out.                     *)
RLock(c) ==
    /\ pc[c] = "rlock"
    /\ writer = Nobody
    /\ readers' = readers \cup {c}
    /\ Goto(c, "rfetch")
    /\ UNCHANGED <<store, mem, writer, call, silent, blob, seen, got, result,
                   issued, restarts, history>>

(* The accessor reads its storage, or fails, which RUnlock follows.        *)
RFetch(c) ==
    /\ pc[c] = "rfetch"
    /\ Goto(c, "rload")
    /\ blob' = [blob EXCEPT ![c] = store[Key(c)]]
    /\ had' = IF Slot(c) \in DOMAIN store[Key(c)] /\ store[Key(c)][Slot(c)] # NoToken
              THEN had \cup {c} ELSE had
    /\ UNCHANGED <<store, mem, lockVars, call, silent, seen, got, result, issued,
                   restarts, exported, removed, forgot>>

(* Mutated form: an error of Replace returns without RUnlock.              *)
RFailLocked(c) ==
    /\ pc[c] = "rfetch"
    /\ Fail(c)
    /\ UNCHANGED <<store, mem, lockVars, issued, restarts, exported, removed,
                   forgot>>

RFail(c) ==
    /\ pc[c] = "rfetch"
    /\ readers' = readers \ {c}
    /\ Fail(c)
    /\ UNCHANGED <<store, mem, writer, issued, restarts, exported, removed,
                   forgot>>

(* Unmarshal.  Manager's overwrites its memory; PartitionedManager's is an *)
(* error, because the json package wants a field InMemoryContract lacks.   *)
Unloadable(c) == Op(c) = "acquire" /\ Slot(c) = "obo" /\ blob[c] # Absent

Loaded(c) == [s \in Slots |-> IF s \in DOMAIN blob[c] THEN blob[c][s] ELSE mem[s]]

(* RUnlock follows the load; Accounts and Account read the memory before.  *)
RLoad(c) ==
    /\ pc[c] = "rload"
    /\ readers' = readers \ {c}
    /\ \/ /\ Unloadable(c)
          /\ Fail(c)
          /\ UNCHANGED mem
       \/ /\ ~Unloadable(c)
          /\ mem' = Loaded(c)
          /\ \/ Op(c) \in {"accounts", "account"} /\ Return(c, NoToken)
             \/ /\ Op(c) = "acquire"
                /\ Goto(c, "read")
                /\ UNCHANGED <<call, silent, blob, seen, got, result, had>>
    /\ UNCHANGED <<store, writer, issued, restarts, exported, removed, forgot>>

(* m.Read, with no lock of the client's held: serve the token, ask for a   *)
(* replacement (it is due, it expired, there are claims), or find nothing. *)
Serve(c) ==
    /\ pc[c] = "read" /\ mem[Slot(c)] # NoToken
    /\ Return(c, mem[Slot(c)])
    /\ UNCHANGED <<store, mem, lockVars, issued, restarts, exported, removed,
                   forgot>>

Replaceable(c) ==
    /\ pc[c] = "read" /\ mem[Slot(c)] # NoToken
    /\ Goto(c, "ask")
    /\ seen' = [seen EXCEPT ![c] = mem[Slot(c)]]
    /\ UNCHANGED <<store, mem, lockVars, call, silent, blob, got, result, issued,
                   restarts, history>>

Miss(c) ==
    /\ pc[c] = "read" /\ mem[Slot(c)] = NoToken
    /\ Fail(c)
    /\ UNCHANGED <<store, mem, lockVars, issued, restarts, exported, removed,
                   forgot>>

-----------------------------------------------------------------------------
(* The token request.                                                      *)

Granted(c) ==
    /\ pc[c] = "ask" /\ issued < MaxTokens
    /\ issued' = issued + 1
    /\ got' = [got EXCEPT ![c] = issued + 1]
    /\ Goto(c, "lock")
    /\ UNCHANGED <<store, mem, lockVars, call, silent, blob, seen, result, restarts,
                   history>>

(* A proactive refresh that fails may be answered with the token it read.  *)
Refused(c) ==
    /\ pc[c] = "ask"
    /\ Fail(c) \/ (seen[c] # NoToken /\ Return(c, seen[c]))
    /\ UNCHANGED <<store, mem, lockVars, issued, restarts, exported, removed,
                   forgot>>

-----------------------------------------------------------------------------
(* AuthResultFromToken and RemoveAccount, under the exclusive lock.        *)

(* Lock: first exclude other writers and new readers, then wait for the    *)
(* readers inside.                                                         *)
Lock(c) ==
    /\ pc[c] = "lock" /\ writer = Nobody
    /\ writer' = c
    /\ Goto(c, "drain")
    /\ UNCHANGED <<store, mem, readers, call, silent, blob, seen, got, result,
                   issued, restarts, history>>

Drained(c) ==
    /\ pc[c] = "drain" /\ readers = {}
    /\ Goto(c, "wfetch")
    /\ UNCHANGED <<store, mem, lockVars, call, silent, blob, seen, got, result,
                   issued, restarts, history>>

(* Mutated form: a write does not replace the memory first.                *)
SkipWFetch(c) ==
    /\ pc[c] = "wfetch"
    /\ Goto(c, "write")
    /\ UNCHANGED <<store, mem, lockVars, call, silent, blob, seen, got, result,
                   issued, restarts, history>>

WFetch(c) ==
    /\ pc[c] = "wfetch"
    /\ Goto(c, "wload")
    /\ blob' = [blob EXCEPT ![c] = store[Key(c)]]
    /\ UNCHANGED <<store, mem, lockVars, call, silent, seen, got, result, issued,
                   restarts, history>>

(* An error under the lock; Unlock is deferred.                            *)
Abort(c) ==
    /\ writer' = Nobody
    /\ Fail(c)
    /\ UNCHANGED <<store, readers, issued, restarts, exported, removed, forgot>>

WFail(c) == pc[c] \in {"wfetch", "export"} /\ Abort(c) /\ UNCHANGED mem

WLoad(c) ==
    /\ pc[c] = "wload"
    /\ \/ Unloadable(c) /\ Abort(c) /\ UNCHANGED mem
       \/ /\ ~Unloadable(c)
          /\ mem' = Loaded(c)
          /\ Goto(c, "write")
          /\ UNCHANGED <<store, lockVars, call, silent, blob, seen, got, result,
                         issued, restarts, history>>

(* Write, or RemoveAccount's removal.  A token about to expire is not      *)
(* stored, which is an error in pmanager only; declined scopes store it    *)
(* elsewhere and are an error before the export.                           *)
Write(c) ==
    /\ pc[c] = "write"
    /\ \/ /\ Op(c) # "remove"
          /\ mem' \in IF Slot(c) = "obo" THEN {[mem EXCEPT ![Slot(c)] = got[c]]}
                      ELSE {mem, [mem EXCEPT ![Slot(c)] = got[c]]}
          /\ UNCHANGED had
       \/ /\ Op(c) = "remove"
          /\ mem' = [mem EXCEPT !["user"] = NoToken]
          /\ had' = {d \in had : Slot(d) # "user"}
    /\ Goto(c, "export")
    /\ UNCHANGED <<store, lockVars, call, silent, blob, seen, got, result, issued,
                   restarts, exported, removed, forgot>>

WriteFail(c) == pc[c] = "write" /\ Op(c) # "remove" /\ Abort(c) /\ UNCHANGED mem

(* What Export stores: Export(b.manager), whatever manager was written.    *)
Snapshot == [s \in ManagerSlots |-> mem[s]]

(* Mutated form: the export of RemoveAccount is left to the next write.    *)
ExportTokensOnly(c) ==
    IF Op(c) = "remove" THEN store ELSE [store EXCEPT ![Key(c)] = Snapshot]

ExportedStore(c) == [store EXCEPT ![Key(c)] = Snapshot]

(* The export, and the deferred Unlock.                                    *)
Export(c) ==
    /\ pc[c] = "export"
    /\ store' = ExportedStore(c)
    /\ exported' = [s \in ManagerSlots |->
                      IF s # Slot(c) THEN exported[s]
                      ELSE IF Op(c) = "remove" THEN NoToken
                      ELSE IF mem[s] = got[c] THEN got[c] ELSE exported[s]]
    /\ removed' = IF Op(c) = "remove" THEN removed \cup ({exported["user"]} \ {NoToken})
                  ELSE removed
    /\ writer' = Nobody
    /\ Return(c, got[c])
    /\ UNCHANGED <<mem, readers, issued, restarts, forgot>>

-----------------------------------------------------------------------------
(* The process dies; the store stays.                                      *)
Restart ==
    /\ restarts < MaxRestarts
    /\ restarts' = restarts + 1
    /\ mem' = [s \in Slots |-> NoToken]
    /\ readers' = {} /\ writer' = Nobody
    /\ pc' = [c \in Callers |-> "idle"]
    /\ silent' = [c \in Callers |-> FALSE]
    /\ blob' = [c \in Callers |-> Absent]
    /\ seen' = [c \in Callers |-> NoToken]
    /\ got' = [c \in Callers |-> NoToken]
    /\ result' = [c \in Callers |-> NoToken]
    /\ had' = {}
    /\ UNCHANGED <<store, call, issued, exported, removed, forgot>>

Step(c) ==
    \/ RFetch(c) \/ RFail(c) \/ RLoad(c) \/ Serve(c) \/ Replaceable(c) \/ Miss(c)
    \/ Granted(c) \/ Refused(c) \/ Drained(c) \/ WFetch(c) \/ WFail(c) \/ WLoad(c)
    \/ Write(c) \/ WriteFail(c) \/ Export(c)

Next ==
    \/ \E c \in Callers :
        \/ \E op \in Ops, s \in Slots : Start(c, op, s)
        \/ RLock(c) \/ Lock(c) \/ Step(c)
    \/ Restart

(* Goroutines run, accessor and token service answer (cache.go requires a  *)
(* timeout of the one, comm.go:234 sets one for the other), and neither    *)
(* readers nor writers starve at a sync.RWMutex.                           *)
Spec == /\ Init /\ [][Next]_vars
        /\ \A c \in Callers : WF_vars(Step(c)) /\ SF_vars(RLock(c)) /\ SF_vars(Lock(c))

-----------------------------------------------------------------------------
(* Properties.                                                             *)

(* The type invariant; who holds the lock is who is where it is held.      *)
TypeOK ==
    /\ store \in [Keys -> Snapshots \cup {Absent}]
    /\ mem \in [Slots -> Tokens \cup {NoToken}]
    /\ writer \in Callers \cup {Nobody}
    /\ pc \in [Callers -> Places]
    /\ call \in [Callers -> Calls]
    /\ silent \in [Callers -> BOOLEAN]
    /\ blob \in [Callers -> Snapshots \cup {Absent}]
    /\ seen \in [Callers -> Tokens \cup {NoToken}]
    /\ got \in [Callers -> Tokens \cup {NoToken}]
    /\ result \in [Callers -> Tokens \cup {NoToken}]
    /\ issued \in 0..MaxTokens
    /\ restarts \in 0..MaxRestarts
    /\ exported \in [ManagerSlots -> Tokens \cup {NoToken}]
    /\ had \subseteq Callers
    /\ removed \subseteq Tokens
    /\ forgot \in [Callers -> SUBSET Tokens]
    /\ readers = {c \in Callers : pc[c] \in {"rfetch", "rload"}}
    /\ \A c \in Callers :
        pc[c] \in {"drain", "wfetch", "wload", "write", "export"} <=> writer = c

(* No update is lost between the goroutines of a process, nor in a crash:  *)
(* the store holds, for every slot, the token of the last call that        *)
(* exported one (unless RemoveAccount forgot it), although every export    *)
(* writes the whole memory and failed calls leave that ahead of the store. *)
NoLostUpdate ==
    \A s \in ManagerSlots :
        exported[s] # NoToken =>
            store[KeyOf[s]] # Absent /\ store[KeyOf[s]][s] = exported[s]

(* A silent call whose slot was in the store when its Replace read it (and *)
(* was not removed since) does not report a miss, though it reads memory   *)
(* that others replace, write and remove from after it let go of the lock. *)
StoredIsFound ==
    \A c \in Callers : pc[c] = "read" /\ c \in had => mem[Slot(c)] # NoToken

(* RemoveAccount "signs the account out and forgets account from token     *)
(* cache" (public.go:523): no call that begins later returns a token it    *)
(* forgot, whatever Replace and Export bring back, in this process or the  *)
(* next.                                                                   *)
ForgottenStaysForgotten == \A c \in Callers : result[c] \notin forgot[c]

(* "Unmarshal unmarshals data from a storage medium into the internal      *)
(* cache, overwriting it" (cache.go:23): what Export stored can be loaded, *)
(* so a call that holds a granted token gets to write it.                  *)
ExportedCanBeLoaded ==
    [][\A c \in Callers :
        pc[c] = "wload" /\ restarts' = restarts => pc'[c] \in {"wload", "write"}]_vars

(* Every call returns: no path keeps the lock, and readers and writers do  *)
(* not wait for each other for ever.                                       *)
EveryCallReturns == \A c \in Callers : pc[c] # "idle" ~> pc[c] = "idle"
=============================================================================
