-------------------------- MODULE DiscoveryProofs --------------------------
(***************************************************************************)
(* Proofs about Discovery, for every set of goroutines, authorities,       *)
(* tenants, issuers and answers of the services.                           *)
(*                                                                         *)
(* The invariants build on each other: types and the lock (Typed), who     *)
(* leads which run (FlightLed), what a leader can rely on (NotYetFound),   *)
(* and what the maps hold (MetadataInv, EndpointsInv).                     *)
(***************************************************************************)
EXTENDS Discovery, TLAPS

(* The lists that instance discovery can answer to a client.               *)
Errs         == {"none", "invalid", "failed", "refused"}
Lists(cfg)   == {{}} \cup Listings
                    \cup {{RegionalAliases(r, cfg.host)} : r \in Detected \cup {cfg.region}}
Answers(cfg) == [err : Errs, list : Lists(cfg)]

(* Types, and who holds aadCacheMu over a request.                         *)
CallsTyped ==
    /\ pc \in [Callers -> Places]
    /\ tenant \in [Callers -> Tenants] /\ domain \in [Callers -> Domains]
    /\ ended \in [Callers -> BOOLEAN] /\ late \in [Callers -> BOOLEAN]
    /\ result \in [Callers -> Endpoints \cup {NoEndpoints, Failed}]
    /\ answer \in [Callers -> Answers(client)]
    /\ \A c \in Callers : pc[c] = "fetch" => answer[c].err = "none"

LockInv ==
    /\ lock \in Callers \cup {NoCaller}
    /\ \A c \in Callers :
        /\ pc[c] = "enter" => manager = "Manager"
        /\ lock = c <=> manager = "Manager" /\ pc[c] \in {"ask", "merge"}

DataTyped ==
    /\ manager \in Managers /\ client \in Configs
    /\ endpoints \in [Tenants -> Endpoints \cup {NoEndpoints}]
    /\ domains \subseteq Domains \ {NoDomain}
    /\ flight \in [Tenants -> Callers \cup {NoCaller}]

Typed == CallsTyped /\ LockInv /\ DataTyped

(* A leader past its second look knows that nothing was found for its      *)
(* tenant, and nobody else looks for it.                                   *)
NotYetFound ==
    \A c \in Callers :
        pc[c] \in {"instance", "fetch"} => endpoints[tenant[c]] = NoEndpoints

(* A host known when a call began is known ever after.                     *)
LateKnown == \A c \in Callers : late[c] => client.host \in DOMAIN metadata

(* Endpoints are kept, and handed out, for their own tenant.               *)
Right(e, t) == e \in Endpoints => e.tenant = t /\ e.issuer \notin Rogue

EndpointsInv ==
    /\ \A t \in Tenants : Right(endpoints[t], t)
    /\ \A c \in Callers : Right(result[c], tenant[c])

-----------------------------------------------------------------------------
(* Type correctness and the lock.                                          *)

LEMMA TenantsTyped ==
    ASSUME client \in Configs, NEW id \in IdsOf[client], TenantFor(client, id) # Refused
    PROVE  TenantFor(client, id) \in Tenants
<1> DEFINE Of(cfg) == {TenantFor(cfg, i) : i \in IdsOf[cfg]}
<1>1. Tenants = (UNION {Of(cfg) : cfg \in Configs}) \ {Refused}
  BY DEF Tenants
<1>2. TenantFor(client, id) \in Of(client)
  OBVIOUS
<1> HIDE DEF Of
<1>3. TenantFor(client, id) \in UNION {Of(cfg) : cfg \in Configs}
  BY <1>2
<1>4. QED
  BY <1>1, <1>3

LEMMA InitTyped == Init => Typed
<1> SUFFICES ASSUME Init PROVE Typed
  OBVIOUS
<1>1. Tenants # {}
  <2>1. client \in Configs /\ client.tenant # Refused /\ NoTenant \in IdsOf[client]
    BY ConfigsAssumption DEF Init
  <2>2. TenantFor(client, NoTenant) = client.tenant
    BY DEF TenantFor, WithTenant
  <2>3. QED
    BY <2>1, <2>2, TenantsTyped
<1>2. (CHOOSE t \in Tenants : TRUE) \in Tenants
  BY <1>1
<1>3. NoAnswer \in Answers(client)
  BY DEF NoAnswer, Answer, Answers, Errs, Lists
<1>4. CallsTyped
  BY <1>2, <1>3, DomainAssumption DEF Init, CallsTyped, Places, Asking, Leading
<1>5. LockInv
  BY NoCallerAssumption DEF Init, LockInv
<1>6. DataTyped
  BY DEF Init, DataTyped
<1>7. QED
  BY <1>4, <1>5, <1>6 DEF Typed

(* Instance discovery answers one of the lists it can answer.              *)
LEMMA AnswersTyped ==
    ASSUME Typed, NEW c \in Callers, NEW a \in AADInstanceDiscovery(c)
    PROVE  a \in Answers(client)
<1>1. ASSUME NEW r \in Regions, r # NoRegion PROVE ForRegion(r) \in Answers(client)
  <2>1. r \in Detected \cup {client.region}
    BY <1>1 DEF Regions
  <2>2. {RegionalAliases(r, client.host)} \in Lists(client) /\ {} \in Lists(client)
    BY <2>1 DEF Lists
  <2>3. QED
    BY <2>2 DEF ForRegion, Answer, Answers, Errs
<1>2. ASSUME NEW reply, NEW list \in Listings PROVE FromReply(reply, list) \in Answers(client)
  <2>1. list \in Lists(client) /\ {} \in Lists(client)
    BY DEF Lists
  <2>2. QED
    BY <2>1 DEF FromReply, Answer, Answers, Errs
<1>3. QED
  BY <1>1, <1>2 DEF AADInstanceDiscovery

LEMMA ReturnAllTyped ==
    ASSUME CallsTyped, NEW out, NEW r \in Endpoints \cup {NoEndpoints, Failed}, ReturnAll(out, r),
           UNCHANGED client
    PROVE  CallsTyped'
<1>1. NoAnswer \in Answers(client) /\ "idle" \in Places /\ UNCHANGED argVars
  BY DEF NoAnswer, Answer, Answers, Errs, Lists, Places, ReturnAll
<1>2. pc' \in [Callers -> Places]
  BY <1>1 DEF CallsTyped, ReturnAll
<1>3. ended' \in [Callers -> BOOLEAN]
  BY DEF CallsTyped, ReturnAll
<1>4. result' \in [Callers -> Endpoints \cup {NoEndpoints, Failed}]
  BY DEF CallsTyped, ReturnAll
<1>5. answer' \in [Callers -> Answers(client)]
  BY <1>1 DEF CallsTyped, ReturnAll
<1>6. \A c \in Callers : pc'[c] = "fetch" => answer'[c].err = "none"
  BY DEF CallsTyped, ReturnAll
<1>7. QED
  BY <1>1, <1>2, <1>3, <1>4, <1>5, <1>6 DEF CallsTyped, argVars

(* A step within a call that leaves its arguments and result alone.        *)
LEMMA MoveTyped ==
    ASSUME CallsTyped, NEW c \in Callers, NEW p \in Places \ {"fetch"}, Goto(c, p),
           UNCHANGED <<client, argVars, ended, answer, result>>
    PROVE  CallsTyped'
BY DEF CallsTyped, Goto, argVars

LEMMA ClientStays == [Next]_vars => UNCHANGED constVars
<1> SUFFICES ASSUME [Next]_vars PROVE UNCHANGED constVars
  OBVIOUS
<1>1. ASSUME NEW c \in Callers, Cancel(c) \/ Locked(c) \/ Request(c) \/ Step(c)
      PROVE  UNCHANGED constVars
  BY <1>1 DEF Cancel, Locked, Request, Step, Hit, Miss, EnterLock, Ask, Instance, Fetch, GiveUp,
     Merge, CacheHit, CacheMiss, Lead, Follow, Check, Leave
<1>2. QED
  BY <1>1 DEF Next, Start, vars

LEMMA CallsStep == Typed /\ [Next]_vars => CallsTyped'
<1> SUFFICES ASSUME Typed, [Next]_vars PROVE CallsTyped'
  OBVIOUS
<1>0. CallsTyped /\ DataTyped
  BY DEF Typed
<1> USE DEF Places, Asking, Leading
<1>a. NoAnswer \in Answers(client) /\ NoAnswer.err = "none"
  BY DEF NoAnswer, Answer, Answers, Errs, Lists
<1>c. UNCHANGED client
  BY ClientStays DEF constVars
<1>b. \A c \in Callers : Cached(c) \in Endpoints \cup {NoEndpoints, Failed}
  BY <1>0 DEF CallsTyped, DataTyped, Cached
<1>1. ASSUME NEW c \in Callers, NEW silent \in BOOLEAN, NEW id \in IdsOf[client],
             NEW d \in Domains, Start(c, silent, id, d)
      PROVE  CallsTyped'
  <2>1. TenantFor(client, id) \in Tenants
    BY <1>0, <1>c, <1>1, TenantsTyped DEF Start, DataTyped
  <2>2. FirstStep(silent) \in {"lookup", "resolve"} /\ (client.host \in DOMAIN metadata) \in BOOLEAN
    BY DEF FirstStep
  <2>3. pc' \in [Callers -> Places] /\ \A e \in Callers : pc'[e] = "fetch" => pc[e] = "fetch"
    BY <1>0, <1>c, <1>1, <2>2 DEF CallsTyped, Start, Goto
  <2>4. late' \in [Callers -> BOOLEAN]
    BY <1>0, <1>c, <1>1, <2>2 DEF CallsTyped, Start
  <2>5. QED
    BY <1>0, <1>c, <1>1, <2>1, <2>3, <2>4 DEF CallsTyped, Start
<1>2. ASSUME NEW c \in Callers, Cancel(c) PROVE CallsTyped'
  BY <1>0, <1>c, <1>2 DEF CallsTyped, Cancel, argVars
<1>3. ASSUME NEW c \in Callers, Hit(c) \/ Merge(c) PROVE CallsTyped'
  <2>1. CASE Return(c, NoEndpoints)
    BY <1>0, <1>c, <2>1, ReturnAllTyped DEF Return
  <2>2. CASE Goto(c, "resolve") /\ UNCHANGED <<argVars, ended, answer, result>>
    BY <1>0, <1>c, <2>2, MoveTyped
  <2>3. QED
    BY <1>3, <2>1, <2>2 DEF Hit, Merge, Looked
<1>4. ASSUME NEW c \in Callers, GiveUp(c) \/ CacheHit(c) PROVE CallsTyped'
  BY <1>0, <1>c, <1>b, <1>4, ReturnAllTyped DEF GiveUp, CacheHit, Return
<1>5. ASSUME NEW c \in Callers,
             Miss(c) \/ EnterLock(c) \/ CacheMiss(c) \/ Lead(c) \/ Follow(c)
      PROVE  CallsTyped'
  <2>1. PICK p \in {"enter", "ask", "join", "check", "wait"} : Goto(c, p)
    BY <1>5 DEF Miss, EnterLock, CacheMiss, Lead, Follow
  <2>2. UNCHANGED <<argVars, ended, answer, result>>
    BY <1>5 DEF Miss, EnterLock, CacheMiss, Lead, Follow
  <2>3. QED
    BY <1>0, <1>c, <2>1, <2>2, MoveTyped
<1>6. ASSUME NEW c \in Callers, Ask(c) PROVE CallsTyped'
  <2>1. PICK a \in AADInstanceDiscovery(c) : answer' = [answer EXCEPT ![c] = a]
    BY <1>6 DEF Ask
  <2>2. a \in Answers(client)
    BY <2>1, AnswersTyped
  <2>3. QED
    BY <1>0, <1>c, <1>6, <2>1, <2>2 DEF CallsTyped, Ask, Goto, argVars
<1>7. ASSUME NEW c \in Callers, Instance(c) PROVE CallsTyped'
  <2>1. PICK a \in AADInstanceDiscovery(c) :
            /\ answer' = [answer EXCEPT ![c] = a]
            /\ IF a.err = "none"
                  THEN Goto(c, "fetch") /\ UNCHANGED result
                  ELSE Goto(c, "leave") /\ result' = [result EXCEPT ![c] = Failed]
    BY <1>7 DEF Instance
  <2>2. a \in Answers(client)
    BY <2>1, AnswersTyped
  <2>3. UNCHANGED <<argVars, ended>>
    BY <1>7 DEF Instance
  <2>4. CASE a.err = "none"
    BY <1>0, <1>c, <2>1, <2>2, <2>3, <2>4 DEF CallsTyped, Goto, argVars
  <2>5. CASE a.err # "none"
    BY <1>0, <1>c, <2>1, <2>2, <2>3, <2>5 DEF CallsTyped, Goto, argVars
  <2>6. QED
    BY <2>4, <2>5
<1>8. ASSUME NEW c \in Callers, Check(c) PROVE CallsTyped'
  BY <1>0, <1>c, <1>a, <1>b, <1>8 DEF CallsTyped, Check, Goto, argVars
<1>9. ASSUME NEW c \in Callers, Fetch(c) PROVE CallsTyped'
  <2>1. PICK issuer \in Issuers :
            \/ result' = [result EXCEPT ![c] = [tenant |-> tenant[c], issuer |-> issuer]]
            \/ result' = [result EXCEPT ![c] = Failed]
    BY <1>9 DEF Fetch
  <2>2. [tenant |-> tenant[c], issuer |-> issuer] \in Endpoints
    BY <1>0 DEF CallsTyped, Endpoints
  <2>3. result' \in [Callers -> Endpoints \cup {NoEndpoints, Failed}]
    BY <1>0, <1>c, <2>1, <2>2 DEF CallsTyped
  <2>4. Goto(c, "leave") /\ UNCHANGED <<argVars, ended, answer>>
    BY <1>9 DEF Fetch
  <2>5. QED
    BY <1>0, <1>c, <2>3, <2>4 DEF CallsTyped, Goto, argVars
<1>10. ASSUME NEW c \in Callers, Leave(c) PROVE CallsTyped'
  <2>1. result[c] \in Endpoints \cup {NoEndpoints, Failed}
    BY <1>0 DEF CallsTyped
  <2>2. QED
    BY <1>0, <1>c, <1>10, <2>1, ReturnAllTyped DEF Leave
<1>11. CASE UNCHANGED vars
  BY <1>0, <1>c, <1>11 DEF vars, argVars, CallsTyped
<1>12. QED
  BY <1>1, <1>2, <1>3, <1>4, <1>5, <1>6, <1>7, <1>8, <1>9, <1>10, <1>11
     DEF Next, Locked, Request, Step

(* A step that leaves the lock alone, and those who hold it where they hold*)
(* it.                                                                     *)
LEMMA LockFrame ==
    ASSUME LockInv, UNCHANGED <<lock, manager>>,
           \A d \in Callers :
                /\ pc'[d] = "enter" => manager = "Manager"
                /\ manager = "Manager" =>
                     (pc[d] \in {"ask", "merge"} <=> pc'[d] \in {"ask", "merge"})
    PROVE  LockInv'
BY DEF LockInv

LEMMA LockStep == Typed /\ [Next]_vars => LockInv'
<1> SUFFICES ASSUME Typed, [Next]_vars PROVE LockInv'
  OBVIOUS
<1>0. CallsTyped /\ LockInv /\ DataTyped /\ UNCHANGED manager
  BY ClientStays DEF Typed, constVars
<1>1. ASSUME NEW c \in Callers, NEW silent \in BOOLEAN, NEW id \in IdsOf[client],
             NEW d \in Domains, Start(c, silent, id, d)
      PROVE  LockInv'
  <2>1. FirstStep(silent) \in {"lookup", "resolve"} /\ pc[c] = "idle"
    BY <1>1 DEF FirstStep, Start
  <2>2. \A e \in Callers :
            pc'[e] = pc[e] \/ (pc[e] = "idle" /\ pc'[e] \in {"lookup", "resolve"})
    BY <1>0, <1>1, <2>1 DEF CallsTyped, Start, Goto
  <2>3. QED
    BY <1>0, <1>1, <2>2, LockFrame DEF Start, metadataVars, LockInv
<1>2. ASSUME NEW c \in Callers, Cancel(c) PROVE LockInv'
  BY <1>0, <1>2 DEF Cancel, LockInv, metadataVars
<1>3. ASSUME NEW c \in Callers, Hit(c) \/ CacheHit(c) PROVE LockInv'
  <2>1. Goto(c, "resolve") \/ \E r \in Endpoints \cup {NoEndpoints, Failed} : Return(c, r)
    BY <1>0, <1>3 DEF Hit, CacheHit, Looked, CallsTyped, DataTyped, Cached
  <2>2. \A e \in Callers :
            pc'[e] = pc[e] \/ (e = c /\ pc'[e] \in {"idle", "resolve"})
    BY <1>0, <2>1 DEF CallsTyped, Return, ReturnAll, Goto
  <2>3. pc[c] \in {"lookup", "resolve"} /\ UNCHANGED metadataVars
    BY <1>3 DEF Hit, CacheHit
  <2>4. QED
    BY <1>0, <2>2, <2>3, LockFrame DEF metadataVars, LockInv
<1>4. ASSUME NEW c \in Callers, Miss(c) PROVE LockInv'
  BY <1>0, <1>4, LockFrame DEF CallsTyped, DataTyped, Managers, Miss, Goto, metadataVars, LockInv
<1>5. ASSUME NEW c \in Callers, EnterLock(c) PROVE LockInv'
  BY <1>0, <1>5, NoCallerAssumption DEF CallsTyped, EnterLock, Goto, LockInv
<1>6. ASSUME NEW c \in Callers, Ask(c) PROVE LockInv'
  BY <1>0, <1>6, LockFrame DEF CallsTyped, Ask, Goto, metadataVars, LockInv
<1>7. ASSUME NEW c \in Callers, GiveUp(c) \/ Merge(c) PROVE LockInv'
  <2>1. Goto(c, "resolve") \/ Return(c, NoEndpoints) \/ Return(c, Failed)
    BY <1>7 DEF GiveUp, Merge, Looked
  <2>2. /\ \A e \in Callers \ {c} : pc'[e] = pc[e]
        /\ pc'[c] \in {"idle", "resolve"}
    BY <1>0, <2>1 DEF CallsTyped, Return, ReturnAll, Goto
  <2>3. pc[c] = "merge" /\ lock' = IF lock = c THEN NoCaller ELSE lock
    BY <1>7 DEF GiveUp, Merge, Unlock
  <2>4. QED
    BY <1>0, <2>2, <2>3, NoCallerAssumption DEF LockInv
<1>8. ASSUME NEW c \in Callers, CacheMiss(c) \/ Lead(c) \/ Follow(c) \/ Check(c) \/ Instance(c) \/ Fetch(c)
      PROVE  LockInv'
  <2>1. PICK p \in {"join", "wait"} \cup Leading : Goto(c, p)
    BY <1>8 DEF CacheMiss, Lead, Follow, Check, Instance, Fetch, Leading
  <2>2. pc[c] \in {"resolve", "join"} \cup Leading /\ UNCHANGED metadataVars
    BY <1>8 DEF CacheMiss, Lead, Follow, Check, Instance, Fetch, Leading
  <2>3. QED
    BY <1>0, <2>1, <2>2, LockFrame DEF CallsTyped, Goto, metadataVars, Leading, LockInv
<1>9. ASSUME NEW c \in Callers, Leave(c) PROVE LockInv'
  <2>1. \A e \in Callers :
            pc'[e] = pc[e] \/ (pc[e] \in {"leave", "wait"} /\ pc'[e] = "idle")
    BY <1>0, <1>9 DEF Leave, ReturnAll, Followers
  <2>2. QED
    BY <1>0, <1>9, <2>1, LockFrame DEF Leave, metadataVars, LockInv
<1>10. CASE UNCHANGED vars
  BY <1>0, <1>10 DEF vars, metadataVars, LockInv
<1>11. QED
  BY <1>1, <1>2, <1>3, <1>4, <1>5, <1>6, <1>7, <1>8, <1>9, <1>10 DEF Next, Locked, Request, Step

LEMMA DataStep == Typed /\ [Next]_vars => DataTyped'
<1> SUFFICES ASSUME Typed, [Next]_vars PROVE DataTyped'
  OBVIOUS
<1>0. CallsTyped /\ DataTyped /\ UNCHANGED constVars
  BY ClientStays DEF Typed
<1>1. ASSUME NEW c \in Callers, Fetch(c) PROVE DataTyped'
  <2>1. PICK issuer \in Issuers :
            \/ AddCached(c, [tenant |-> tenant[c], issuer |-> issuer])
            \/ UNCHANGED <<endpoints, domains>>
    BY <1>1 DEF Fetch
  <2>2. [tenant |-> tenant[c], issuer |-> issuer] \in Endpoints /\ tenant[c] \in Tenants
    BY <1>0 DEF CallsTyped, Endpoints
  <2>3. endpoints' \in [Tenants -> Endpoints \cup {NoEndpoints}]
    BY <1>0, <2>1, <2>2 DEF DataTyped, AddCached
  <2>4. domains' \subseteq Domains \ {NoDomain}
    BY <1>0, <2>1 DEF CallsTyped, DataTyped, AddCached
  <2>5. UNCHANGED flight
    BY <1>1 DEF Fetch
  <2>6. QED
    BY <1>0, <2>3, <2>4, <2>5 DEF DataTyped, constVars
<1>2. ASSUME NEW c \in Callers, Lead(c) \/ Leave(c) PROVE DataTyped'
  <2>1. PICK d \in Callers \cup {NoCaller} : flight' = [flight EXCEPT ![Key(tenant[c])] = d]
    BY <1>2 DEF Lead, Leave
  <2>2. UNCHANGED <<endpoints, domains>>
    BY <1>2 DEF Lead, Leave
  <2>3. QED
    BY <1>0, <2>1, <2>2 DEF DataTyped, constVars
<1>3. CASE UNCHANGED resolverVars
  BY <1>0, <1>3 DEF DataTyped, resolverVars, constVars
<1>4. ASSUME NEW c \in Callers,
             \/ \E silent \in BOOLEAN, id \in IdsOf[client], d \in Domains : Start(c, silent, id, d)
             \/ Cancel(c) \/ Locked(c) \/ Ask(c) \/ Instance(c) \/ GiveUp(c) \/ Merge(c)
             \/ CacheHit(c) \/ CacheMiss(c) \/ Follow(c) \/ Check(c)
      PROVE  UNCHANGED resolverVars
  BY <1>4 DEF Start, Cancel, Locked, Hit, Miss, EnterLock, Ask, Instance, GiveUp, Merge, CacheHit,
     CacheMiss, Follow, Check
<1>5. CASE UNCHANGED vars
  BY <1>3, <1>5 DEF vars
<1>6. QED
  BY <1>1, <1>2, <1>3, <1>4, <1>5 DEF Next, Request, Step

LEMMA TypedStep == Typed /\ [Next]_vars => Typed'
BY CallsStep, LockStep, DataStep DEF Typed

LEMMA TypedAlways == Spec => []Typed
BY InitTyped, TypedStep, PTL DEF Spec

(* Type correctness; aadCacheMu of a Manager is held by the one call that  *)
(* waits for a metadata answer, and the tenant's document is fetched only  *)
(* after discovery did not fail.                                           *)
THEOREM TypeCorrect == Spec => []TypeOK
<1>1. Typed => TypeOK
  BY DEF Typed, CallsTyped, LockInv, DataTyped, TypeOK, Answers, Errs
<1>2. QED
  BY <1>1, TypedAlways, PTL

-----------------------------------------------------------------------------
(* The shared runs.                                                        *)

(* A step in which nobody takes or leaves the lead or begins to wait.      *)
LEMMA FlightFrame ==
    ASSUME FlightLed, UNCHANGED flight,
           \A d \in Callers :
                /\ pc'[d] \in Leading <=> pc[d] \in Leading
                /\ pc'[d] = "wait" => pc[d] = "wait"
                /\ tenant'[d] = tenant[d] \/ pc'[d] \notin Leading \cup {"wait"}
    PROVE  FlightLed'
BY DEF FlightLed, Key

LEMMA FlightStep == Typed /\ FlightLed /\ [Next]_vars => FlightLed'
<1> SUFFICES ASSUME Typed, FlightLed, [Next]_vars PROVE FlightLed'
  OBVIOUS
<1> USE DEF Leading
<1>0. CallsTyped /\ DataTyped
  BY DEF Typed
<1>1. ASSUME NEW c \in Callers, NEW silent \in BOOLEAN, NEW id \in IdsOf[client],
             NEW d \in Domains, Start(c, silent, id, d)
      PROVE  FlightLed'
  <2>1. FirstStep(silent) \in {"lookup", "resolve"} /\ pc[c] = "idle"
    BY <1>1 DEF FirstStep, Start
  <2>2. \A e \in Callers \ {c} : pc'[e] = pc[e] /\ tenant'[e] = tenant[e]
    BY <1>0, <1>1 DEF CallsTyped, Start, Goto
  <2>3. pc'[c] \in {"lookup", "resolve"}
    BY <1>0, <1>1, <2>1 DEF CallsTyped, Start, Goto
  <2>4. UNCHANGED flight
    BY <1>1 DEF Start, resolverVars
  <2>5. QED
    BY <2>1, <2>2, <2>3, <2>4, FlightFrame
<1>2. ASSUME NEW c \in Callers, Cancel(c) PROVE FlightLed'
  BY <1>2, FlightFrame DEF Cancel, resolverVars, argVars
<1>3. ASSUME NEW c \in Callers, Hit(c) \/ Merge(c) \/ GiveUp(c) \/ CacheHit(c) PROVE FlightLed'
  <2>1. Goto(c, "resolve") \/ \E r \in Endpoints \cup {NoEndpoints, Failed} : Return(c, r)
    BY <1>0, <1>3 DEF Hit, Merge, GiveUp, CacheHit, Looked, CallsTyped, DataTyped, Cached
  <2>2. /\ \A e \in Callers \ {c} : pc'[e] = pc[e]
        /\ pc'[c] \in {"idle", "resolve"}
    BY <1>0, <2>1 DEF CallsTyped, Return, ReturnAll, Goto
  <2>3. pc[c] \in {"lookup", "merge", "resolve"} /\ UNCHANGED <<flight, tenant>>
    BY <1>3 DEF Hit, Merge, GiveUp, CacheHit, Looked, Return, ReturnAll, argVars, resolverVars
  <2>4. QED
    BY <2>2, <2>3, FlightFrame
<1>4. ASSUME NEW c \in Callers, Miss(c) \/ EnterLock(c) \/ Ask(c) \/ CacheMiss(c)
      PROVE  FlightLed'
  <2>1. PICK p \in {"enter", "ask", "merge", "join"} : Goto(c, p)
    BY <1>4 DEF Miss, EnterLock, Ask, CacheMiss
  <2>2. /\ \A e \in Callers \ {c} : pc'[e] = pc[e]
        /\ pc'[c] = p
    BY <1>0, <2>1 DEF CallsTyped, Goto
  <2>3. pc[c] \in {"lookup", "enter", "ask", "resolve"} /\ UNCHANGED <<flight, tenant>>
    BY <1>4 DEF Miss, EnterLock, Ask, CacheMiss, argVars, resolverVars
  <2>4. QED
    BY <2>2, <2>3, FlightFrame
<1>5. ASSUME NEW c \in Callers, Check(c) \/ Instance(c) \/ Fetch(c) PROVE FlightLed'
  <2>1. PICK p \in {"instance", "fetch", "leave"} : Goto(c, p)
    BY <1>5 DEF Check, Instance, Fetch
  <2>2. /\ \A e \in Callers \ {c} : pc'[e] = pc[e]
        /\ pc'[c] = p
    BY <1>0, <2>1 DEF CallsTyped, Goto
  <2>3. pc[c] \in {"check", "instance", "fetch"} /\ UNCHANGED <<flight, tenant>>
    BY <1>5 DEF Check, Instance, Fetch, argVars, resolverVars
  <2>4. QED
    BY <2>2, <2>3, FlightFrame
<1>6. ASSUME NEW c \in Callers, Lead(c) PROVE FlightLed'
  <2>1. /\ pc[c] = "join" /\ tenant[c] \in Tenants /\ flight[tenant[c]] = NoCaller
        /\ flight' = [flight EXCEPT ![tenant[c]] = c] /\ UNCHANGED tenant
        /\ pc' = [pc EXCEPT ![c] = "check"]
    BY <1>0, <1>6 DEF CallsTyped, Lead, Goto, Key, argVars
  <2>2. ASSUME NEW d \in Callers, NEW t \in Tenants
        PROVE  flight'[t] = d <=> pc'[d] \in Leading /\ tenant'[d] = t
    <3>1. flight'[t] = IF t = tenant[c] THEN c ELSE flight[t]
      BY <1>0, <2>1 DEF DataTyped
    <3>2. pc'[d] = IF d = c THEN "check" ELSE pc[d]
      BY <1>0, <2>1 DEF CallsTyped
    <3>3. QED
      BY <2>1, <3>1, <3>2, NoCallerAssumption DEF FlightLed, Key
  <2>3. ASSUME NEW d \in Callers, pc'[d] = "wait" PROVE flight'[tenant'[d]] \in Callers
    BY <1>0, <2>1, <2>3 DEF CallsTyped, DataTyped, FlightLed, Key
  <2>4. QED
    BY <2>2, <2>3 DEF FlightLed, Key
<1>7. ASSUME NEW c \in Callers, Follow(c) PROVE FlightLed'
  <2>1. /\ pc[c] = "join" /\ flight[tenant[c]] \in Callers /\ UNCHANGED <<flight, tenant>>
        /\ pc' = [pc EXCEPT ![c] = "wait"]
    BY <1>0, <1>7 DEF CallsTyped, DataTyped, Follow, Goto, Key, argVars, resolverVars
  <2>2. QED
    BY <1>0, <2>1 DEF CallsTyped, FlightLed, Key
<1>8. ASSUME NEW c \in Callers, Leave(c) PROVE FlightLed'
  <2>1. /\ pc[c] = "leave" /\ tenant[c] \in Tenants /\ flight[tenant[c]] = c
        /\ flight' = [flight EXCEPT ![tenant[c]] = NoCaller] /\ UNCHANGED tenant
    BY <1>0, <1>8 DEF CallsTyped, Leave, ReturnAll, FlightLed, Key, argVars
  <2>2. \A d \in Callers :
            pc'[d] = IF d = c \/ (pc[d] = "wait" /\ tenant[d] = tenant[c]) THEN "idle" ELSE pc[d]
    BY <1>8 DEF Leave, ReturnAll, Followers, Key
  <2>3. ASSUME NEW d \in Callers, NEW t \in Tenants
        PROVE  flight'[t] = d <=> pc'[d] \in Leading /\ tenant'[d] = t
    <3>1. flight'[t] = IF t = tenant[c] THEN NoCaller ELSE flight[t]
      BY <1>0, <2>1 DEF DataTyped
    <3>2. flight[t] = d <=> pc[d] \in Leading /\ tenant[d] = t
      BY DEF FlightLed, Key
    <3>3. flight[tenant[c]] = d <=> pc[d] \in Leading /\ tenant[d] = tenant[c]
      BY <2>1 DEF FlightLed, Key
    <3>4. QED
      BY <2>1, <2>2, <3>1, <3>2, <3>3, NoCallerAssumption
  <2>4. ASSUME NEW d \in Callers, pc'[d] = "wait" PROVE flight'[tenant'[d]] \in Callers
    BY <1>0, <2>1, <2>2, <2>4 DEF CallsTyped, DataTyped, FlightLed, Key
  <2>5. QED
    BY <2>3, <2>4 DEF FlightLed, Key
<1>9. CASE UNCHANGED vars
  BY <1>9, FlightFrame DEF vars, resolverVars, argVars
<1>10. QED
  BY <1>1, <1>2, <1>3, <1>4, <1>5, <1>6, <1>7, <1>8, <1>9 DEF Next, Locked, Request, Step

LEMMA InitFlight == Init => FlightLed /\ NotYetFound
BY NoCallerAssumption DEF Init, FlightLed, NotYetFound, Leading, Key

(* A tenant's entry in the singleflight group belongs to exactly the       *)
(* goroutine that runs its requests, and who waits waits for one that runs:*)
(* whatever error or end of a context ends the run.                        *)
THEOREM FlightsAreLed == Spec => []FlightLed
<1>1. Init => Typed /\ FlightLed
  BY InitTyped, InitFlight
<1>2. Typed /\ FlightLed /\ [Next]_vars => Typed' /\ FlightLed'
  BY TypedStep, FlightStep
<1>3. QED
  BY <1>1, <1>2, PTL DEF Spec

(* Only a run's leader stores endpoints, those of its tenant, and only     *)
(* where there are none.                                                   *)
LEMMA StoresOwn ==
    ASSUME Typed, NotYetFound, [Next]_vars
    PROVE  \/ UNCHANGED endpoints
           \/ \E c \in Callers :
                /\ pc[c] = "fetch" /\ endpoints[tenant[c]] = NoEndpoints /\ pc'[c] = "leave"
                /\ \A t \in Tenants : t # tenant[c] => endpoints'[t] = endpoints[t]
                /\ \A d \in Callers \ {c} : pc'[d] = pc[d]
                /\ UNCHANGED tenant
<1>0. CallsTyped /\ DataTyped
  BY DEF Typed
<1>1. ASSUME NEW c \in Callers, Fetch(c)
      PROVE  /\ pc[c] = "fetch" /\ endpoints[tenant[c]] = NoEndpoints /\ pc'[c] = "leave"
             /\ \A t \in Tenants : t # tenant[c] => endpoints'[t] = endpoints[t]
             /\ \A d \in Callers \ {c} : pc'[d] = pc[d]
             /\ UNCHANGED tenant
  <2>1. pc[c] = "fetch" /\ pc' = [pc EXCEPT ![c] = "leave"] /\ UNCHANGED tenant
    BY <1>1 DEF Fetch, Goto, argVars
  <2>2. PICK e : endpoints' = [endpoints EXCEPT ![tenant[c]] = e] \/ UNCHANGED endpoints
    BY <1>1 DEF Fetch, AddCached
  <2>3. \A t \in Tenants : t # tenant[c] => endpoints'[t] = endpoints[t]
    BY <1>0, <2>2 DEF DataTyped
  <2>4. QED
    BY <1>0, <2>1, <2>3 DEF CallsTyped, NotYetFound
<1>2. ASSUME NEW c \in Callers,
             \/ \E silent \in BOOLEAN, id \in IdsOf[client], d \in Domains : Start(c, silent, id, d)
             \/ Cancel(c) \/ Locked(c) \/ Ask(c) \/ Instance(c) \/ Step(c)
      PROVE  UNCHANGED endpoints
  BY <1>2 DEF Start, Cancel, Locked, Hit, Miss, EnterLock, Ask, Instance, Step, GiveUp, Merge,
     CacheHit, CacheMiss, Lead, Follow, Check, Leave, resolverVars
<1>3. QED
  BY <1>1, <1>2 DEF Next, Request, vars, resolverVars

(* Who is past the second look came there by it, or by it and discovery.   *)
LEMMA PastCheck ==
    ASSUME Typed, NotYetFound, [Next]_vars,
           NEW d \in Callers, pc'[d] \in {"instance", "fetch"}
    PROVE  /\ tenant'[d] = tenant[d] /\ endpoints[tenant[d]] = NoEndpoints
           /\ pc[d] \in Leading
<1> USE DEF Leading
<1>0. CallsTyped /\ DataTyped
  BY DEF Typed
<1>1. ASSUME NEW c \in Callers, NEW silent \in BOOLEAN, NEW id \in IdsOf[client],
             NEW dom \in Domains, Start(c, silent, id, dom)
      PROVE  pc'[d] = pc[d] /\ tenant'[d] = tenant[d]
  <2>1. FirstStep(silent) \in {"lookup", "resolve"}
    BY DEF FirstStep
  <2>2. d # c
    BY <1>0, <1>1, <2>1 DEF CallsTyped, Start, Goto
  <2>3. QED
    BY <1>0, <1>1, <2>2 DEF CallsTyped, Start, Goto
<1>2. ASSUME NEW c \in Callers, Hit(c) \/ Merge(c) \/ GiveUp(c) \/ CacheHit(c) \/ Leave(c)
      PROVE  pc'[d] = pc[d] /\ tenant'[d] = tenant[d]
  <2>1. Goto(c, "resolve") \/ \E out, r : ReturnAll(out, r)
    BY <1>2 DEF Hit, Merge, GiveUp, CacheHit, Leave, Looked, Return
  <2>2. UNCHANGED tenant
    BY <1>2 DEF Hit, Merge, GiveUp, CacheHit, Leave, Looked, Return, ReturnAll, argVars
  <2>3. QED
    BY <1>0, <2>1, <2>2 DEF CallsTyped, Goto, ReturnAll
<1>3. ASSUME NEW c \in Callers,
             Miss(c) \/ EnterLock(c) \/ Ask(c) \/ CacheMiss(c) \/ Lead(c) \/ Follow(c) \/ Fetch(c)
      PROVE  pc'[d] = pc[d] /\ tenant'[d] = tenant[d]
  <2>1. PICK p \in {"enter", "ask", "merge", "join", "check", "wait", "leave"} : Goto(c, p)
    BY <1>3 DEF Miss, EnterLock, Ask, CacheMiss, Lead, Follow, Fetch
  <2>2. UNCHANGED tenant
    BY <1>3 DEF Miss, EnterLock, Ask, CacheMiss, Lead, Follow, Fetch, argVars
  <2>3. QED
    BY <1>0, <2>1, <2>2 DEF CallsTyped, Goto
<1>4. ASSUME NEW c \in Callers, Check(c) \/ Instance(c)
      PROVE  /\ tenant'[d] = tenant[d]
             /\ \/ pc'[d] = pc[d]
                \/ pc[d] \in Leading /\ endpoints[tenant[d]] = NoEndpoints
  <2>1. UNCHANGED tenant /\ \A e \in Callers \ {c} : pc'[e] = pc[e]
    BY <1>0, <1>4 DEF CallsTyped, Check, Instance, Goto, argVars
  <2>2. CASE d = c /\ Check(c)
    <3>1. Cached(c) = NoEndpoints
      BY <1>0, <2>2 DEF CallsTyped, Check, Goto
    <3>2. QED
      BY <2>1, <2>2, <3>1 DEF Check, Cached
  <2>3. CASE d = c /\ Instance(c)
    BY <1>0, <2>1, <2>3 DEF Instance, NotYetFound
  <2>4. QED
    BY <1>4, <2>1, <2>2, <2>3
<1>5. ASSUME pc'[d] = pc[d], tenant'[d] = tenant[d]
      PROVE  pc[d] \in Leading /\ endpoints[tenant[d]] = NoEndpoints
  BY <1>5 DEF NotYetFound
<1>6. CASE UNCHANGED vars
  BY <1>5, <1>6 DEF vars, argVars
<1>7. ASSUME NEW c \in Callers, Cancel(c) PROVE pc'[d] = pc[d] /\ tenant'[d] = tenant[d]
  BY <1>7 DEF Cancel, argVars
<1>8. QED
  BY <1>1, <1>2, <1>3, <1>4, <1>5, <1>6, <1>7 DEF Next, Locked, Request, Step

LEMMA NotYetFoundStep ==
    Typed /\ FlightLed /\ NotYetFound /\ [Next]_vars => NotYetFound'
<1> SUFFICES ASSUME Typed, FlightLed, NotYetFound, [Next]_vars,
                    NEW d \in Callers, pc'[d] \in {"instance", "fetch"}
             PROVE  endpoints'[tenant'[d]] = NoEndpoints
  BY DEF NotYetFound
<1>1. tenant'[d] = tenant[d] /\ endpoints[tenant[d]] = NoEndpoints /\ pc[d] \in Leading
  BY PastCheck
<1>2. tenant[d] \in Tenants
  BY DEF Typed, CallsTyped
<1>3. CASE UNCHANGED endpoints
  BY <1>1, <1>3
<1>4. ASSUME NEW c \in Callers, pc[c] = "fetch", pc'[c] = "leave",
             \A t \in Tenants : t # tenant[c] => endpoints'[t] = endpoints[t]
      PROVE  endpoints'[tenant[d]] = NoEndpoints
  <2>1. tenant[d] # tenant[c]
    <3>1. flight[tenant[d]] = d
      BY <1>1, <1>2 DEF FlightLed, Key
    <3>2. tenant[c] = tenant[d] => flight[tenant[d]] = c
      BY <1>2, <1>4 DEF FlightLed, Key, Leading
    <3>3. QED
      BY <1>4, <3>1, <3>2
  <2>2. QED
    BY <1>1, <1>2, <1>4, <2>1
<1>5. QED
  BY <1>1, <1>3, <1>4, StoresOwn

(* Endpoints once found stay: the runs of a tenant take turns, and each    *)
(* looks again before it asks (resolvers.go:56-60), so that no goroutine   *)
(* that missed the cache earlier replaces what another found.              *)
THEOREM FoundEndpointsStay == Spec => EndpointsStay
<1>1. Init => Typed /\ FlightLed /\ NotYetFound
  BY InitTyped, InitFlight
<1>2. Typed /\ FlightLed /\ NotYetFound /\ [Next]_vars => Typed' /\ FlightLed' /\ NotYetFound'
  BY TypedStep, FlightStep, NotYetFoundStep
<1>3. Typed /\ NotYetFound /\ [Next]_vars =>
        [\A t \in Tenants : endpoints[t] # NoEndpoints => endpoints'[t] = endpoints[t]]_vars
  BY StoresOwn
<1>4. QED
  BY <1>1, <1>2, <1>3, PTL DEF Spec, EndpointsStay

-----------------------------------------------------------------------------
(* The aliases that are kept.                                              *)

(* Every host of a map is among its own aliases, or has none.              *)
OwnHosts(m) == \A h \in DOMAIN m : m[h] = {} \/ h \in m[h]

LEMMA WrittenOverMap ==
    ASSUME NEW old, NEW entries
    PROVE  /\ DOMAIN WrittenOver(old, entries) = DOMAIN old \cup DOMAIN entries
           /\ OwnHosts(old) /\ OwnHosts(entries) => OwnHosts(WrittenOver(old, entries))
BY DEF WrittenOver, OwnHosts

LEMMA OwnListed ==
    ASSUME NEW list, NEW h \in UNION list
    PROVE  h \in AliasesFromMetadata(list, h) /\ AliasesFromMetadata(list, h) \in list
BY DEF AliasesFromMetadata

LEMMA MergedMap ==
    ASSUME OwnHosts(metadata), NEW list
    PROVE  /\ DOMAIN metadata \subseteq DOMAIN Merged(list)
           /\ OwnHosts(Merged(list))
<1> DEFINE Self == [h \in {client.host} |-> {}]
           Listed == [h \in UNION list |-> AliasesFromMetadata(list, h)]
<1>1. OwnHosts(Self)
  BY DEF OwnHosts
<1>2. OwnHosts(Listed)
  BY OwnListed DEF OwnHosts
<1>3. Merged(list) = WrittenOver(WrittenOver(Self, metadata), Listed)
  BY DEF Merged
<1> HIDE DEF Self, Listed
<1>4. /\ DOMAIN metadata \subseteq DOMAIN WrittenOver(Self, metadata)
      /\ OwnHosts(WrittenOver(Self, metadata))
  BY <1>1, WrittenOverMap
<1> DEFINE Inner == WrittenOver(Self, metadata)
<1> HIDE DEF Inner
<1>5. /\ DOMAIN Inner \subseteq DOMAIN WrittenOver(Inner, Listed)
      /\ OwnHosts(Inner) => OwnHosts(WrittenOver(Inner, Listed))
  BY <1>2, WrittenOverMap
<1>6. QED
  BY <1>3, <1>4, <1>5 DEF Inner

LEMMA FallbackMap ==
    ASSUME OwnHosts(metadata)
    PROVE  DOMAIN metadata \subseteq DOMAIN Fallback /\ OwnHosts(Fallback)
<1>1. CASE Known(client.host)
  <2> DEFINE Cloud == [h \in KnownCloud(client.host) |-> KnownCloud(client.host)]
  <2>1. OwnHosts(Cloud)
    BY DEF OwnHosts
  <2>2. Fallback = WrittenOver(metadata, Cloud)
    BY <1>1 DEF Fallback
  <2> HIDE DEF Cloud
  <2>3. QED
    BY <2>1, <2>2, WrittenOverMap
<1>2. CASE ~Known(client.host)
  <2> DEFINE Self == [h \in {client.host} |-> {client.host}]
  <2>1. OwnHosts(Self)
    BY DEF OwnHosts
  <2>2. Fallback = WrittenOver(metadata, Self)
    BY <1>2 DEF Fallback
  <2> HIDE DEF Self
  <2>3. QED
    BY <2>1, <2>2, WrittenOverMap
<1>3. QED
  BY <1>1, <1>2

LEMMA MetadataStep ==
    ASSUME OwnAliases, [Next]_vars
    PROVE  OwnAliases' /\ DOMAIN metadata \subseteq DOMAIN metadata'
<1>0. OwnHosts(metadata)
  BY DEF OwnAliases, OwnHosts
<1>1. ASSUME NEW c \in Callers, Merge(c) PROVE metadata' = Fallback \/ \E list : metadata' = Merged(list)
  BY <1>1 DEF Merge
<1>2. ASSUME NEW c \in Callers,
             \/ \E silent \in BOOLEAN, id \in IdsOf[client], d \in Domains : Start(c, silent, id, d)
             \/ Cancel(c) \/ Locked(c) \/ Request(c) \/ GiveUp(c) \/ CacheHit(c) \/ CacheMiss(c)
             \/ Lead(c) \/ Follow(c) \/ Check(c) \/ Leave(c)
      PROVE  UNCHANGED metadata
  BY <1>2 DEF Start, Cancel, Locked, Hit, Miss, EnterLock, Request, Ask, Instance, Fetch, GiveUp,
     CacheHit, CacheMiss, Lead, Follow, Check, Leave, metadataVars
<1>3. UNCHANGED metadata \/ metadata' = Fallback \/ \E list : metadata' = Merged(list)
  BY <1>1, <1>2 DEF Next, Step, vars, metadataVars
<1>4. CASE UNCHANGED metadata
  BY <1>4 DEF OwnAliases
<1>5. CASE metadata' = Fallback
  BY <1>0, <1>5, FallbackMap DEF OwnAliases, OwnHosts
<1>6. CASE \E list : metadata' = Merged(list)
  BY <1>0, <1>6, MergedMap DEF OwnAliases, OwnHosts
<1>7. QED
  BY <1>3, <1>4, <1>5, <1>6

LEMMA InitMetadata == Init => OwnAliases /\ LateKnown /\ NoLateRequest
<1> SUFFICES ASSUME Init PROVE OwnAliases /\ LateKnown /\ NoLateRequest
  OBVIOUS
<1>1. DOMAIN metadata = {}
  BY DEF Init
<1>2. QED
  BY <1>1 DEF Init, OwnAliases, LateKnown, NoLateRequest, Asking

(* Every host that has an entry is one of the aliases it is kept with, or  *)
(* is kept without any: no list, known cloud or self entry that is written *)
(* over others gives a host another's aliases.                             *)
THEOREM AliasesAreOwn == Spec => []OwnAliases
<1>1. OwnAliases /\ [Next]_vars => OwnAliases'
  BY MetadataStep
<1>2. QED
  BY <1>1, InitMetadata, PTL DEF Spec

LEMMA LateStep ==
    ASSUME Typed, OwnAliases, LateKnown, NoLateRequest, [Next]_vars
    PROVE  LateKnown' /\ NoLateRequest'
<1> USE DEF Asking
<1>0. CallsTyped /\ UNCHANGED client /\ DOMAIN metadata \subseteq DOMAIN metadata'
  BY ClientStays, MetadataStep DEF Typed, constVars
<1>1. ASSUME NEW c \in Callers, NEW silent \in BOOLEAN, NEW id \in IdsOf[client],
             NEW d \in Domains, Start(c, silent, id, d)
      PROVE  LateKnown' /\ NoLateRequest'
  <2>1. FirstStep(silent) \in {"lookup", "resolve"} /\ UNCHANGED metadata
    BY <1>1 DEF FirstStep, Start, metadataVars
  <2>2. late' = [late EXCEPT ![c] = client.host \in DOMAIN metadata]
    BY <1>1 DEF Start
  <2>3. LateKnown'
    BY <1>0, <2>1, <2>2 DEF CallsTyped, LateKnown
  <2>4. pc'[c] \in {"lookup", "resolve"} /\ \A e \in Callers \ {c} : pc'[e] = pc[e]
    BY <1>0, <1>1, <2>1 DEF CallsTyped, Start, Goto
  <2>5. \A e \in Callers \ {c} : late'[e] = late[e]
    BY <1>0, <2>2 DEF CallsTyped
  <2>6. NoLateRequest'
    BY <2>4, <2>5 DEF NoLateRequest
  <2>7. QED
    BY <2>3, <2>6
<1>2. ASSUME UNCHANGED late PROVE LateKnown'
  BY <1>0, <1>2 DEF LateKnown
<1>3. ASSUME NEW c \in Callers, Miss(c) PROVE UNCHANGED late /\ NoLateRequest'
  <2>1. UNCHANGED late /\ client.host \notin DOMAIN metadata
        /\ \A e \in Callers \ {c} : pc'[e] = pc[e]
    BY <1>0, <1>3 DEF Miss, Goto, CallsTyped, argVars
  <2>2. ~late[c]
    BY <2>1 DEF LateKnown
  <2>3. QED
    BY <2>1, <2>2 DEF NoLateRequest
<1>4. ASSUME NEW c \in Callers, EnterLock(c) \/ Ask(c) PROVE UNCHANGED late /\ NoLateRequest'
  <2>1. UNCHANGED late /\ pc[c] \in Asking /\ \A e \in Callers \ {c} : pc'[e] = pc[e]
    BY <1>0, <1>4 DEF EnterLock, Ask, Goto, CallsTyped, argVars
  <2>2. QED
    BY <2>1 DEF NoLateRequest
<1>5. ASSUME NEW c \in Callers, Hit(c) \/ Merge(c) \/ GiveUp(c) \/ CacheHit(c) \/ Leave(c)
      PROVE  UNCHANGED late /\ NoLateRequest'
  <2>1. Goto(c, "resolve") \/ \E out, r : ReturnAll(out, r)
    BY <1>5 DEF Hit, Merge, GiveUp, CacheHit, Leave, Looked, Return
  <2>2. UNCHANGED late
    BY <1>5 DEF Hit, Merge, GiveUp, CacheHit, Leave, Looked, Return, ReturnAll, argVars
  <2>3. \A e \in Callers : pc'[e] \in Asking => pc[e] \in Asking
    BY <1>0, <2>1 DEF CallsTyped, Goto, ReturnAll
  <2>4. QED
    BY <2>2, <2>3 DEF NoLateRequest
<1>6. ASSUME NEW c \in Callers,
             CacheMiss(c) \/ Lead(c) \/ Follow(c) \/ Check(c) \/ Instance(c) \/ Fetch(c)
      PROVE  UNCHANGED late /\ NoLateRequest'
  <2>1. PICK p \in {"join", "check", "wait", "instance", "fetch", "leave"} : Goto(c, p)
    BY <1>6 DEF CacheMiss, Lead, Follow, Check, Instance, Fetch
  <2>2. UNCHANGED late
    BY <1>6 DEF CacheMiss, Lead, Follow, Check, Instance, Fetch, argVars
  <2>3. \A e \in Callers : pc'[e] \in Asking => pc[e] \in Asking
    BY <1>0, <2>1 DEF CallsTyped, Goto
  <2>4. QED
    BY <2>2, <2>3 DEF NoLateRequest
<1>7. ASSUME NEW c \in Callers, Cancel(c) PROVE UNCHANGED late /\ NoLateRequest'
  BY <1>7 DEF Cancel, argVars, NoLateRequest
<1>8. CASE UNCHANGED vars
  BY <1>2, <1>8 DEF vars, argVars, NoLateRequest
<1>9. QED
  BY <1>1, <1>2, <1>3, <1>4, <1>5, <1>6, <1>7, <1>8 DEF Next, Locked, Request, Step

(* No call that began when the host's aliases were known asks for them: an *)
(* entry is never lost, so that only calls that all missed at the same     *)
(* time ask more than once.                                                *)
THEOREM RequestsInTime == Spec => []NoLateRequest
<1>1. Init => Typed /\ OwnAliases /\ LateKnown /\ NoLateRequest
  BY InitTyped, InitMetadata
<1>2. Typed /\ OwnAliases /\ LateKnown /\ NoLateRequest /\ [Next]_vars
        => Typed' /\ OwnAliases' /\ LateKnown' /\ NoLateRequest'
  BY TypedStep, MetadataStep, LateStep
<1>3. QED
  BY <1>1, <1>2, PTL DEF Spec

-----------------------------------------------------------------------------
(* The endpoints that are kept and handed out.                             *)

(* No answer that this client can get makes a rogue issuer acceptable.     *)
LEMMA RogueRefused ==
    ASSUME Typed, NEW c \in Callers, NEW issuer \in Rogue
    PROVE  ~Accepted(c, issuer)
<1> DEFINE list == answer[c].list
           h == client.host
<1>0. client \in Configs /\ list \in Lists(client)
  BY DEF Typed, CallsTyped, DataTyped, Answers
<1>1. /\ ~TrustedHost(issuer[2]) /\ issuer[2] # h /\ issuer[2] # Global(h[2])
      /\ \A r \in Detected \cup {client.region} : issuer[2] \notin RegionalAliases(r, h)
      /\ \A l \in Listings : issuer[2] \notin AliasesFromMetadata(l, h)
  BY <1>0, RogueAssumption
<1>2. ~SameHost(issuer, h) /\ ~RegionalVariant(issuer, h)
  BY <1>1 DEF SameHost, RegionalVariant
<1>3. issuer[2] \notin AliasesFromMetadata(list, h)
  <2>1. CASE list = {}
    BY <2>1 DEF AliasesFromMetadata
  <2>2. CASE list \in Listings
    BY <1>1, <2>2
  <2>3. ASSUME NEW r \in Detected \cup {client.region}, list = {RegionalAliases(r, h)}
        PROVE  issuer[2] \notin AliasesFromMetadata(list, h)
    <3>1. h \in RegionalAliases(r, h)
      BY DEF RegionalAliases
    <3>2. AliasesFromMetadata({RegionalAliases(r, h)}, h) = RegionalAliases(r, h)
      BY <3>1 DEF AliasesFromMetadata
    <3>3. QED
      BY <1>1, <2>3, <3>2
  <2>4. QED
    BY <1>0, <2>1, <2>2, <2>3 DEF Lists
<1>4. QED
  BY <1>1, <1>2, <1>3 DEF Accepted, ValidateIssuerMatchesAuthority, AliasOf

LEMMA NoneIsRight ==
    ASSUME NEW t
    PROVE  Right(NoEndpoints, t) /\ Right(Failed, t)
<1>1. NoEndpoints \notin Endpoints /\ Failed \notin Endpoints
  BY TenantsAssumption DEF NoEndpoints, Failed, Endpoints
<1>2. QED
  BY <1>1 DEF Right

LEMMA EndpointsStep == Typed /\ EndpointsInv /\ [Next]_vars => EndpointsInv'
<1> SUFFICES ASSUME Typed, EndpointsInv, [Next]_vars PROVE EndpointsInv'
  OBVIOUS
<1>0. CallsTyped /\ DataTyped
  BY DEF Typed
<1>1. ASSUME NEW c \in Callers, NEW silent \in BOOLEAN, NEW id \in IdsOf[client],
             NEW d \in Domains, Start(c, silent, id, d)
      PROVE  EndpointsInv'
  <2>1. UNCHANGED endpoints /\ result'[c] = NoEndpoints
        /\ \A e \in Callers \ {c} : result'[e] = result[e] /\ tenant'[e] = tenant[e]
    BY <1>0, <1>1 DEF CallsTyped, Start, resolverVars
  <2>2. QED
    BY <2>1, NoneIsRight DEF EndpointsInv
<1>2. CASE UNCHANGED <<endpoints, result, tenant>>
  BY <1>2 DEF EndpointsInv
<1>3. ASSUME NEW c \in Callers, UNCHANGED <<endpoints, tenant>>,
             \A e \in Callers \ {c} : result'[e] = result[e], Right(result'[c], tenant[c])
      PROVE  EndpointsInv'
  BY <1>3 DEF EndpointsInv
<1>4. ASSUME NEW c \in Callers, Hit(c) \/ Merge(c) \/ GiveUp(c) PROVE EndpointsInv'
  <2>1. UNCHANGED <<endpoints, tenant>>
    BY <1>4 DEF Hit, Merge, GiveUp, Looked, Return, ReturnAll, argVars, resolverVars
  <2>2. UNCHANGED result \/ Return(c, NoEndpoints) \/ Return(c, Failed)
    BY <1>4 DEF Hit, Merge, GiveUp, Looked
  <2>3. CASE UNCHANGED result
    BY <1>2, <2>1, <2>3
  <2>4. CASE Return(c, NoEndpoints) \/ Return(c, Failed)
    BY <1>3, <2>1, <2>4, NoneIsRight DEF Return, ReturnAll
  <2>5. QED
    BY <2>2, <2>3, <2>4
<1>5. ASSUME NEW c \in Callers, CacheHit(c) PROVE EndpointsInv'
  <2>1. UNCHANGED <<endpoints, tenant>> /\ Return(c, endpoints[tenant[c]])
    BY <1>5 DEF CacheHit, Cached, Return, ReturnAll, argVars, resolverVars
  <2>2. Right(endpoints[tenant[c]], tenant[c])
    BY <1>0 DEF CallsTyped, EndpointsInv
  <2>3. QED
    BY <1>3, <2>1, <2>2 DEF Return, ReturnAll
<1>6. ASSUME NEW c \in Callers, Check(c) PROVE EndpointsInv'
  <2>1. UNCHANGED <<endpoints, tenant>>
    BY <1>6 DEF Check, argVars, resolverVars
  <2>2. UNCHANGED result \/ result' = [result EXCEPT ![c] = endpoints[tenant[c]]]
    BY <1>6 DEF Check, Cached
  <2>3. Right(endpoints[tenant[c]], tenant[c])
    BY <1>0 DEF CallsTyped, EndpointsInv
  <2>4. QED
    BY <1>0, <1>2, <1>3, <2>1, <2>2, <2>3 DEF CallsTyped
<1>7. ASSUME NEW c \in Callers, Instance(c) PROVE EndpointsInv'
  <2>1. UNCHANGED <<endpoints, tenant>>
    BY <1>7 DEF Instance, argVars, resolverVars
  <2>2. UNCHANGED result \/ result' = [result EXCEPT ![c] = Failed]
    BY <1>7 DEF Instance
  <2>3. QED
    BY <1>0, <1>2, <1>3, <2>1, <2>2, NoneIsRight DEF CallsTyped
<1>8. ASSUME NEW c \in Callers, Fetch(c) PROVE EndpointsInv'
  <2>1. PICK issuer \in Issuers :
            \/ /\ Accepted(c, issuer)
               /\ result' = [result EXCEPT ![c] = [tenant |-> tenant[c], issuer |-> issuer]]
               /\ AddCached(c, [tenant |-> tenant[c], issuer |-> issuer])
            \/ /\ result' = [result EXCEPT ![c] = Failed]
               /\ UNCHANGED <<endpoints, domains>>
    BY <1>8 DEF Fetch
  <2>2. UNCHANGED tenant /\ tenant[c] \in Tenants
    BY <1>0, <1>8 DEF Fetch, argVars, CallsTyped
  <2> DEFINE e == [tenant |-> tenant[c], issuer |-> issuer]
  <2>3. CASE /\ Accepted(c, issuer)
             /\ result' = [result EXCEPT ![c] = e]
             /\ AddCached(c, e)
    <3>1. issuer \notin Rogue
      BY <2>3, RogueRefused
    <3>2. Right(e, tenant[c])
      BY <3>1 DEF Right
    <3> HIDE DEF e
    <3>3. endpoints' = [endpoints EXCEPT ![tenant[c]] = e]
      BY <2>3 DEF AddCached
    <3>4. \A t \in Tenants : Right(endpoints'[t], t)
      BY <1>0, <3>2, <3>3 DEF DataTyped, EndpointsInv
    <3>5. \A d \in Callers : Right(result'[d], tenant[d])
      BY <1>0, <2>3, <3>2 DEF CallsTyped, EndpointsInv
    <3>6. QED
      BY <2>2, <3>4, <3>5 DEF EndpointsInv
  <2>4. CASE result' = [result EXCEPT ![c] = Failed] /\ UNCHANGED endpoints
    BY <1>0, <1>3, <2>2, <2>4, NoneIsRight DEF CallsTyped
  <2>5. QED
    BY <2>1, <2>3, <2>4
<1>9. ASSUME NEW c \in Callers, Leave(c) PROVE EndpointsInv'
  <2>1. UNCHANGED <<endpoints, tenant>>
    BY <1>9 DEF Leave, ReturnAll, argVars
  <2>2. \A d \in Callers :
            result'[d] = IF d = c \/ (pc[d] = "wait" /\ tenant[d] = tenant[c])
                            THEN result[c] ELSE result[d]
    BY <1>9 DEF Leave, ReturnAll, Followers, Key
  <2>3. QED
    BY <2>1, <2>2 DEF EndpointsInv
<1>10. ASSUME NEW c \in Callers,
              \/ Cancel(c) \/ Miss(c) \/ EnterLock(c) \/ Ask(c) \/ CacheMiss(c) \/ Lead(c) \/ Follow(c)
       PROVE  UNCHANGED <<endpoints, result, tenant>>
  BY <1>10 DEF Cancel, Miss, EnterLock, Ask, CacheMiss, Lead, Follow, argVars, resolverVars
<1>11. CASE UNCHANGED vars
  BY <1>2, <1>11 DEF vars, argVars, resolverVars
<1>12. QED
  BY <1>1, <1>2, <1>4, <1>5, <1>6, <1>7, <1>8, <1>9, <1>10, <1>11
     DEF Next, Locked, Request, Step

(* Every call is given the endpoints of its own tenant, from a document    *)
(* whose issuer has to do with the authority, no matter whose request      *)
(* brought them and whether they come from the cache or a shared run.      *)
THEOREM EndpointsAreRight == Spec => []RightAuthority
<1>1. Init => Typed /\ EndpointsInv
  <2> SUFFICES ASSUME Init PROVE EndpointsInv
    BY InitTyped
  <2>1. QED
    BY NoneIsRight DEF Init, EndpointsInv
<1>2. Typed /\ EndpointsInv /\ [Next]_vars => Typed' /\ EndpointsInv'
  BY TypedStep, EndpointsStep
<1>3. EndpointsInv => RightAuthority
  BY DEF EndpointsInv, Right, RightAuthority
<1>4. QED
  BY <1>1, <1>2, <1>3, PTL DEF Spec
=============================================================================
