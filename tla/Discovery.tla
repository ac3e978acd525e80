----------------------------- MODULE Discovery -----------------------------
(***************************************************************************)
(* What a client learns of its authority before it sends a token request,  *)
(* and keeps: the aliases of the host (getMetadataEntry of a manager),     *)
(* which every silent call needs to read the cache, and the endpoints of a *)
(* tenant (authorityEndpoint.ResolveEndpoints), which every request needs. *)
(*                                                                         *)
(* A Manager sends its request for metadata with aadCacheMu locked, a      *)
(* PartitionedManager without.  ResolveEndpoints shares one run of its     *)
(* requests between the goroutines that want the same authority: that of   *)
(* the first, in whose context they run.  A context may end at any time.   *)
(***************************************************************************)
EXTENDS Comm, Authority

CONSTANTS
    Callers,    \* goroutines
    NoCaller,
    Configs,    \* configurations of a client: [type, host, tenant, validate,
                \* region, disabled (instance discovery), valid (says the
                \* service)]
    IdsOf,      \* configuration -> the tenant IDs its calls name
    Domains,    \* domains of user names, NoDomain if there is no user name
    NoDomain,
    Listings,   \* what instance discovery may list: sets of sets of aliases
    Issuers,    \* issuers that discovery documents name: <<scheme, host>>
    Rogue       \* those that have nothing to do with any host asked for

ASSUME NoCallerAssumption == NoCaller \notin Callers
ASSUME ListingsAreDisjoint ==
    \A list \in Listings : \A e, f \in list : e = f \/ e \cap f = {}
ASSUME ConfigsAssumption ==
    \A cfg \in Configs : cfg.tenant # Refused /\ NoTenant \in IdsOf[cfg]
ASSUME DomainAssumption == NoDomain \in Domains

Managers == {"Manager", "PartitionedManager"}
TenantFor(cfg, id) == WithTenant(cfg.type, cfg.tenant, id)
Tenants == (UNION {{TenantFor(cfg, id) : id \in IdsOf[cfg]} : cfg \in Configs}) \ {Refused}

NoEndpoints == [tenant |-> "none", issuer |-> <<"none", Global("none")>>]
Failed      == [tenant |-> "failed", issuer |-> <<"none", Global("none")>>]
Endpoints   == [tenant : Tenants, issuer : Issuers]
ASSUME TenantsAssumption == {"none", "failed"} \cap Tenants = {}

(* An answer of AADInstanceDiscovery.                                      *)
Answer(err, list) == [err |-> err, list |-> list]
NoAnswer == Answer("none", {})

VARIABLES
    manager,    \* the storage manager the calls read from
    client,     \* the client's configuration
    metadata,   \* aadCache: host -> its aliases
    lock,       \* who holds aadCacheMu over a request
    endpoints,  \* the endpoint cache: tenant -> endpoints
    domains,    \* ValidForDomainsInList of an ADFS authority's entry
    flight,     \* singleflight: tenant -> who runs the requests
    pc, tenant, domain,     \* a call: where it is, its arguments
    ended,      \* has its context ended
    answer,     \* the instance discovery answer it got
    result,     \* what it was given
    late        \* history: were the host's aliases known when it began

constVars    == <<manager, client>>
metadataVars == <<metadata, lock>>
resolverVars == <<endpoints, domains, flight>>
argVars      == <<tenant, domain, late>>
vars == <<constVars, metadataVars, resolverVars, argVars, pc, ended, answer, result>>

Init ==
    /\ manager \in Managers
    /\ client \in Configs
    /\ metadata = <<>>
    /\ lock = NoCaller
    /\ endpoints = [t \in Tenants |-> NoEndpoints]
    /\ domains = {}
    /\ flight = [t \in Tenants |-> NoCaller]
    /\ pc = [c \in Callers |-> "idle"]
    /\ tenant = [c \in Callers |-> CHOOSE t \in Tenants : TRUE]
    /\ domain = [c \in Callers |-> NoDomain]
    /\ ended = [c \in Callers |-> FALSE]
    /\ answer = [c \in Callers |-> NoAnswer]
    /\ result = [c \in Callers |-> NoEndpoints]
    /\ late = [c \in Callers |-> FALSE]

-----------------------------------------------------------------------------
(* Calls.                                                                  *)

Goto(c, p) == pc' = [pc EXCEPT ![c] = p]

(* The calls of some goroutines return r.                                  *)
ReturnAll(out, r) ==
    /\ pc' = [c \in Callers |-> IF c \in out THEN "idle" ELSE pc[c]]
    /\ result' = [c \in Callers |-> IF c \in out THEN r ELSE result[c]]
    /\ ended' = [c \in Callers |-> c \notin out /\ ended[c]]
    /\ answer' = [c \in Callers |-> IF c \in out THEN NoAnswer ELSE answer[c]]
    /\ UNCHANGED argVars
Return(c, r) == ReturnAll({c}, r)

(* A silent call reads the cache, other calls go straight to a request.    *)
FirstStep(silent) ==
    IF silent /\ ~client.disabled THEN "lookup" ELSE "resolve"

Start(c, silent, id, d) ==
    /\ pc[c] = "idle"
    /\ TenantFor(client, id) # Refused
    /\ d # NoDomain => client.type = "ADFS"
    /\ Goto(c, FirstStep(silent))
    /\ tenant' = [tenant EXCEPT ![c] = TenantFor(client, id)]
    /\ domain' = [domain EXCEPT ![c] = d]
    /\ late' = [late EXCEPT ![c] = client.host \in DOMAIN metadata]
    /\ result' = [result EXCEPT ![c] = NoEndpoints]
    /\ UNCHANGED <<constVars, metadataVars, resolverVars, ended, answer>>

Cancel(c) ==
    /\ pc[c] # "idle" /\ ~ended[c]
    /\ ended' = [ended EXCEPT ![c] = TRUE]
    /\ UNCHANGED <<constVars, metadataVars, resolverVars, argVars, pc, answer, result>>

-----------------------------------------------------------------------------
(* AADInstanceDiscovery, which both parts use.                             *)

(* detectRegion: the environment variable, or IMDS in two tries.           *)
Detected == {NoRegion, "westus"}
Regions ==
    IF client.region = AutoDetect THEN Detected ELSE {client.region}

(* What it answers without asking the service.                             *)
ForRegion(r) ==
    IF r = BadRegion THEN Answer("refused", {})
    ELSE Answer("none", {RegionalAliases(r, client.host)})

(* The service knows its hosts, and says invalid_instance of others.       *)
Sent == {Reply(500, "error"), Reply(200, Garbage),
         IF client.valid THEN Reply(200, "metadata")
                         ELSE Reply(400, "invalid_instance")}

FromReply(reply, list) ==
    CASE JSONCall(reply) = "none" -> Answer("none", list)
      [] CallErr(reply) /\ reply.body = "invalid_instance" -> Answer("invalid", {})
      [] OTHER -> Answer("failed", {})

AADInstanceDiscovery(c) ==
    {ForRegion(r) : r \in Regions \ {NoRegion}}
        \cup IF NoRegion \notin Regions THEN {}
             ELSE {FromReply(reply, list) :
                      reply \in Replies(ended[c], Sent), list \in Listings}

(* The host of a rogue issuer is neither a cloud's nor the authority's, and*)
(* neither listed nor made up as an alias of the authority's.              *)
ASSUME RogueAssumption ==
    \A issuer \in Rogue, cfg \in Configs :
        /\ ~TrustedHost(issuer[2])
        /\ issuer[2] \notin {cfg.host, Global(cfg.host[2])}
        /\ \A r \in Detected \cup {cfg.region} :
            issuer[2] \notin RegionalAliases(r, cfg.host)
        /\ \A list \in Listings : issuer[2] \notin AliasesFromMetadata(list, cfg.host)

-----------------------------------------------------------------------------
(* getMetadataEntry.                                                       *)

(* A silent call ends here if it finds its token in the cache.             *)
Looked(c) ==
    \/ Return(c, NoEndpoints)
    \/ Goto(c, "resolve") /\ UNCHANGED <<argVars, ended, answer, result>>

Hit(c) ==
    /\ pc[c] = "lookup" /\ lock = NoCaller
    /\ client.host \in DOMAIN metadata
    /\ Looked(c)
    /\ UNCHANGED <<constVars, metadataVars, resolverVars>>

(* aadMetadata of a Manager goes on to wait for the lock.                  *)
Miss(c) ==
    /\ pc[c] = "lookup" /\ lock = NoCaller
    /\ client.host \notin DOMAIN metadata
    /\ Goto(c, IF manager = "Manager" THEN "enter" ELSE "ask")
    /\ UNCHANGED <<constVars, metadataVars, resolverVars, argVars, ended, answer, result>>

EnterLock(c) ==
    /\ pc[c] = "enter" /\ lock = NoCaller
    /\ lock' = c
    /\ Goto(c, "ask")
    /\ UNCHANGED <<constVars, metadata, resolverVars, argVars, ended, answer, result>>

Ask(c) ==
    /\ pc[c] = "ask"
    /\ \E a \in AADInstanceDiscovery(c) : answer' = [answer EXCEPT ![c] = a]
    /\ Goto(c, "merge")
    /\ UNCHANGED <<constVars, metadataVars, resolverVars, argVars, ended, result>>

Unlock(c) == lock' = IF lock = c THEN NoCaller ELSE lock

(* The map with entries written over old ones.                             *)
WrittenOver(old, entries) ==
    [h \in DOMAIN old \cup DOMAIN entries |->
        IF h \in DOMAIN entries THEN entries[h] ELSE old[h]]

(* Mutated form: every listed entry is taken for the host's own.           *)
MergedUnderHost(list) ==
    WrittenOver(metadata, [h \in {client.host} |-> CHOOSE entry \in list : TRUE])

(* The listed aliases; a host that is not listed gets an entry without any.*)
Merged(list) ==
    WrittenOver(WrittenOver([h \in {client.host} |-> {}], metadata),
                [h \in UNION list |-> AliasesFromMetadata(list, h)])

(* Mutated form: what was known is dropped with a failure.                 *)
FallbackForgets == <<>>

(* fallbackMetadata.                                                       *)
Fallback ==
    IF Known(client.host)
        THEN WrittenOver(metadata, [h \in KnownCloud(client.host) |-> KnownCloud(client.host)])
        ELSE WrittenOver(metadata, [h \in {client.host} |-> {client.host}])

(* An invalid host is an error, and so is a failure once the caller gave   *)
(* up; after any other failure the host counts for itself.                 *)
GiveUp(c) ==
    /\ pc[c] = "merge"
    /\ \/ answer[c].err = "invalid"
       \/ answer[c].err # "none" /\ ended[c]
    /\ Return(c, Failed)
    /\ Unlock(c)
    /\ UNCHANGED <<constVars, metadata, resolverVars>>

Merge(c) ==
    /\ pc[c] = "merge"
    /\ \/ answer[c].err = "none" /\ metadata' = Merged(answer[c].list)
       \/ answer[c].err \in {"failed", "refused"} /\ ~ended[c] /\ metadata' = Fallback
    /\ Looked(c)
    /\ Unlock(c)
    /\ UNCHANGED <<constVars, resolverVars>>

-----------------------------------------------------------------------------
(* ResolveEndpoints.                                                       *)

(* CanonicalAuthorityURI: one client has one host.                         *)
Key(t) == t

(* cachedEndpoints: the domain of an ADFS user does not decide anything.   *)
Cached(c) == endpoints[tenant[c]]

CacheHit(c) ==
    /\ pc[c] = "resolve"
    /\ Cached(c) # NoEndpoints
    /\ Return(c, Cached(c))
    /\ UNCHANGED <<constVars, metadataVars, resolverVars>>

CacheMiss(c) ==
    /\ pc[c] = "resolve"
    /\ Cached(c) = NoEndpoints
    /\ Goto(c, "join")
    /\ UNCHANGED <<constVars, metadataVars, resolverVars, argVars, ended, answer, result>>

Lead(c) ==
    /\ pc[c] = "join"
    /\ flight[Key(tenant[c])] = NoCaller
    /\ flight' = [flight EXCEPT ![Key(tenant[c])] = c]
    /\ Goto(c, "check")
    /\ UNCHANGED <<constVars, metadataVars, endpoints, domains, argVars, ended,
                   answer, result>>

Follow(c) ==
    /\ pc[c] = "join"
    /\ flight[Key(tenant[c])] # NoCaller
    /\ Goto(c, "wait")
    /\ UNCHANGED <<constVars, metadataVars, resolverVars, argVars, ended, answer, result>>

(* openIDConfigurationEndpoint: who has to be asked for the address.       *)
NeedsDiscovery ==
    /\ client.type = "AAD"
    /\ \/ client.validate /\ ~TrustedHost(client.host)
       \/ client.region # NoRegion

(* Mutated form: no second look.                                           *)
CheckSkipped(c) ==
    /\ pc[c] = "check"
    /\ Goto(c, IF NeedsDiscovery THEN "instance" ELSE "fetch")
    /\ answer' = [answer EXCEPT ![c] = NoAnswer]
    /\ UNCHANGED <<constVars, metadataVars, resolverVars, argVars, ended, result>>

(* The second look at the cache.                                           *)
Check(c) ==
    /\ pc[c] = "check"
    /\ \/ /\ Cached(c) # NoEndpoints
          /\ result' = [result EXCEPT ![c] = Cached(c)]
          /\ Goto(c, "leave")
          /\ UNCHANGED answer
       \/ /\ Cached(c) = NoEndpoints
          /\ Goto(c, IF NeedsDiscovery THEN "instance" ELSE "fetch")
          /\ answer' = [answer EXCEPT ![c] = NoAnswer]
          /\ UNCHANGED result
    /\ UNCHANGED <<constVars, metadataVars, resolverVars, argVars, ended>>

(* Mutated form: the error of the discovery is dropped.                    *)
InstanceErrorDropped(c) ==
    /\ pc[c] = "instance"
    /\ \E a \in AADInstanceDiscovery(c) : answer' = [answer EXCEPT ![c] = a]
    /\ Goto(c, "fetch")
    /\ UNCHANGED <<constVars, metadataVars, resolverVars, argVars, ended, result>>

Instance(c) ==
    /\ pc[c] = "instance"
    /\ \E a \in AADInstanceDiscovery(c) :
        /\ answer' = [answer EXCEPT ![c] = a]
        /\ IF a.err = "none"
              THEN Goto(c, "fetch") /\ UNCHANGED result
              ELSE Goto(c, "leave") /\ result' = [result EXCEPT ![c] = Failed]
    /\ UNCHANGED <<constVars, metadataVars, resolverVars, argVars, ended>>

(* The tenant's discovery document: "partial" lacks one of the endpoints   *)
(* or the issuer, which Validate refuses.                                  *)
Documents == {Reply(200, "document"), Reply(200, "partial"), Reply(404, "error")}

(* Mutated form: any issuer will do.                                       *)
AnyIssuer(c, issuer) == TRUE

Accepted(c, issuer) ==
    ValidateIssuerMatchesAuthority(issuer, client.host,
                                   AliasesFromMetadata(answer[c].list, client.host))

(* addCachedEndpoints, with the endpoints made for the tenant.             *)
AddCached(c, e) ==
    /\ endpoints' = [endpoints EXCEPT ![tenant[c]] = e]
    /\ domains' = IF client.type = "ADFS"
                     THEN domains \cup ({domain[c]} \ {NoDomain}) ELSE domains

Fetch(c) ==
    /\ pc[c] = "fetch"
    /\ Goto(c, "leave")
    /\ \E reply \in Replies(ended[c], Documents), issuer \in Issuers :
        LET good == /\ JSONCall(reply) = "none" /\ reply.body = "document"
                    /\ Accepted(c, issuer)
            e == [tenant |-> tenant[c], issuer |-> issuer]
        IN  /\ result' = [result EXCEPT ![c] = IF good THEN e ELSE Failed]
            /\ IF good THEN AddCached(c, e) ELSE UNCHANGED <<endpoints, domains>>
    /\ UNCHANGED <<constVars, metadataVars, flight, argVars, ended, answer>>

Followers(k) == {d \in Callers : pc[d] = "wait" /\ Key(tenant[d]) = k}

(* Mutated form: after an error the followers are left waiting.            *)
LeaveOnSuccess(c) ==
    /\ pc[c] = "leave"
    /\ LET k == Key(tenant[c])
           out == {c} \cup IF result[c] = Failed THEN {} ELSE Followers(k)
       IN  flight' = [flight EXCEPT ![k] = NoCaller] /\ ReturnAll(out, result[c])
    /\ UNCHANGED <<constVars, metadataVars, endpoints, domains>>

(* singleflight hands the outcome to all that came meanwhile.              *)
Leave(c) ==
    /\ pc[c] = "leave"
    /\ LET k == Key(tenant[c])
           out == {c} \cup Followers(k)
       IN  flight' = [flight EXCEPT ![k] = NoCaller] /\ ReturnAll(out, result[c])
    /\ UNCHANGED <<constVars, metadataVars, endpoints, domains>>

-----------------------------------------------------------------------------

Locked(c)  == Hit(c) \/ Miss(c) \/ EnterLock(c)
Request(c) == Ask(c) \/ Instance(c) \/ Fetch(c)
Step(c) ==
    \/ GiveUp(c) \/ Merge(c) \/ CacheHit(c) \/ CacheMiss(c) \/ Lead(c)
    \/ Follow(c) \/ Check(c) \/ Leave(c)

Next ==
    \E c \in Callers :
        \/ \E silent \in BOOLEAN, id \in IdsOf[client], d \in Domains : Start(c, silent, id, d)
        \/ Cancel(c) \/ Locked(c) \/ Request(c) \/ Step(c)

(* Goroutines run, requests end (comm.Client's deadline), and a goroutine  *)
(* that waits for aadCacheMu gets it: sync.RWMutex starves nobody.         *)
Spec ==
    /\ Init /\ [][Next]_vars
    /\ \A c \in Callers :
        WF_vars(Step(c)) /\ WF_vars(Request(c)) /\ SF_vars(Locked(c))

-----------------------------------------------------------------------------
(* Properties.                                                             *)

Leading == {"check", "instance", "fetch", "leave"}
Asking  == {"enter", "ask", "merge"}
Places  == {"idle", "lookup", "resolve", "join", "wait"} \cup Asking \cup Leading

(* The type invariant; a Manager's requests for metadata are sent one at a *)
(* time, and a document is asked for only where discovery said.            *)
TypeOK ==
    /\ manager \in Managers /\ client \in Configs
    /\ lock \in Callers \cup {NoCaller}
    /\ endpoints \in [Tenants -> Endpoints \cup {NoEndpoints}]
    /\ domains \subseteq Domains \ {NoDomain}
    /\ flight \in [Tenants -> Callers \cup {NoCaller}]
    /\ pc \in [Callers -> Places]
    /\ tenant \in [Callers -> Tenants] /\ domain \in [Callers -> Domains]
    /\ ended \in [Callers -> BOOLEAN] /\ late \in [Callers -> BOOLEAN]
    /\ result \in [Callers -> Endpoints \cup {NoEndpoints, Failed}]
    /\ \A c \in Callers :
        /\ answer[c].err \in {"none", "invalid", "failed", "refused"}
        /\ pc[c] = "fetch" => answer[c].err = "none"
        /\ lock = c <=> manager = "Manager" /\ pc[c] \in {"ask", "merge"}

(* A request for metadata is only ever sent for a call that began before   *)
(* the host's entry was first there (storage.go:254-258): entries are      *)
(* never lost, whatever later answers and failures do to them, so that a   *)
(* race of calls that all missed is the only way to ask twice and the only *)
(* way a fallback can take the place of an answer.                         *)
NoLateRequest == \A c \in Callers : pc[c] \in Asking => ~late[c]

(* The aliases kept for a host are the host's: either the host is one of   *)
(* them, or there are none (the answer did not list it), however lists,    *)
(* the known clouds and self entries are laid over each other.             *)
OwnAliases ==
    \A h \in DOMAIN metadata : metadata[h] = {} \/ h \in metadata[h]

(* A call is given the endpoints of its own tenant, from a document whose  *)
(* issuer has something to do with the authority, no matter whose request  *)
(* brought them and whether they come from the cache or a shared run.      *)
RightAuthority ==
    \A c \in Callers :
        result[c] \in Endpoints => result[c].tenant = tenant[c] /\ result[c].issuer \notin Rogue

(* Endpoints once found stay: no goroutine that missed the cache before    *)
(* they were there asks again and replaces them (resolvers.go:56-60), so   *)
(* that all calls for a tenant are sent to the same place.                 *)
EndpointsStay ==
    [][\A t \in Tenants : endpoints[t] # NoEndpoints => endpoints'[t] = endpoints[t]]_vars

(* A tenant's entry in the singleflight group belongs to exactly the       *)
(* goroutine that runs its requests, and nobody waits where nobody runs:   *)
(* an error, or the end of the context they run in, is over with them.     *)
FlightLed ==
    \A c \in Callers :
        /\ \A t \in Tenants :
            flight[t] = c <=> pc[c] \in Leading /\ Key(tenant[c]) = t
        /\ pc[c] = "wait" => flight[Key(tenant[c])] \in Callers

(* Every call returns: nobody waits for ever for aadCacheMu or for another *)
(* goroutine's run, whichever contexts end and whatever the services say.  *)
EveryCallReturns == \A c \in Callers : pc[c] # "idle" ~> pc[c] = "idle"
=============================================================================
