-------------------------- MODULE TokenAcquisition --------------------------
(***************************************************************************)
(* The AcquireToken methods of a client against its own cache: which       *)
(* cached token a call is served, what is asked of the service when there  *)
(* is none, and under which key the answer is stored.  The methods run one *)
(* after the other here; their interleavings are SilentRefresh, TokenStore *)
(* and ExternalCache.  A login with a username and a password looks up the *)
(* user's realm first and, if it is federated, what the federation says.   *)
(*                                                                         *)
(* One authority host and one client ID.  A token of the OBO cache is one  *)
(* with an assertion, the partition that holds it.  Tokens do not expire   *)
(* once they are stored, and none is due for a refresh.                    *)
(***************************************************************************)
EXTENDS TokenRequest, WSTrust

CONSTANTS
    Users, NoUser,              \* home account IDs, and the empty one
    Assertions, NoAssertion,    \* of the on-behalf-of flow
    UserOf,                     \* the user an assertion is about
    Wishes,     \* tenant, scopes and options of the calls
    Replies,    \* what the service may answer
    Setups,     \* credential of the client, spelling of the service's "Bearer"
    Realms, Documents, Issued,  \* what the services of a login may answer
    NoCall, NoResult,
    MaxAsked,       \* bound on the calls that the cache does not answer
    MaxFederated    \* bound on those among which a login may be federated

ASSUME UserOfAssumption == UserOf \in [Assertions -> Users] /\ NoAssertion \notin Assertions

(* Only WithFMIPath and WithAttribute add extra parameters, and a scheme   *)
(* that an application brings along is not called like the default one.    *)
ASSUME WishesAssumption ==
    \A w \in Wishes :
        /\ w.scopes \in Seq(ToSet(w.scopes))
        /\ \A e \in w.extra : e[1] # "client_claims"
        /\ w.scheme \in [type : STRING \ {""}, keyID : STRING]
        /\ lower(w.scheme.type) = "Bearer" => w.scheme = Bearer

ASSUME ServiceAssumption ==
    /\ \A s \in Setups : s[2] \in {"Bearer", "bearer"}
    /\ \A r \in Replies : r.scope \in {"echo", "fewer", "none"} /\ r.short \in BOOLEAN

ASSUME DocumentsAssumption ==
    \A doc \in Documents :
        /\ doc.policies \in Seq(ToSet(doc.policies))
        /\ doc.bindings \in Seq(ToSet(doc.bindings))
        /\ doc.ports \in Seq(ToSet(doc.ports))

VARIABLES
    cred,       \* "secret", "assertion", "provider"; "none" in a public client
    spelling,   \* of the token type "Bearer" in responses
    pc,         \* "idle", "refreshing", "realm", "mex", "saml", "asking", "done"
    call,       \* the running call
    login,      \* its federation document and endpoint, and its grant
    tokens,     \* access tokens, of the Manager and of the PartitionedManager
    refresh,    \* users and assertions that a refresh token is stored for
    apps,       \* the caches with app metadata: "manager", "pmanager"
    idTokens,   \* whose ID token and account the OBO cache has, by partition
    result,     \* what the call returns
    asked       \* calls that the cache did not answer

vars == <<cred, spelling, pc, call, login, tokens, refresh, apps, idTokens, result, asked>>
setup == <<cred, spelling>>
cache == <<tokens, refresh, apps, idTokens>>

NoLogin == [document |-> None, endpoint |-> NoEndpoint, grant |-> None]

Init ==
    /\ \E s \in Setups : cred = s[1] /\ spelling = s[2]
    /\ pc = "idle"
    /\ call = NoCall
    /\ login = NoLogin
    /\ tokens = {}
    /\ refresh = {}
    /\ apps = {}
    /\ idTokens = [key \in Users \X {w.tenant : w \in Wishes} |-> NoAssertion]
    /\ result = NoResult
    /\ asked = 0

-----------------------------------------------------------------------------
(* The calls an application can make.                                      *)

Call(kind, user, assertion, wish) ==
    [kind |-> kind, user |-> user, assertion |-> assertion,
     tenant |-> wish.tenant, scopes |-> wish.scopes, claims |-> wish.claims,
     clientClaims |-> wish.clientClaims, extra |-> wish.extra, scheme |-> wish.scheme]

UserCalls ==
    {Call(k, u, NoAssertion, w) :
        k \in {"silent", "code", "password", "fic"}, u \in Users, w \in Wishes}
AppCalls == {Call("app", NoUser, NoAssertion, w) : w \in Wishes}
OboCalls == {Call("obo", NoUser, a, w) : a \in Assertions, w \in Wishes}
Calls == AppCalls \cup UserCalls \cup OboCalls

(* The methods that a client's credential serves, and the options that a   *)
(* method takes; a silent call of a confidential client refuses claims.    *)
Methods ==
    CASE cred = "provider" -> {"app"}
      [] cred = "none"     -> {"silent", "code", "password"}
      [] OTHER             -> {"silent", "code", "password", "fic", "app", "obo"}

TakesExtra(p) == p.kind = "app"
TakesScheme(p) == p.kind \in {"app", "silent"} \/ (p.kind = "password" /\ cred = "none")
TakesClientClaims(p) == cred # "none"
TakesClaims(p) == p.kind # "silent" \/ cred = "none"

Offered(p) ==
    /\ p.kind \in Methods
    /\ p.extra # {} => TakesExtra(p)
    /\ p.scheme # Bearer => TakesScheme(p)
    /\ p.clientClaims # NoClaims => TakesClientClaims(p)
    /\ p.claims # NoClaims => TakesClaims(p)

(* Whom a token is about, which the ID token or client_info names.         *)
HomeAccountID(p) == IF p.kind = "obo" THEN UserOf[p.assertion] ELSE p.user

-----------------------------------------------------------------------------
(* AcquireTokenSilent, on its own or as the first step of the app and OBO  *)
(* methods.  A silent call with neither token ends in an error.            *)

Start(p) ==
    /\ pc = "idle"
    /\ Offered(p)
    /\ call' = p
    /\ UNCHANGED <<setup, cache, login>>

Found(p) == {t \in tokens : Matches(t, p)}
Cached(p) ==
    /\ p.kind \in {"silent", "app", "obo"}
    /\ p.claims = NoClaims
    /\ Found(p) # {}

(* The account of a cached token: the OBO cache keeps one for each user    *)
(* and tenant, that of the assertion which came last.                      *)
AccountOf(t) ==
    IF t.assertion # NoAssertion => idTokens[t.home, t.realm] = t.assertion
        THEN t.home ELSE NoUser

Hit(p, t) ==
    /\ Start(p)
    /\ Cached(p)
    /\ t \in Found(p)
    /\ result' = [token |-> t, account |-> AccountOf(t)]
    /\ pc' = "done"
    /\ UNCHANGED asked

(* readRefreshToken needs the app metadata that ends a Write.              *)
HasRefreshToken(p) ==
    \/ p.kind = "silent" /\ "manager" \in apps /\ p.user \in refresh
    \/ p.kind = "obo" /\ "pmanager" \in apps /\ p.assertion \in refresh

Ask(p) ==
    /\ Start(p)
    /\ ~Cached(p)
    /\ asked < MaxAsked
    /\ p.kind = "silent" => HasRefreshToken(p)
    /\ pc' = CASE HasRefreshToken(p)   -> "refreshing"
               [] p.kind = "password" -> "realm"
               [] OTHER               -> "asking"
    /\ asked' = asked + 1
    /\ UNCHANGED result

-----------------------------------------------------------------------------
(* The service, or the application's token provider, answers.              *)

Refreshing == pc = "refreshing"

(* An OBO call asks with its assertion when the refresh token fails it.    *)
GiveUp ==
    /\ pc' = IF Refreshing /\ call.kind = "obo" THEN "asking" ELSE "idle"
    /\ call' = IF pc' = "idle" THEN NoCall ELSE call
    /\ login' = NoLogin
    /\ UNCHANGED result

Fail ==
    /\ pc \in {"asking", "refreshing", "realm", "mex", "saml"}
    /\ GiveUp
    /\ UNCHANGED <<setup, cache, asked>>

-----------------------------------------------------------------------------
(* UsernamePassword: a managed user's password is a grant of its own, for  *)
(* a federated user it buys an assertion, which is the grant then.         *)

GoOn(to, newLogin) ==
    /\ pc' = to
    /\ login' = newLogin
    /\ UNCHANGED <<setup, cache, call, result, asked>>
BreakOff == GiveUp /\ UNCHANGED <<setup, cache, asked>>

UserRealm(realm) ==
    /\ pc = "realm"
    /\ realm.account = "Federated" => asked <= MaxFederated
    /\ \/ /\ ValidRealm(realm) /\ realm.account = "Managed"
          /\ GoOn("asking", [login EXCEPT !.grant = "password"])
       \/ /\ ValidRealm(realm) /\ realm.account = "Federated"
          /\ GoOn("mex", login)
       \/ /\ ~ValidRealm(realm) \/ realm.account \notin {"Managed", "Federated"}
          /\ BreakOff

Mex(document) ==
    /\ pc = "mex"
    /\ \/ /\ ValidDocument(document)
          /\ GoOn("saml", [login EXCEPT !.document = document,
                                       !.endpoint = UsernamePasswordEndpoint(document)])
       \/ ~ValidDocument(document) /\ BreakOff

SAMLTokenInfo(answer) ==
    /\ pc = "saml"
    /\ LET granted == Supported(login.endpoint) /\ samlAssertion(answer) # None
       IN  \/ granted /\ GoOn("asking", [login EXCEPT !.grant = samlAssertion(answer)])
           \/ ~granted /\ BreakOff

-----------------------------------------------------------------------------
(* The token service answers.                                              *)

(* The scope of a response, and the type it gives the token.               *)
Scope(r) ==
    CASE r.scope = "echo"  -> SetToSeq(ToSet(call.scopes))
      [] r.scope = "fewer" -> <<Head(call.scopes)>>
      [] r.scope = "none"  -> <<>>
TokenType ==
    IF cred # "provider" /\ call.scheme = Bearer THEN spelling ELSE call.scheme.type

NewAccessToken(r) ==
    [assertion   |-> call.assertion,
     home        |-> HomeAccountID(call),
     realm       |-> call.tenant,
     scopes      |-> ComputeScope(call, Scope(r)),
     type        |-> TokenType,
     keyID       |-> call.scheme.keyID,
     extCacheKey |-> CacheExtKeyGenerator(call),
     issuedFor   |-> call,
     sent        |-> IF cred = "provider" THEN TokenProviderParameters(call)
                                          ELSE Body(call, cred, Refreshing)]

Put(t) == {old \in tokens : Key(old) # Key(t)} \cup {t}

(* A token about to expire is left out, and ends the PartitionedManager's  *)
(* Write with an error.                                                    *)
ManagerWrite(t, r) ==
    /\ refresh' = refresh \cup {u \in {t.home} : r.refresh /\ u # NoUser}
    /\ tokens' = IF r.short THEN tokens ELSE Put(t)
    /\ apps' = apps \cup {"manager"}
    /\ UNCHANGED idTokens

PartitionedWrite(t, r) ==
    /\ refresh' = refresh \cup {a \in {t.assertion} : r.refresh}
    /\ \/ /\ r.short
          /\ UNCHANGED <<tokens, apps, idTokens>>
       \/ /\ ~r.short
          /\ tokens' = Put(t)
          /\ idTokens' = [idTokens EXCEPT ![<<t.home, t.realm>>] = t.assertion]
          /\ apps' = apps \cup {"pmanager"}

Declined(r) == Scope(r) # <<>> /\ findDeclinedScopes(call.scopes, Scope(r)) # {}

(* AuthResultFromToken: a response that declines a scope is stored, and    *)
(* yet the call fails.                                                     *)
Answer(r) ==
    /\ pc \in {"asking", "refreshing"}
    /\ cred # "provider" => ~Unmergeable(call)
    /\ LET t == NewAccessToken(r)
       IN  /\ IF call.kind = "obo" THEN PartitionedWrite(t, r) ELSE ManagerWrite(t, r)
           /\ \/ /\ Declined(r) \/ (call.kind = "obo" /\ r.short)
                 /\ GiveUp
              \/ /\ ~Declined(r) /\ (call.kind = "obo" => ~r.short)
                 /\ result' = [token |-> t, account |-> t.home]
                 /\ pc' = "done"
                 /\ UNCHANGED <<call, login>>
    /\ UNCHANGED <<setup, asked>>

Return ==
    /\ pc = "done"
    /\ pc' = "idle"
    /\ call' = NoCall
    /\ login' = NoLogin
    /\ result' = NoResult
    /\ UNCHANGED <<setup, cache, asked>>

Next ==
    \/ \E p \in Calls : Ask(p) \/ \E t \in tokens : Hit(p, t)
    \/ \E realm \in Realms : UserRealm(realm)
    \/ \E document \in Documents : Mex(document)
    \/ \E answer \in Issued : SAMLTokenInfo(answer)
    \/ \E r \in Replies : Answer(r)
    \/ Fail
    \/ Return

Spec == Init /\ [][Next]_vars

-----------------------------------------------------------------------------
(* The token a call returns, cached or new, is what the call would have    *)
(* been issued: about the same app, user or assertion, in its tenant, for  *)
(* its scheme and key, with at least its scopes and exactly its extra      *)
(* parameters and client claims; the service was sent all of these and     *)
(* the client's capabilities, and the claims of a challenge where client   *)
(* claims do not overrule them.  Two limits of the code are left out: a    *)
(* response that grants a scope twice (isMatchingScopes counts pairs), and *)
(* token providers, which hear of neither client claims nor extras.        *)
ServedWhatWasAsked ==
    pc = "done" =>
        LET t     == result.token
            first == t.issuedFor
        IN  /\ HomeAccountID(first) = HomeAccountID(call)
            /\ first.assertion = call.assertion
            /\ first.tenant = call.tenant
            /\ first.scheme = call.scheme
            /\ first.extra = call.extra
            /\ first.clientClaims = call.clientClaims
            /\ NoRepeats(t.scopes) => ToSet(call.scopes) \subseteq ToSet(t.scopes)
            /\ cred # "provider" =>
                  /\ Capabilities \cup call.clientClaims \subseteq t.sent.claims
                  /\ \A d \in call.claims : d \in t.sent.claims
                        \/ \E c \in call.clientClaims : Clash(c, d)
                  /\ {e \in call.extra : e[2] # Empty} = t.sent.extra
            /\ result.account \in {NoUser, HomeAccountID(call)}

(* The call that finds again what a call has stored: silent for a user.    *)
Again(p) ==
    [p EXCEPT !.claims = NoClaims,
              !.kind = IF @ \in {"app", "obo"} THEN @ ELSE "silent"]

(* Left out below: a scope granted twice, and an OBO response that spells  *)
(* its token type otherwise, which the PartitionedManager never matches.   *)
Findable(t) ==
    NoRepeats(t.scopes) /\ (t.assertion # NoAssertion => spelling = "Bearer")
Refound ==
    pc = "done" /\ result.token \in tokens /\ Findable(result.token)
        => Found(Again(call)) # {}

(* Tokens bound to another key: the key of a token does not tell them      *)
(* apart, so that two schemes with keys of their own take turns.           *)
OtherKey(t, u) == t.type = u.type /\ t.keyID # u.keyID

(* Keys and matches agree.  What a call stored, the same call finds: no    *)
(* call goes to the service twice for want of a match.  And no token takes *)
(* the place of another, because their keys are the same, unless it serves *)
(* every call that the other served, but for proof keys.                   *)
KeysMatchReads ==
    [][/\ Refound'
       /\ \A t \in tokens \ tokens' : \A p \in {q \in Calls : Matches(t, q)} :
             \E u \in tokens' : Matches(u, p) \/ OtherKey(t, u)]_vars

(* Where a document says that names and passwords are taken: at a port     *)
(* whose binding, over HTTP, follows a policy that asks for them within a  *)
(* secure transport.                                                       *)
Listed(doc, version) ==
    {port.url : port \in
        {p \in ToSet(doc.ports) : \E b \in ToSet(doc.bindings), q \in ToSet(doc.policies) :
            /\ p.binding = b.name /\ b.http /\ b.spec = version
            /\ b.policy = q.id /\ Usable(q) /\ q.password}}

Distinct(seq, Name(_)) ==
    \A i, j \in DOMAIN seq : Name(seq[i]) = Name(seq[j]) => i = j
Unambiguous(doc) ==
    Distinct(doc.policies, LAMBDA q : q.id) /\ Distinct(doc.bindings, LAMBDA b : b.name)

(* A federated user's password is posted where the federation's document   *)
(* says that it is taken, and nowhere else; if the document offers WS-     *)
(* Trust 1.3 at all then in 1.3, which alone is supported, whatever else   *)
(* is offered and whatever order policies, bindings and ports stand in.    *)
PasswordGoesWhereOffered ==
    login.document # None =>
        LET doc == login.document
            e   == login.endpoint
        IN  /\ e = NoEndpoint \/ e.url \in Listed(doc, e.version)
            /\ Unambiguous(doc) /\ Listed(doc, "1.3") # {} => e.version = "1.3"
=============================================================================
