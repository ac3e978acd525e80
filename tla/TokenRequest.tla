---------------------------- MODULE TokenRequest ----------------------------
(***************************************************************************)
(* What a call asks the token endpoint for, and what the cache knows the   *)
(* answer by: the claims parameter, the body of a request, the scopes of   *)
(* a response, and the match of a cached access token with a call.         *)
(*                                                                         *)
(* A claims object is the set of its leaves <<path, value>>, a path being  *)
(* the keys that lead to the leaf; text that is no JSON object is one leaf *)
(* with the empty path, and no claims at all are the empty set.            *)
(*                                                                         *)
(* A call's parameters (AuthParams) are a record of its kind, user,        *)
(* assertion, tenant, scopes (a sequence), claims (WithClaims),            *)
(* clientClaims (WithClaimsFromClient), extra (the parameters of           *)
(* WithFMIPath and WithAttribute, as <<name, value>>), and scheme.         *)
(***************************************************************************)
EXTENDS SequencesExt

CONSTANTS
    Capabilities,   \* the client's capabilities, a claims object
    Empty           \* the empty string, as a parameter's value

(* Capabilities are one list, if any (NewClientCapabilities); merge, which *)
(* returns after the first key that both of its objects have, relies on it.*)
ASSUME CapabilitiesAssumption == \A c, d \in Capabilities : c = d

NoClaims  == {}
NotObject == {<<<<>>, "not an object">>}
Bearer    == [type |-> "Bearer", keyID |-> ""]

-----------------------------------------------------------------------------
(* The claims parameter.                                                   *)

Clash(d, e) == IsPrefix(d[1], e[1]) \/ IsPrefix(e[1], d[1])
IsObject(claims) == \A leaf \in claims : leaf[1] # <<>>

deepMergeClaims(dst, src) ==
    src \cup {d \in dst : \A s \in src : ~Clash(d, s)}

mergeClaims(claims1, claims2) ==
    IF claims1 = {} \/ claims2 = {}
        THEN claims1 \cup claims2 ELSE deepMergeClaims(claims1, claims2)

(* MergeCapabilitiesAndClaims, and when it returns an error.               *)
Unmergeable(p) ==
    LET claims == mergeClaims(p.claims, p.clientClaims)
    IN  \/ /\ p.claims # {} /\ p.clientClaims # {}
           /\ ~(IsObject(p.claims) /\ IsObject(p.clientClaims))
        \/ /\ Capabilities # {} /\ claims # {}
           /\ \/ ~IsObject(claims)
              \/ \E c \in Capabilities, d \in claims : Clash(c, d)

MergeCapabilitiesAndClaims(p) ==
    Capabilities \cup mergeClaims(p.claims, p.clientClaims)

-----------------------------------------------------------------------------
(* The request, and the access token that answers it.                      *)

(* The builders that end in addExtraBodyParameters.                        *)
addsExtra(p, cred, refreshing) ==
    /\ ~refreshing
    /\ p.kind \in {"app", "fic"} \/ (p.kind = "obo" /\ cred # "secret")

Body(p, cred, refreshing) ==
    [claims |-> MergeCapabilitiesAndClaims(p),
     extra  |-> {e \in p.extra : addsExtra(p, cred, refreshing) /\ e[2] # Empty}]

(* What a TokenProvider is told of the call.                               *)
TokenProviderParameters(p) == [claims |-> p.claims, extra |-> {}]

(* A response without scopes grants what was asked.                        *)
ComputeScope(p, scope) == IF scope = <<>> THEN p.scopes ELSE scope
findDeclinedScopes(requested, granted) == ToSet(requested) \ ToSet(granted)

-----------------------------------------------------------------------------
(* The cache.                                                              *)

CacheKeyComponents(p) ==
    p.extra \cup IF p.clientClaims = NoClaims
                     THEN {} ELSE {<<"client_claims", p.clientClaims>>}

(* Mutated form: only the values are hashed, one after the other.          *)
ValuesOnly(p) == {component[2] : component \in CacheKeyComponents(p)}

(* A hash of the components, each with its name and the lengths of both.   *)
CacheExtKeyGenerator(p) == CacheKeyComponents(p)

lower(type) == IF type = "bearer" THEN "Bearer" ELSE type

(* Mutated form: the components are not part of it.                        *)
KeyOfScopes(t) ==
    <<t.assertion, t.home, t.realm, t.scopes,
      IF lower(t.type) = "Bearer" THEN {} ELSE {t.type}>>

(* AccessToken.Key, after the partition that holds the token.              *)
Key(t) ==
    <<t.assertion, t.home, t.realm, t.scopes,
      IF lower(t.type) = "Bearer" THEN {} ELSE {t.type}, t.extCacheKey>>

(* Pairs of an asked and a granted scope that are the same are counted.    *)
isMatchingScopes(asked, granted) ==
    Cardinality({ij \in (DOMAIN asked) \X (DOMAIN granted) : asked[ij[1]] = granted[ij[2]]})
        = Len(asked)

matchesScheme(t, p) ==
    IF p.kind = "obo"
    THEN t.type = p.scheme.type /\ t.keyID = p.scheme.keyID
    ELSE \/ lower(t.type) = lower(p.scheme.type) /\ t.keyID = p.scheme.keyID
         \/ t.type = "" /\ p.scheme.type = "Bearer"

(* readAccessToken, of the Manager and of the PartitionedManager.          *)
Matches(t, p) ==
    /\ t.assertion = p.assertion
    /\ p.kind # "obo" => t.home = p.user
    /\ t.realm = p.tenant
    /\ matchesScheme(t, p)
    /\ isMatchingScopes(p.scopes, t.scopes)
    /\ t.extCacheKey = CacheExtKeyGenerator(p)

(* A granted scope that stands twice in a response counts twice, so that   *)
(* the count of a call may be reached, or passed, for the wrong reason.    *)
NoRepeats(scopes) == \A i, j \in DOMAIN scopes : scopes[i] = scopes[j] => i = j
=============================================================================
