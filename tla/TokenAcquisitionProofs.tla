------------------------ MODULE TokenAcquisitionProofs ------------------------
(***************************************************************************)
(* Proofs about TokenAcquisition, for all users, assertions, scopes,       *)
(* claims, extra parameters, schemes and answers: which token a call is    *)
(* served, and where a federated user's password goes.                     *)
(*                                                                         *)
(* A cached token is served because its fields match the call's; what was  *)
(* asked for when it was issued is not among them.  The invariant TokenInv *)
(* says how the fields of every stored token come from the call that it    *)
(* was issued for, and the lemmas before it that a match then leaves no    *)
(* choice: the scopes counted are the scopes asked (ScopesMatch), and the  *)
(* components of the cache key (ComponentsTell) and the scheme             *)
(* (SchemeTells) are those of the call.                                    *)
(***************************************************************************)
EXTENDS TokenAcquisition, FiniteSetTheorems, TLAPS

(* A sequence of scopes.                                                   *)
Scopes(seq) == seq \in Seq(ToSet(seq))

(* The type that the tokens of a scheme have.                              *)
TypeOf(scheme) == IF cred # "provider" /\ scheme = Bearer THEN spelling ELSE scheme.type

(* What the service was sent for a token.                                  *)
SentRight(sent, p) ==
    /\ Capabilities \cup p.clientClaims \subseteq sent.claims
    /\ \A d \in p.claims : d \in sent.claims \/ \E c \in p.clientClaims : Clash(c, d)
    /\ {e \in p.extra : e[2] # Empty} = sent.extra

(* How a token comes from the call it was issued for.                      *)
TokenInv(t) ==
    LET first == t.issuedFor
    IN  /\ first \in Calls
        /\ t.assertion = first.assertion
        /\ t.home = HomeAccountID(first)
        /\ t.realm = first.tenant
        /\ Scopes(t.scopes)
        /\ t.type = TypeOf(first.scheme)
        /\ t.keyID = first.scheme.keyID
        /\ t.extCacheKey = CacheExtKeyGenerator(first)
        /\ cred # "provider" => SentRight(t.sent, first)

(* The call that runs is one that the client offers, and only those that   *)
(* send no extra parameters refresh.                                       *)
CallInv ==
    /\ spelling \in {"Bearer", "bearer"}
    /\ pc # "idle" => call \in Calls /\ Offered(call)
    /\ Refreshing => call.kind \in {"silent", "obo"}

(* What a call returns can be found again.                                 *)
AgainInv ==
    pc = "done" /\ Findable(result.token) => Matches(result.token, Again(call))

Inv ==
    /\ CallInv
    /\ \A t \in tokens : TokenInv(t)
    /\ pc = "done" => TokenInv(result.token)
    /\ ServedWhatWasAsked
    /\ AgainInv

-----------------------------------------------------------------------------
(* Scopes.                                                                 *)

LEMMA CountUpTo == ASSUME NEW n \in Nat PROVE IsFiniteSet(1..n) /\ Cardinality(1..n) = n
<1>1. IsFiniteSet(1..n) /\ Cardinality(1..n) = IF 1 > n THEN 0 ELSE n - 1 + 1
  BY FS_Interval
<1>2. QED
  BY <1>1

(* When no granted scope repeats, counting pairs is as good as comparing   *)
(* sets.                                                                   *)
LEMMA ScopesMatch ==
    ASSUME NEW wanted, NEW granted, Scopes(wanted), Scopes(granted), NoRepeats(granted)
    PROVE  isMatchingScopes(wanted, granted) <=> ToSet(wanted) \subseteq ToSet(granted)
<1> DEFINE Pairs == {ij \in (DOMAIN wanted) \X (DOMAIN granted) : wanted[ij[1]] = granted[ij[2]]}
           First == [ij \in Pairs |-> ij[1]]
           n == Len(wanted)
<1>1. n \in Nat /\ DOMAIN wanted = 1..n
  BY DEF Scopes
<1>2. IsFiniteSet(1..n) /\ Cardinality(1..n) = n
  BY <1>1, CountUpTo
<1>3. First \in Injection(Pairs, 1..n)
  <2>1. First \in [Pairs -> 1..n]
    BY <1>1
  <2>2. ASSUME NEW a \in Pairs, NEW b \in Pairs, First[a] = First[b] PROVE a = b
    <3>1. a[1] = b[1] /\ granted[a[2]] = granted[b[2]]
      BY <2>2
    <3>2. a[2] = b[2]
      BY <3>1 DEF NoRepeats
    <3>3. QED
      BY <3>1, <3>2
  <2>3. IsInjective(First)
    BY <2>2 DEF IsInjective
  <2>4. QED
    BY <2>1, <2>3 DEF Injection
<1>4. Cardinality(Pairs) = n <=> First \in Surjection(Pairs, 1..n)
  BY <1>2, <1>3, FS_Injection
<1>5. First \in Surjection(Pairs, 1..n) <=> \A i \in 1..n : \E ij \in Pairs : ij[1] = i
  BY <1>1 DEF Surjection
<1>6. (\A i \in 1..n : \E ij \in Pairs : ij[1] = i) <=> ToSet(wanted) \subseteq ToSet(granted)
  <2>1. ASSUME \A i \in 1..n : \E ij \in Pairs : ij[1] = i
        PROVE  ToSet(wanted) \subseteq ToSet(granted)
    BY <1>1, <2>1 DEF ToSet
  <2>2. ASSUME ToSet(wanted) \subseteq ToSet(granted), NEW i \in 1..n
        PROVE  \E ij \in Pairs : ij[1] = i
    <3>1. PICK j \in DOMAIN granted : wanted[i] = granted[j]
      BY <1>1, <2>2 DEF ToSet
    <3>2. <<i, j>> \in Pairs
      BY <1>1, <3>1
    <3>3. QED
      BY <3>2
  <2>3. QED
    BY <2>1, <2>2
<1>7. isMatchingScopes(wanted, granted) <=> Cardinality(Pairs) = n
  BY DEF isMatchingScopes
<1>8. QED
  BY <1>4, <1>5, <1>6, <1>7

LEMMA CallsAre ==
    ASSUME NEW p \in Calls
    PROVE  /\ Scopes(p.scopes)
           /\ \A e \in p.extra : e[1] # "client_claims"
           /\ p.scheme \in [type : STRING \ {""}, keyID : STRING]
           /\ lower(p.scheme.type) = "Bearer" => p.scheme = Bearer
           /\ p.kind \in {"silent", "code", "password", "fic", "app", "obo"}
           /\ p.kind = "obo" <=> p.assertion \in Assertions
           /\ p.kind # "obo" => p.assertion = NoAssertion
<1>1. PICK k \in {"silent", "code", "password", "fic", "app", "obo"},
           u \in Users \cup {NoUser}, a \in Assertions \cup {NoAssertion}, w \in Wishes :
        p = Call(k, u, a, w) /\ (k = "obo" <=> a \in Assertions)
  BY UserOfAssumption DEF Calls, AppCalls, UserCalls, OboCalls
<1>2. /\ p.kind = k /\ p.assertion = a
      /\ p.scopes = w.scopes /\ p.extra = w.extra /\ p.scheme = w.scheme
  BY <1>1 DEF Call
<1>3. QED
  BY <1>1, <1>2, WishesAssumption DEF Scopes

(* The scopes that a service grants are a sequence; if it declines none    *)
(* they hold the ones that were asked.                                     *)
LEMMA GrantedScopes ==
    ASSUME NEW r \in Replies, call \in Calls
    PROVE  LET granted == ComputeScope(call, Scope(r))
           IN  /\ Scopes(granted)
               /\ ~Declined(r) => ToSet(call.scopes) \subseteq ToSet(granted)
<1>0. Scopes(call.scopes)
  BY CallsAre
<1> DEFINE wanted == call.scopes
<1>1. IsFiniteSet(ToSet(wanted))
  <2>1. Len(wanted) \in Nat /\ DOMAIN wanted = 1..Len(wanted) /\ wanted \in [1..Len(wanted) -> ToSet(wanted)]
    BY <1>0 DEF Scopes
  <2>2. wanted \in Surjection(1..Len(wanted), ToSet(wanted))
    BY <2>1 DEF Surjection, ToSet
  <2>3. QED
    BY <2>1, <2>2, CountUpTo, FS_Surjection
<1>2. Scopes(SetToSeq(ToSet(wanted)))
  <2> DEFINE S == ToSet(wanted)
             n == Cardinality(S)
             f == SetToSeq(S)
  <2>1. n \in Nat /\ ExistsBijection(1..n, S)
    BY <1>1, FS_CardinalityType
  <2>2. \E g \in [1..n -> S] : IsInjective(g)
    BY <2>1 DEF ExistsBijection, Bijection, Injection
  <2>3. f \in [1..n -> S]
    BY <2>2 DEF SetToSeq
  <2>4. DOMAIN f = 1..n /\ f \in [1..n -> ToSet(f)]
    BY <2>3 DEF ToSet
  <2>5. QED
    BY <2>1, <2>4 DEF Scopes
<1>3. Scopes(<<Head(wanted)>>)
  BY DEF Scopes, ToSet
<1>4. Scope(r) = <<>> \/ Scopes(Scope(r))
  BY <1>2, <1>3, ServiceAssumption DEF Scope
<1>5. CASE Scope(r) = <<>>
  BY <1>0, <1>5 DEF ComputeScope
<1>6. CASE Scope(r) # <<>>
  BY <1>4, <1>6 DEF ComputeScope, Declined, findDeclinedScopes
<1>7. QED
  BY <1>5, <1>6

-----------------------------------------------------------------------------
(* What a match tells of the call that a token was issued for.             *)

(* The parameter of the client claims is told from extra ones by its name. *)
LEMMA ComponentsTell ==
    ASSUME NEW p \in Calls, NEW q \in Calls, CacheExtKeyGenerator(p) = CacheExtKeyGenerator(q)
    PROVE  p.extra = q.extra /\ p.clientClaims = q.clientClaims
<1> DEFINE Claims(c) == IF c.clientClaims = NoClaims
                            THEN {} ELSE {<<"client_claims", c.clientClaims>>}
<1>1. p.extra \cup Claims(p) = q.extra \cup Claims(q)
  BY DEF CacheExtKeyGenerator, CacheKeyComponents
<1>2. /\ \A e \in p.extra \cup q.extra : e[1] # "client_claims"
      /\ \A e \in Claims(p) \cup Claims(q) : e[1] = "client_claims"
  <2>1. \A e \in p.extra \cup q.extra : e[1] # "client_claims"
    BY CallsAre
  <2>2. \A c, e : e \in Claims(c) => e[1] = "client_claims"
    OBVIOUS
  <2>3. QED
    BY <2>1, <2>2
<1>3. p.extra = q.extra /\ Claims(p) = Claims(q)
  <2> HIDE DEF Claims
  <2>1. p.extra = {e \in p.extra \cup Claims(p) : e[1] # "client_claims"}
    BY <1>2
  <2>2. q.extra = {e \in q.extra \cup Claims(q) : e[1] # "client_claims"}
    BY <1>2
  <2>3. Claims(p) = {e \in p.extra \cup Claims(p) : e[1] = "client_claims"}
    BY <1>2
  <2>4. Claims(q) = {e \in q.extra \cup Claims(q) : e[1] = "client_claims"}
    BY <1>2
  <2>5. QED
    BY <1>1, <2>1, <2>2, <2>3, <2>4
<1>4. CASE p.clientClaims = NoClaims
  BY <1>3, <1>4
<1>5. CASE p.clientClaims # NoClaims
  <2>1. <<"client_claims", p.clientClaims>> \in Claims(q)
    BY <1>3, <1>5
  <2>2. p.clientClaims = q.clientClaims
    BY <2>1
  <2>3. QED
    BY <1>3, <2>2
<1>6. QED
  BY <1>4, <1>5

LEMMA SchemesEqual ==
    ASSUME NEW r \in [type : STRING \ {""}, keyID : STRING],
           NEW s \in [type : STRING \ {""}, keyID : STRING],
           r.type = s.type, r.keyID = s.keyID
    PROVE  r = s
<1>1. r = [type |-> r.type, keyID |-> r.keyID]
  OBVIOUS
<1>2. s = [type |-> s.type, keyID |-> s.keyID]
  OBVIOUS
<1>3. QED
  BY <1>1, <1>2

(* However a service spells the default type, the type and the key of a    *)
(* token name its scheme.                                                  *)
LEMMA SchemeTells ==
    ASSUME NEW t, TokenInv(t), NEW p \in Calls, spelling \in {"Bearer", "bearer"},
           matchesScheme(t, p)
    PROVE  t.issuedFor.scheme = p.scheme
<1> DEFINE first == t.issuedFor
<1>1. /\ first.scheme \in [type : STRING \ {""}, keyID : STRING]
      /\ lower(first.scheme.type) = "Bearer" => first.scheme = Bearer
      /\ p.scheme \in [type : STRING \ {""}, keyID : STRING]
      /\ lower(p.scheme.type) = "Bearer" => p.scheme = Bearer
  BY CallsAre DEF TokenInv
<1>2. t.type = TypeOf(first.scheme) /\ t.keyID = first.scheme.keyID
  BY DEF TokenInv
<1>3. t.type = first.scheme.type \/ (first.scheme = Bearer /\ lower(t.type) = "Bearer")
  BY <1>2 DEF TypeOf, lower
<1>4. t.type # ""
  BY <1>1, <1>3 DEF lower
<1>5. lower(t.type) = lower(p.scheme.type) /\ t.keyID = p.scheme.keyID
  BY <1>4 DEF matchesScheme
<1>6. CASE first.scheme = Bearer /\ lower(t.type) = "Bearer"
  BY <1>1, <1>5, <1>6
<1>7. CASE t.type = first.scheme.type
  <2>1. CASE lower(t.type) = "Bearer"
    BY <1>1, <1>5, <1>7, <2>1
  <2>2. CASE lower(t.type) # "Bearer"
    <3>1. first.scheme.type = p.scheme.type /\ first.scheme.keyID = p.scheme.keyID
      BY <1>2, <1>5, <1>7, <2>2 DEF lower
    <3>2. QED
      BY <1>1, <3>1, SchemesEqual
  <2>3. QED
    BY <2>1, <2>2
<1>8. QED
  BY <1>3, <1>6, <1>7

(* A token that matches a call was issued for one like it.                 *)
Alike(p, q) ==
    /\ p.assertion = q.assertion /\ HomeAccountID(p) = HomeAccountID(q)
    /\ p.tenant = q.tenant /\ p.scheme = q.scheme
    /\ p.extra = q.extra /\ p.clientClaims = q.clientClaims

LEMMA MatchTells ==
    ASSUME NEW t, TokenInv(t), NEW p \in Calls, spelling \in {"Bearer", "bearer"}, Matches(t, p)
    PROVE  /\ Alike(t.issuedFor, p)
           /\ NoRepeats(t.scopes) => ToSet(p.scopes) \subseteq ToSet(t.scopes)
<1> DEFINE first == t.issuedFor
<1>0. first \in Calls
  BY DEF TokenInv
<1>1. first.assertion = p.assertion /\ first.tenant = p.tenant
  BY DEF TokenInv, Matches
<1>2. first.scheme = p.scheme
  BY SchemeTells DEF Matches
<1>3. first.extra = p.extra /\ first.clientClaims = p.clientClaims
  <2>1. CacheExtKeyGenerator(first) = CacheExtKeyGenerator(p)
    BY DEF TokenInv, Matches
  <2>2. QED
    BY <1>0, <2>1, ComponentsTell
<1>4. HomeAccountID(first) = HomeAccountID(p)
  <2>1. first.kind = "obo" <=> p.kind = "obo"
    BY <1>0, <1>1, CallsAre
  <2>2. CASE p.kind = "obo"
    BY <1>1, <2>1, <2>2 DEF HomeAccountID
  <2>3. CASE p.kind # "obo"
    BY <2>3 DEF HomeAccountID, TokenInv, Matches
  <2>4. QED
    BY <2>2, <2>3
<1>5. NoRepeats(t.scopes) => ToSet(p.scopes) \subseteq ToSet(t.scopes)
  BY CallsAre, ScopesMatch DEF TokenInv, Matches
<1>6. QED
  BY <1>1, <1>2, <1>3, <1>4, <1>5 DEF Alike

(* And a token matches the call it was issued for if it holds its scopes.  *)
LEMMA AgainIs ==
    ASSUME NEW p \in Calls
    PROVE  LET again == Again(p)
           IN  /\ again.kind = "obo" <=> p.kind = "obo"
               /\ again.user = p.user /\ again.assertion = p.assertion
               /\ again.tenant = p.tenant /\ again.scopes = p.scopes /\ again.scheme = p.scheme
               /\ CacheExtKeyGenerator(again) = CacheExtKeyGenerator(p)
<1>1. PICK k \in {"silent", "code", "password", "fic", "app", "obo"},
           u \in Users \cup {NoUser}, a \in Assertions \cup {NoAssertion}, w \in Wishes :
        p = Call(k, u, a, w)
  BY DEF Calls, AppCalls, UserCalls, OboCalls
<1>2. Again(p) = [Call(k, u, a, w) EXCEPT !.claims = NoClaims,
                      !.kind = IF @ \in {"app", "obo"} THEN @ ELSE "silent"]
  BY <1>1 DEF Again
<1>3. QED
  BY <1>1, <1>2 DEF Call, CacheExtKeyGenerator, CacheKeyComponents

LEMMA FirstMatches ==
    ASSUME NEW t, TokenInv(t), spelling \in {"Bearer", "bearer"}, Findable(t),
           ToSet(t.issuedFor.scopes) \subseteq ToSet(t.scopes)
    PROVE  Matches(t, Again(t.issuedFor))
<1> DEFINE first == t.issuedFor
           again == Again(first)
<1>0. first \in Calls
  BY DEF TokenInv
<1>1. /\ again.kind = "obo" <=> first.kind = "obo"
      /\ again.user = first.user /\ again.assertion = first.assertion
      /\ again.tenant = first.tenant /\ again.scopes = first.scopes
      /\ again.scheme = first.scheme
      /\ CacheExtKeyGenerator(again) = CacheExtKeyGenerator(first)
  BY <1>0, AgainIs
<1>2. isMatchingScopes(again.scopes, t.scopes)
  BY <1>0, <1>1, CallsAre, ScopesMatch DEF TokenInv, Findable
<1>3. matchesScheme(t, again)
  <2>0. first.scheme = Bearer => first.scheme.type = "Bearer"
    <3>1. Bearer.type = "Bearer"
      BY DEF Bearer
    <3>2. QED
      BY <3>1
  <2>1. t.type = TypeOf(first.scheme) /\ t.keyID = first.scheme.keyID
    BY DEF TokenInv
  <2>2. CASE first.kind = "obo"
    <3>1. spelling = "Bearer"
      BY <1>0, <2>2, CallsAre, UserOfAssumption DEF Findable, TokenInv
    <3>2. t.type = first.scheme.type
      BY <2>0, <2>1, <3>1 DEF TypeOf
    <3>3. QED
      BY <1>1, <2>1, <2>2, <3>2 DEF matchesScheme
  <2>3. CASE first.kind # "obo"
    <3>1. lower(t.type) = lower(first.scheme.type)
      BY <2>0, <2>1 DEF TypeOf, lower
    <3>2. QED
      BY <1>1, <2>1, <2>3, <3>1 DEF matchesScheme
  <2>4. QED
    BY <2>2, <2>3
<1>4. again.kind # "obo" => t.home = again.user
  BY <1>1 DEF TokenInv, HomeAccountID
<1>5. QED
  BY <1>1, <1>2, <1>3, <1>4 DEF Matches, TokenInv

-----------------------------------------------------------------------------
(* What the service is asked, and the token that it issues.                *)

LEMMA ClashIsSymmetric == ASSUME NEW d, NEW e PROVE Clash(d, e) <=> Clash(e, d)
BY DEF Clash

LEMMA BodyIsRight ==
    ASSUME NEW p \in Calls, NEW refreshing \in BOOLEAN, NEW credential,
           p.extra # {} => p.kind = "app" /\ ~refreshing
    PROVE  SentRight(Body(p, credential, refreshing), p)
<1> DEFINE merged == mergeClaims(p.claims, p.clientClaims)
           sent == Body(p, credential, refreshing)
<1>1. /\ p.clientClaims \subseteq merged
      /\ \A d \in p.claims : d \in merged \/ \E c \in p.clientClaims : Clash(c, d)
  <2>1. CASE p.claims = {} \/ p.clientClaims = {}
    BY <2>1 DEF mergeClaims
  <2>2. CASE ~(p.claims = {} \/ p.clientClaims = {})
    BY <2>2, ClashIsSymmetric DEF mergeClaims, deepMergeClaims
  <2>3. QED
    BY <2>1, <2>2
<1>2. sent.claims = Capabilities \cup merged
  BY DEF Body, MergeCapabilitiesAndClaims
<1>3. sent.extra = {e \in p.extra : e[2] # Empty}
  <2>1. \A e \in p.extra : addsExtra(p, credential, refreshing)
    BY DEF addsExtra
  <2>2. sent.extra = {e \in p.extra : addsExtra(p, credential, refreshing) /\ e[2] # Empty}
    BY DEF Body
  <2>3. QED
    BY <2>1, <2>2
<1>4. QED
  BY <1>1, <1>2, <1>3 DEF SentRight

LEMMA NewTokenInv ==
    ASSUME CallInv, pc # "idle", NEW r \in Replies
    PROVE  /\ TokenInv(NewAccessToken(r))
           /\ NewAccessToken(r).issuedFor = call
           /\ ~Declined(r) => ToSet(call.scopes) \subseteq ToSet(NewAccessToken(r).scopes)
<1> DEFINE t == NewAccessToken(r)
<1>1. call \in Calls /\ Offered(call)
  BY DEF CallInv
<1>2. /\ t.issuedFor = call /\ t.assertion = call.assertion /\ t.home = HomeAccountID(call)
      /\ t.realm = call.tenant /\ t.keyID = call.scheme.keyID /\ t.type = TokenType
      /\ t.extCacheKey = CacheExtKeyGenerator(call)
      /\ t.scopes = ComputeScope(call, Scope(r))
      /\ cred # "provider" => t.sent = Body(call, cred, Refreshing)
  BY DEF NewAccessToken
<1>3. Scopes(t.scopes) /\ (~Declined(r) => ToSet(call.scopes) \subseteq ToSet(t.scopes))
  BY <1>1, <1>2, GrantedScopes
<1>4. cred # "provider" => SentRight(t.sent, call)
  <2>1. call.extra # {} => call.kind = "app"
    BY <1>1 DEF Offered, TakesExtra
  <2>2. call.extra # {} => ~Refreshing
    BY <2>1 DEF CallInv
  <2>3. Refreshing \in BOOLEAN
    BY DEF Refreshing
  <2>4. QED
    BY <1>1, <1>2, <2>1, <2>2, <2>3, BodyIsRight
<1>5. t.type = TypeOf(call.scheme)
  BY <1>2 DEF TokenType, TypeOf
<1>6. QED
  BY <1>1, <1>2, <1>3, <1>4, <1>5 DEF TokenInv

-----------------------------------------------------------------------------
(* What a call is served.                                                  *)

Serves(t, p) ==
    /\ Alike(t.issuedFor, p)
    /\ NoRepeats(t.scopes) => ToSet(p.scopes) \subseteq ToSet(t.scopes)
    /\ cred # "provider" => SentRight(t.sent, p)

(* Only tokens that no one sent claims for are served from the cache.      *)
LEMMA HitServes ==
    ASSUME NEW t, TokenInv(t), NEW p \in Calls, spelling \in {"Bearer", "bearer"},
           Matches(t, p), p.claims = NoClaims
    PROVE  /\ Serves(t, p)
           /\ AccountOf(t) \in {NoUser, HomeAccountID(p)}
<1>1. /\ Alike(t.issuedFor, p)
      /\ NoRepeats(t.scopes) => ToSet(p.scopes) \subseteq ToSet(t.scopes)
  BY MatchTells
<1>2. cred # "provider" => SentRight(t.sent, p)
  BY <1>1 DEF TokenInv, Alike, SentRight, NoClaims
<1>3. AccountOf(t) \in {NoUser, HomeAccountID(p)}
  BY <1>1 DEF TokenInv, Alike, AccountOf
<1>4. QED
  BY <1>1, <1>2, <1>3 DEF Serves

(* And they can be found again.                                            *)
LEMMA HitAgain ==
    ASSUME NEW t, NEW p \in Calls, Matches(t, p)
    PROVE  Matches(t, Again(p))
BY AgainIs DEF Matches, matchesScheme

LEMMA NewServes ==
    ASSUME CallInv, pc # "idle", NEW r \in Replies, ~Declined(r)
    PROVE  LET t == NewAccessToken(r)
           IN  /\ Serves(t, call)
               /\ t.home \in {NoUser, HomeAccountID(call)}
               /\ Findable(t) => Matches(t, Again(call))
<1>1. /\ TokenInv(NewAccessToken(r))
      /\ NewAccessToken(r).issuedFor = call
      /\ ToSet(call.scopes) \subseteq ToSet(NewAccessToken(r).scopes)
  BY NewTokenInv
<1>2. Findable(NewAccessToken(r)) => Matches(NewAccessToken(r), Again(call))
  BY <1>1, FirstMatches DEF CallInv
<1>3. QED
  BY <1>1, <1>2 DEF Serves, Alike, TokenInv

-----------------------------------------------------------------------------
(* The invariant.                                                          *)

LEMMA InitInv == Init => Inv
BY ServiceAssumption DEF Init, Inv, CallInv, ServedWhatWasAsked, AgainInv, Refreshing

LEMMA TokenInvStays ==
    ASSUME UNCHANGED setup
    PROVE  \A t : TokenInv(t) => TokenInv(t)'
BY DEF setup, TokenInv, TypeOf

LEMMA OfferedStays ==
    ASSUME UNCHANGED setup
    PROVE  \A p : Offered(p) => Offered(p)'
BY DEF setup, Offered, Methods, TakesExtra, TakesScheme, TakesClientClaims, TakesClaims

LEMMA SetupStays == Next => UNCHANGED setup
BY DEF Next, Ask, Hit, Start, UserRealm, Mex, SAMLTokenInfo, GoOn, BreakOff, Answer, Fail, Return

LEMMA CallInvStep == ASSUME CallInv, Next PROVE CallInv'
<1>0. UNCHANGED setup /\ spelling' = spelling
  BY SetupStays DEF setup
<1>1. ASSUME NEW p \in Calls, Ask(p) PROVE CallInv'
  <2>1. call' = p /\ Offered(p)'
    BY <1>0, <1>1, OfferedStays DEF Ask, Start
  <2>2. Offered(call)'
    BY <2>1 DEF Offered, TakesExtra, TakesScheme, TakesClientClaims, TakesClaims
  <2>3. pc' = "refreshing" => p.kind \in {"silent", "obo"}
    BY <1>1 DEF Ask, HasRefreshToken
  <2>4. QED
    BY <1>0, <2>1, <2>2, <2>3 DEF CallInv, Refreshing
<1>2. ASSUME NEW p \in Calls, NEW t \in tokens, Hit(p, t) PROVE CallInv'
  <2>1. call' = p /\ Offered(p)' /\ pc' = "done"
    BY <1>0, <1>2, OfferedStays DEF Hit, Start
  <2>2. Offered(call)'
    BY <2>1 DEF Offered, TakesExtra, TakesScheme, TakesClientClaims, TakesClaims
  <2>3. QED
    BY <1>0, <2>1, <2>2 DEF CallInv, Refreshing
<1>3. ASSUME pc' = "idle" PROVE CallInv'
  BY <1>0, <1>3 DEF CallInv, Refreshing
<1>4. ASSUME call' = call, pc # "idle", pc' # "refreshing" PROVE CallInv'
  <2>1. Offered(call)'
    BY <1>0, <1>4 DEF CallInv, setup, Offered, Methods, TakesExtra, TakesScheme,
                      TakesClientClaims, TakesClaims
  <2>2. QED
    BY <1>0, <1>4, <2>1 DEF CallInv, Refreshing
<1>5. ASSUME GiveUp, pc # "idle" PROVE CallInv'
  BY <1>3, <1>4, <1>5 DEF GiveUp
<1>6. ASSUME NEW realm \in Realms, UserRealm(realm) PROVE CallInv'
  BY <1>4, <1>5, <1>6 DEF UserRealm, GoOn, BreakOff
<1>7. ASSUME NEW document \in Documents, Mex(document) PROVE CallInv'
  BY <1>4, <1>5, <1>7 DEF Mex, GoOn, BreakOff
<1>8. ASSUME NEW answer \in Issued, SAMLTokenInfo(answer) PROVE CallInv'
  BY <1>4, <1>5, <1>8 DEF SAMLTokenInfo, GoOn, BreakOff
<1>9. ASSUME NEW r \in Replies, Answer(r) PROVE CallInv'
  BY <1>4, <1>5, <1>9 DEF Answer
<1>10. CASE Fail
  BY <1>5, <1>10 DEF Fail
<1>11. CASE Return
  BY <1>3, <1>11 DEF Return
<1>12. QED
  BY <1>1, <1>2, <1>6, <1>7, <1>8, <1>9, <1>10, <1>11 DEF Next

LEMMA TokensStep == ASSUME Inv, Next PROVE \A t \in tokens' : TokenInv(t)'
<1>0. UNCHANGED setup
  BY SetupStays
<1>1. CASE UNCHANGED tokens
  BY <1>0, <1>1, TokenInvStays DEF Inv
<1>2. ASSUME NEW r \in Replies, Answer(r) PROVE \A t \in tokens' : TokenInv(t)'
  <2>1. TokenInv(NewAccessToken(r))
    BY <1>2, NewTokenInv DEF Inv, Answer
  <2>2. \/ tokens' = tokens
        \/ tokens' = Put(NewAccessToken(r))
    BY <1>2 DEF Answer, PartitionedWrite, ManagerWrite
  <2>3. tokens' \subseteq tokens \cup {NewAccessToken(r)}
    BY <2>2 DEF Put
  <2>4. \A t \in tokens' : TokenInv(t)
    BY <2>1, <2>3 DEF Inv
  <2>5. QED
    BY <1>0, <2>4, TokenInvStays
<1>3. QED
  BY <1>1, <1>2 DEF Next, Ask, Hit, Start, UserRealm, Mex, SAMLTokenInfo, GoOn, BreakOff, Fail,
                    Return, cache

(* Whatever ends a call well: the token is right.                          *)
DoneRight(t, p, account) ==
    /\ TokenInv(t)
    /\ Serves(t, p) /\ account \in {NoUser, HomeAccountID(p)}
    /\ Findable(t) => Matches(t, Again(p))

LEMMA DoneRightStays ==
    ASSUME UNCHANGED setup
    PROVE  \A t, p, account : DoneRight(t, p, account) => DoneRight(t, p, account)'
BY DEF setup, DoneRight, TokenInv, TypeOf, Serves, Findable

LEMMA DoneStep ==
    ASSUME Inv, Next, pc' = "done"
    PROVE  DoneRight(result'.token, call', result'.account)
<1>1. ASSUME NEW p \in Calls, NEW t \in tokens, Hit(p, t)
      PROVE  DoneRight(result'.token, call', result'.account)
  <2>1. /\ call' = p /\ result' = [token |-> t, account |-> AccountOf(t)]
        /\ p.claims = NoClaims /\ Matches(t, p)
    BY <1>1 DEF Hit, Start, Cached, Found
  <2>2. TokenInv(t) /\ spelling \in {"Bearer", "bearer"}
    BY DEF Inv, CallInv
  <2>3. QED
    BY <2>1, <2>2, HitServes, HitAgain DEF DoneRight
<1>2. ASSUME NEW r \in Replies, Answer(r)
      PROVE  DoneRight(result'.token, call', result'.account)
  <2>1. CallInv /\ pc # "idle"
    BY <1>2 DEF Inv, Answer
  <2>2. ~Declined(r) /\ call' = call
        /\ result' = [token |-> NewAccessToken(r), account |-> NewAccessToken(r).home]
    BY <1>2 DEF Answer, GiveUp
  <2>3. QED
    BY <2>1, <2>2, NewServes, NewTokenInv DEF DoneRight
<1>3. ASSUME GiveUp PROVE FALSE
  BY <1>3 DEF GiveUp
<1>4. ASSUME NEW p \in Calls, Ask(p) PROVE FALSE
  BY <1>4 DEF Ask
<1>5. QED
  BY <1>1, <1>2, <1>3, <1>4
     DEF Next, UserRealm, Mex, SAMLTokenInfo, GoOn, BreakOff, Fail, Return

LEMMA InvStep == Inv /\ [Next]_vars => Inv'
<1> SUFFICES ASSUME Inv, [Next]_vars PROVE Inv'
  OBVIOUS
<1>1. CASE UNCHANGED vars
  BY <1>1 DEF vars, Inv, CallInv, Refreshing, TokenInv, TypeOf, ServedWhatWasAsked, AgainInv,
              Findable, Offered, Methods, TakesExtra, TakesScheme, TakesClientClaims, TakesClaims
<1>2. CASE Next
  <2>1. UNCHANGED setup /\ CallInv' /\ \A t \in tokens' : TokenInv(t)'
    BY <1>2, SetupStays, CallInvStep, TokensStep DEF Inv
  <2>2. pc' = "done" => DoneRight(result.token, call, result.account)'
    BY <1>2, <2>1, DoneStep, DoneRightStays
  <2>3. AgainInv' /\ (pc' = "done" => TokenInv(result.token)')
    BY <2>2 DEF DoneRight, AgainInv
  <2>4. ServedWhatWasAsked'
    BY <2>2 DEF DoneRight, Serves, Alike, SentRight, ServedWhatWasAsked
  <2>5. QED
    BY <2>1, <2>3, <2>4 DEF Inv
<1>3. QED
  BY <1>1, <1>2

LEMMA Invariant == Spec => []Inv
BY InitInv, InvStep, PTL DEF Spec

(* Every call that succeeds returns a token that it would have been issued *)
(* itself, with all that it asked for sent to the service, whatever else   *)
(* the client was called for before, and from whichever cache the token    *)
(* comes (AcquireTokenSilent, base.go:352-431, and AuthResultFromToken).   *)
THEOREM ServedRight == Spec => []ServedWhatWasAsked
<1>1. Inv => ServedWhatWasAsked
  BY DEF Inv
<1>2. QED
  BY <1>1, Invariant, PTL

(* What a call has stored the same call finds again, and no token takes    *)
(* another's place without serving its calls: the keys of the cache        *)
(* (AccessToken.Key) and the matches of a read (readAccessToken) agree.    *)
THEOREM KeysMatch == Spec => KeysMatchReads
<1>1. Inv => Refound
  <2> SUFFICES ASSUME Inv, pc = "done", result.token \in tokens, Findable(result.token)
               PROVE  Found(Again(call)) # {}
    BY DEF Refound
  <2>1. QED
    BY DEF Inv, AgainInv, Found
<1> DEFINE Replaced ==
        \A t \in tokens \ tokens' : \A p \in {q \in Calls : Matches(t, q)} :
           \E u \in tokens' : Matches(u, p) \/ OtherKey(t, u)
<1>2. Inv /\ [Next]_vars => Replaced
  <2> SUFFICES ASSUME Inv, [Next]_vars, NEW t \in tokens \ tokens', NEW p \in Calls, Matches(t, p)
               PROVE  \E u \in tokens' : Matches(u, p) \/ OtherKey(t, u)
    OBVIOUS
  <2>1. PICK r \in Replies : Answer(r)
    BY DEF Next, Ask, Hit, Start, UserRealm, Mex, SAMLTokenInfo, GoOn, BreakOff, Fail, Return,
           cache, vars
  <2> DEFINE u == NewAccessToken(r)
  <2>2. u \in tokens' /\ Key(t) = Key(u)
    <3>1. tokens' = tokens \/ tokens' = Put(u)
      BY <2>1 DEF Answer, PartitionedWrite, ManagerWrite
    <3>2. QED
      BY <3>1 DEF Put
  <2>3. /\ t.assertion = u.assertion /\ t.home = u.home /\ t.realm = u.realm
        /\ t.scopes = u.scopes /\ t.extCacheKey = u.extCacheKey
        /\ lower(t.type) = lower(u.type)
    BY <2>2 DEF Key
  <2>4. TokenInv(t) /\ TokenInv(u) /\ spelling \in {"Bearer", "bearer"}
    BY <2>1, NewTokenInv DEF Inv, CallInv, Answer
  <2>5. t.type = u.type
    <3>1. ASSUME NEW x, TokenInv(x), lower(x.type) = "Bearer" PROVE x.type = TypeOf(Bearer)
      <4>1. x.issuedFor.scheme = Bearer
        BY <2>4, <3>1, CallsAre DEF TokenInv, TypeOf, lower
      <4>2. QED
        BY <3>1, <4>1 DEF TokenInv
    <3>2. CASE lower(t.type) = "Bearer"
      BY <2>3, <2>4, <3>1, <3>2
    <3>3. CASE lower(t.type) # "Bearer"
      BY <2>3, <3>3 DEF lower
    <3>4. QED
      BY <3>2, <3>3
  <2>6. Matches(u, p) \/ OtherKey(t, u)
    BY <2>3, <2>5 DEF Matches, matchesScheme, OtherKey
  <2>7. QED
    BY <2>2, <2>6
<1>3. QED
  BY <1>1, <1>2, Invariant, PTL DEF Spec, KeysMatchReads
-----------------------------------------------------------------------------
(* Induction over numbers, from the fact that no sequence of finite sets   *)
(* shrinks for ever.                                                       *)

LEMMA FiniteInterval == ASSUME NEW a \in Int, NEW b \in Int PROVE IsFiniteSet(a..b)
BY FS_Interval

(* Of some numbers up to n one has none of them below it.                  *)
LEMMA LeastNumber ==
    ASSUME NEW T, T \subseteq Nat, T # {}
    PROVE  \E i \in T : \A j \in T : i <= j
<1> DEFINE Below == {0..i : i \in T}
<1>1. Below \subseteq FiniteSubsetsOf(Nat) /\ Below # {}
  <2>1. ASSUME NEW i \in T PROVE IsFiniteSet(0..i) /\ 0..i \subseteq Nat
    BY FiniteInterval
  <2>2. QED
    BY <2>1 DEF FiniteSubsetsOf
<1>2. PICK x \in Below : \A y \in Below : <<y, x>> \notin StrictSubsetOrdering(Nat)
  <2> HIDE DEF Below
  <2>1. QED
    BY <1>1, FS_StrictSubsetOrderingWellFounded, WFMin
<1>3. PICK i \in T : x = 0..i
  BY <1>2
<1>4. ASSUME NEW j \in T, j < i PROVE FALSE
  <2>1. 0..j \subseteq 0..i /\ i \in 0..i /\ i \notin 0..j
    BY <1>4
  <2>2. <<0..j, 0..i>> \in StrictSubsetOrdering(Nat)
    BY <2>1 DEF StrictSubsetOrdering
  <2>3. QED
    BY <1>2, <1>3, <2>2
<1>5. QED
  BY <1>4

LEMMA UpTo ==
    ASSUME NEW n \in Nat, NEW S, 0 \in S, \A i \in S : i \in 0..n - 1 => i + 1 \in S
    PROVE  0..n \subseteq S
<1> SUFFICES ASSUME (0..n) \ S # {} PROVE FALSE
  OBVIOUS
<1>1. PICK i \in (0..n) \ S : \A j \in (0..n) \ S : i <= j
  <2>1. (0..n) \ S \subseteq Nat
    OBVIOUS
  <2>2. QED
    BY <2>1, LeastNumber
<1>2. i \in 1..n /\ i \notin S
  BY <1>1
<1>3. i - 1 \in 0..n - 1 /\ i - 1 \in S
  BY <1>1, <1>2
<1>4. QED
  BY <1>2, <1>3

(* The last one, of some places of a sequence.                             *)
LEMMA MaxIsGreatest ==
    ASSUME NEW n \in Nat, NEW S, S \subseteq 1..n, S # {}
    PROVE  Max(S) \in S /\ \A i \in S : i <= Max(S)
<1> DEFINE T == {n - i : i \in S}
<1>1. T \subseteq Nat /\ T # {}
  <2>1. ASSUME NEW i \in S PROVE n - i \in Nat
    OBVIOUS
  <2>2. QED
    BY <2>1
<1>2. PICK k \in T : \A j \in T : k <= j
  <2> HIDE DEF T
  <2>1. QED
    BY <1>1, LeastNumber
<1>3. PICK i \in S : k = n - i
  BY <1>2
<1>4. \A j \in S : i >= j
  BY <1>2, <1>3
<1>5. QED
  BY <1>4 DEF Max

-----------------------------------------------------------------------------
(* The endpoint of a federation's document.                                *)

(* The endpoints found port by port are a function.                        *)
LEMMA EndpointsExist ==
    ASSUME NEW doc, Len(doc.ports) \in Nat
    PROVE  \E f : f = [n \in 0..Len(doc.ports) |->
               IF n = 0 THEN NoEndpoint ELSE UsePort(doc, f[n - 1], doc.ports[n])]
<1> DEFINE Next0(f, n) == IF n = 0 THEN NoEndpoint ELSE UsePort(doc, f[n - 1], doc.ports[n])
           N == Len(doc.ports)
           S == {k \in 0..N : \E f : f = [n \in 0..k |-> Next0(f, n)]}
<1>1. 0 \in S
  <2> DEFINE f == [n \in 0..0 |-> NoEndpoint]
  <2>1. f = [n \in 0..0 |-> Next0(f, n)]
    OBVIOUS
  <2>2. 0 \in 0..N
    OBVIOUS
  <2>3. QED
    <3> HIDE DEF Next0, f
    <3>1. QED
      BY <2>1, <2>2
<1>2. ASSUME NEW k \in S, k \in 0..N - 1 PROVE k + 1 \in S
  <2>1. PICK f : f = [n \in 0..k |-> Next0(f, n)]
    OBVIOUS
  <2> DEFINE g == [n \in 0..k + 1 |-> IF n = k + 1 THEN UsePort(doc, f[k], doc.ports[k + 1]) ELSE f[n]]
  <2>2. ASSUME NEW n \in 0..k + 1 PROVE g[n] = Next0(g, n)
    <3>1. CASE n = k + 1
      BY <3>1, <1>2
    <3>2. CASE n \in 0..k
      <4>1. g[n] = f[n] /\ f[n] = Next0(f, n)
        BY <2>1, <3>2, <1>2
      <4>2. n # 0 => g[n - 1] = f[n - 1]
        BY <3>2, <1>2
      <4>3. QED
        BY <4>1, <4>2
    <3>3. QED
      BY <3>1, <3>2, <1>2
  <2>3. g = [n \in 0..k + 1 |-> Next0(g, n)]
    <3> HIDE DEF Next0
    <3>1. QED
      BY <2>2
  <2>4. k + 1 \in 0..N
    BY <1>2
  <2>5. QED
    <3> HIDE DEF Next0, g
    <3>1. QED
      BY <2>3, <2>4
<1>3. N \in S
  <2> HIDE DEF S
  <2>1. 0..N \subseteq S
    BY <1>1, <1>2, UpTo
  <2>2. QED
    BY <2>1
<1>4. QED
  BY <1>3

(* The endpoint of a document is the last of those that its loop goes      *)
(* through.                                                                *)
LEMMA EndpointsFound ==
    ASSUME NEW doc, Len(doc.ports) \in Nat
    PROVE  \E f : /\ f[0] = NoEndpoint
                  /\ \A n \in 1..Len(doc.ports) : f[n] = UsePort(doc, f[n - 1], doc.ports[n])
                  /\ UsernamePasswordEndpoint(doc) = f[Len(doc.ports)]
<1> DEFINE found[n \in 0..Len(doc.ports)] ==
            IF n = 0 THEN NoEndpoint ELSE UsePort(doc, found[n - 1], doc.ports[n])
<1>1. UsernamePasswordEndpoint(doc) = found[Len(doc.ports)]
  BY DEF UsernamePasswordEndpoint
<1>2. found = [n \in 0..Len(doc.ports) |->
                 IF n = 0 THEN NoEndpoint ELSE UsePort(doc, found[n - 1], doc.ports[n])]
  BY EndpointsExist
<1>3. QED
  <2> HIDE DEF found
  <2>1. found[0] = NoEndpoint
    BY <1>2
  <2>2. ASSUME NEW n \in 1..Len(doc.ports)
        PROVE  found[n] = UsePort(doc, found[n - 1], doc.ports[n])
    BY <1>2
  <2>3. QED
    BY <1>1, <2>1, <2>2

(* A document as its services answer.                                      *)
Documented(doc) ==
    /\ doc.policies \in Seq(ToSet(doc.policies))
    /\ doc.bindings \in Seq(ToSet(doc.bindings))
    /\ doc.ports \in Seq(ToSet(doc.ports))

(* A port, by its number, that a name and a password can be sent to.       *)
TakesPassword(doc, n) ==
    LET b == doc.ports[n].binding
    IN  b \in DOMAIN bindings(doc) /\ bindings(doc)[b].type = "password"
VersionAt(doc, n) == bindings(doc)[doc.ports[n].binding].version

(* The policy of an ID is one that the document has by that ID, and so is  *)
(* the binding of a name.                                                  *)
LEMMA LastPolicyIs ==
    ASSUME NEW doc, Documented(doc), NEW id \in DOMAIN policies(doc)
    PROVE  \E i \in usable(doc) : doc.policies[i].id = id /\ LastPolicy(doc, id) = doc.policies[i]
<1> DEFINE S == {i \in usable(doc) : doc.policies[i].id = id}
<1>1. S \subseteq 1..Len(doc.policies) /\ Len(doc.policies) \in Nat
  BY DEF Documented, usable
<1>2. S # {}
  BY DEF policies
<1>3. Max(S) \in S
  <2> HIDE DEF S
  <2>1. QED
    BY <1>1, <1>2, MaxIsGreatest
<1>4. QED
  BY <1>3 DEF LastPolicy

LEMMA LastBindingIs ==
    ASSUME NEW doc, Documented(doc), NEW name \in DOMAIN bindings(doc)
    PROVE  \E i \in Bound(doc) :
              doc.bindings[i].name = name /\ LastBinding(doc, name) = doc.bindings[i]
<1> DEFINE S == {i \in Bound(doc) : doc.bindings[i].name = name}
<1>1. S \subseteq 1..Len(doc.bindings) /\ Len(doc.bindings) \in Nat
  BY DEF Documented, Bound
<1>2. S # {}
  BY DEF bindings
<1>3. Max(S) \in S
  <2> HIDE DEF S
  <2>1. QED
    BY <1>1, <1>2, MaxIsGreatest
<1>4. QED
  BY <1>3 DEF LastBinding

(* A port that takes passwords is one that the document lists.             *)
LEMMA PortIsListed ==
    ASSUME NEW doc, Documented(doc), ValidDocument(doc),
           NEW n \in 1..Len(doc.ports), TakesPassword(doc, n)
    PROVE  /\ VersionAt(doc, n) \in {"1.3", "2005"}
           /\ doc.ports[n].url \in Listed(doc, VersionAt(doc, n))
<1> DEFINE p == doc.ports[n]
<1>1. PICK i \in Bound(doc) : /\ doc.bindings[i].name = p.binding
                              /\ LastBinding(doc, p.binding) = doc.bindings[i]
  BY LastBindingIs DEF TakesPassword
<1> DEFINE b == doc.bindings[i]
<1>2. VersionAt(doc, n) = b.spec /\ policies(doc)[b.policy] = "password"
  BY <1>1 DEF VersionAt, TakesPassword, bindings
<1>3. b.http /\ b.policy \in DOMAIN policies(doc) /\ b.spec \in {"1.3", "2005"}
  BY <1>1 DEF Bound, ValidDocument
<1>4. PICK k \in usable(doc) : /\ doc.policies[k].id = b.policy
                               /\ LastPolicy(doc, b.policy) = doc.policies[k]
  BY <1>3, LastPolicyIs
<1> DEFINE q == doc.policies[k]
<1>5. Usable(q) /\ q.password
  BY <1>2, <1>3, <1>4 DEF usable, policies
<1>6. p \in ToSet(doc.ports) /\ b \in ToSet(doc.bindings) /\ q \in ToSet(doc.policies)
  BY <1>1, <1>4 DEF ToSet, Documented, Bound, usable
<1>7. p.url \in Listed(doc, b.spec)
  <2> HIDE DEF p, b, q
  <2>1. p.binding = b.name /\ b.policy = q.id
    BY <1>1, <1>4 DEF p, b, q
  <2>2. QED
    BY <1>3, <1>5, <1>6, <2>1 DEF Listed
<1>8. QED
  BY <1>2, <1>3, <1>7

(* What an unambiguous document lists a port leads to.                     *)
LEMMA ListedIsPort ==
    ASSUME NEW doc, Documented(doc), Unambiguous(doc),
           NEW version, Listed(doc, version) # {}
    PROVE  \E n \in 1..Len(doc.ports) : TakesPassword(doc, n) /\ VersionAt(doc, n) = version
<1>1. PICK p \in ToSet(doc.ports), b \in ToSet(doc.bindings), q \in ToSet(doc.policies) :
        /\ p.binding = b.name /\ b.http /\ b.spec = version
        /\ b.policy = q.id /\ Usable(q) /\ q.password
  BY DEF Listed
<1>2. PICK n \in 1..Len(doc.ports), i \in DOMAIN doc.bindings, k \in DOMAIN doc.policies :
        p = doc.ports[n] /\ b = doc.bindings[i] /\ q = doc.policies[k]
  <2>1. DOMAIN doc.ports = 1..Len(doc.ports)
    BY DEF Documented
  <2>2. QED
    BY <2>1 DEF ToSet
<1>3. /\ \A j \in DOMAIN doc.policies : doc.policies[j].id = q.id => j = k
      /\ \A j \in DOMAIN doc.bindings : doc.bindings[j].name = b.name => j = i
  BY <1>2 DEF Unambiguous, Distinct
<1>4. k \in usable(doc) /\ q.id \in DOMAIN policies(doc)
  BY <1>1, <1>2 DEF usable, policies
<1>5. policies(doc)[q.id] = "password"
  <2>1. LastPolicy(doc, q.id) = q
    BY <1>2, <1>3, <1>4, LastPolicyIs DEF usable
  <2>2. QED
    BY <1>1, <1>4, <2>1 DEF policies
<1>6. i \in Bound(doc) /\ b.name \in DOMAIN bindings(doc)
  BY <1>1, <1>2, <1>4 DEF Bound, bindings
<1>7. LastBinding(doc, b.name) = b
  BY <1>2, <1>3, <1>6, LastBindingIs DEF Bound
<1>8. bindings(doc)[b.name].version = version /\ bindings(doc)[b.name].type = "password"
  BY <1>1, <1>5, <1>6, <1>7 DEF bindings
<1>9. QED
  BY <1>1, <1>2, <1>6, <1>8 DEF TakesPassword, VersionAt

(* The endpoint after n ports.                                             *)
EndpointInv(doc, n, e) ==
    /\ e = NoEndpoint \/ (e.version \in {"1.3", "2005"} /\ e.url \in Listed(doc, e.version))
    /\ \A k \in 1..n : TakesPassword(doc, k) /\ VersionAt(doc, k) = "1.3" => e.version = "1.3"

(* Each port keeps it so.                                                  *)
LEMMA EndpointStep ==
    ASSUME NEW doc, Documented(doc), ValidDocument(doc),
           NEW n \in 0..Len(doc.ports) - 1, NEW e, EndpointInv(doc, n, e)
    PROVE  EndpointInv(doc, n + 1, UsePort(doc, e, doc.ports[n + 1]))
<1> DEFINE m == n + 1
           f == [version |-> VersionAt(doc, m), url |-> doc.ports[m].url]
<1>1. m \in 1..Len(doc.ports) /\ \A k \in 1..m : k = m \/ k \in 1..n
  BY DEF Documented
<1>2. CASE TakesPassword(doc, m)
  <2>1. UsePort(doc, e, doc.ports[m]) = updateEndpoint(e, f)
    BY <1>2 DEF UsePort, TakesPassword, VersionAt
  <2>2. f.version \in {"1.3", "2005"} /\ f.url \in Listed(doc, f.version)
    BY <1>1, <1>2, PortIsListed
  <2>3. f.version = VersionAt(doc, m)
    OBVIOUS
  <2>4. NoEndpoint.version = None
    BY DEF NoEndpoint
  <2>5. EndpointInv(doc, m, updateEndpoint(e, f))
    <3> HIDE DEF m, f
    <3>1. QED
      BY <1>1, <2>2, <2>3, <2>4, NoneAssumption DEF EndpointInv, updateEndpoint
  <2>6. QED
    BY <2>1, <2>5
<1>3. CASE ~TakesPassword(doc, m)
  <2>1. UsePort(doc, e, doc.ports[m]) = e
    BY <1>3 DEF UsePort, TakesPassword
  <2>2. EndpointInv(doc, m, e)
    BY <1>1, <1>3 DEF EndpointInv
  <2>3. QED
    BY <2>1, <2>2
<1>4. QED
  BY <1>2, <1>3

(* Whatever order policies, bindings and ports stand in.                   *)
LEMMA EndpointIsRight ==
    ASSUME NEW doc, Documented(doc), ValidDocument(doc)
    PROVE  EndpointInv(doc, Len(doc.ports), UsernamePasswordEndpoint(doc))
<1> DEFINE N == Len(doc.ports)
<1>0. N \in Nat
  BY DEF Documented
<1>1. PICK f : /\ f[0] = NoEndpoint
               /\ \A n \in 1..N : f[n] = UsePort(doc, f[n - 1], doc.ports[n])
               /\ UsernamePasswordEndpoint(doc) = f[N]
  BY <1>0, EndpointsFound
<1> DEFINE S == {n \in 0..N : EndpointInv(doc, n, f[n])}
<1>2. 0 \in S
  BY <1>0, <1>1 DEF EndpointInv
<1>3. ASSUME NEW n \in S, n \in 0..N - 1 PROVE n + 1 \in S
  <2>1. n + 1 \in 1..N /\ n + 1 \in 0..N /\ (n + 1) - 1 = n
    BY <1>0, <1>3
  <2>2. f[n + 1] = UsePort(doc, f[n], doc.ports[n + 1])
    BY <1>1, <2>1
  <2>3. EndpointInv(doc, n + 1, f[n + 1])
    BY <1>3, <2>2, EndpointStep
  <2>4. QED
    BY <2>1, <2>3
<1>4. 0..N \subseteq S
  <2> HIDE DEF S
  <2>1. QED
    BY <1>0, <1>2, <1>3, UpTo
<1>5. N \in S
  BY <1>0, <1>4
<1>6. QED
  BY <1>1, <1>5

(* A federated login: its document is valid, its endpoint the document's.  *)
LoginInv ==
    /\ login = [document |-> login.document, endpoint |-> login.endpoint,
                grant |-> login.grant]
    /\ login.document # None =>
          /\ login.document \in Documents
          /\ ValidDocument(login.document)
          /\ login.endpoint = UsernamePasswordEndpoint(login.document)

LEMMA LoginStays == Spec => []LoginInv
<1>1. Init => LoginInv
  BY DEF Init, NoLogin, LoginInv
<1>2. LoginInv /\ [Next]_vars => LoginInv'
  <2> SUFFICES ASSUME LoginInv, [Next]_vars PROVE LoginInv'
    OBVIOUS
  <2>1. CASE login' = login
    BY <2>1 DEF LoginInv
  <2>2. CASE login' = NoLogin
    BY <2>2 DEF NoLogin, LoginInv
  <2>3. ASSUME NEW grant, login' = [login EXCEPT !.grant = grant] PROVE LoginInv'
    BY <2>3 DEF LoginInv
  <2>4. ASSUME NEW document \in Documents, ValidDocument(document),
               login' = [login EXCEPT !.document = document,
                                      !.endpoint = UsernamePasswordEndpoint(document)]
        PROVE  LoginInv'
    BY <2>4 DEF LoginInv
  <2>5. QED
    BY <2>1, <2>2, <2>3, <2>4
       DEF Next, vars, Ask, Hit, Start, UserRealm, Mex, SAMLTokenInfo, GoOn, BreakOff, GiveUp,
           Answer, Fail, Return
<1>3. QED
  BY <1>1, <1>2, PTL DEF Spec

(* The password of a federated user goes to a port that the federation's   *)
(* document lists for passwords, over WS-Trust 1.3 if there is such a port *)
(* at all, whatever documents there are: the maps that policies and        *)
(* bindings fill and the loop of endpoints over the ports agree            *)
(* (wstrust_mex_document.go:74-159).                                       *)
THEOREM PasswordsGoRight == Spec => []PasswordGoesWhereOffered
<1>1. LoginInv => PasswordGoesWhereOffered
  <2> SUFFICES ASSUME LoginInv, login.document # None
               PROVE  LET doc == login.document
                          e   == login.endpoint
                      IN  /\ e = NoEndpoint \/ e.url \in Listed(doc, e.version)
                          /\ Unambiguous(doc) /\ Listed(doc, "1.3") # {} => e.version = "1.3"
    BY DEF PasswordGoesWhereOffered
  <2> DEFINE doc == login.document
  <2>1. Documented(doc) /\ ValidDocument(doc)
        /\ login.endpoint = UsernamePasswordEndpoint(doc)
    BY DocumentsAssumption DEF LoginInv, Documented
  <2>2. EndpointInv(doc, Len(doc.ports), login.endpoint)
    BY <2>1, EndpointIsRight
  <2>3. Unambiguous(doc) /\ Listed(doc, "1.3") # {} => login.endpoint.version = "1.3"
    BY <2>1, <2>2, ListedIsPort DEF EndpointInv
  <2>4. QED
    BY <2>2, <2>3 DEF EndpointInv
<1>2. QED
  BY <1>1, LoginStays, PTL
=============================================================================
