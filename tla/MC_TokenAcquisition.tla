------------------------ MODULE MC_TokenAcquisition ------------------------
EXTENDS TokenAcquisition

CONSTANTS ann, bob, a1, a2, b1, x, y, empty

MCCapabilities == {<<<<"access_token", "xms_cc">>, "cp1">>}
MCUserOf == a1 :> ann @@ a2 :> ann @@ b1 :> bob

Acrs(v)   == {<<<<"access_token", "acrs">>, v>>}
Member    == {<<<<"access_token", "groups">>, "all">>}
Challenge == Acrs("c1") \cup {<<<<"access_token", "nbf">>, "now">>}
Pop(key)  == [type |-> "pop", keyID |-> key]

Default == [tenant |-> "t1", scopes |-> <<"a">>, claims |-> NoClaims,
            clientClaims |-> NoClaims, extra |-> {}, scheme |-> Bearer]

MCWishes ==
    {Default,
     [Default EXCEPT !.tenant = "t2"],
     [Default EXCEPT !.scopes = <<"b">>],
     [Default EXCEPT !.scopes = <<"a", "b">>],
     [Default EXCEPT !.scopes = <<"a", "a">>],
     [Default EXCEPT !.claims = Challenge],
     [Default EXCEPT !.clientClaims = Member],
     [Default EXCEPT !.clientClaims = Acrs("c2")],
     [Default EXCEPT !.clientClaims = Acrs("c2"), !.claims = Challenge],
     [Default EXCEPT !.claims = NotObject],
     [Default EXCEPT !.claims = NotObject, !.clientClaims = Member],
     [Default EXCEPT !.extra = {<<"fmi_path", x>>}],
     [Default EXCEPT !.extra = {<<"attributes", x>>}],
     [Default EXCEPT !.extra = {<<"fmi_path", x>>, <<"attributes", y>>}],
     [Default EXCEPT !.extra = {<<"fmi_path", x>>}, !.clientClaims = Member],
     [Default EXCEPT !.extra = {<<"fmi_path", empty>>}],
     [Default EXCEPT !.scheme = Pop("k1")],
     [Default EXCEPT !.scheme = Pop("k2")]}

Reply(scope, short, refreshToken) ==
    [scope |-> scope, short |-> short, refresh |-> refreshToken]
MCReplies ==
    {Reply("echo", FALSE, TRUE), Reply("none", FALSE, FALSE),
     Reply("fewer", FALSE, TRUE), Reply("echo", TRUE, TRUE)}
MCRealms ==
    {[account |-> a, missing |-> m] :
        a \in {"Managed", "Federated", "Other", None}, m \in {{}, {"domain"}, {"metadata"}}}
MCIssued == {<<>>, <<None, "saml1">>, <<"saml2", "saml1">>, <<"other", "saml2">>}

(* Documents with up to three ports, and some that are rather unusual.     *)
Policy(id, transport, negotiate, password) ==
    [id |-> id, transport |-> transport, negotiate |-> negotiate, password |-> password]
Bind(name, policy, http, spec) ==
    [name |-> name, policy |-> policy, http |-> http, spec |-> spec]
Port(binding, url) == [binding |-> binding, url |-> url]

Windows  == Policy("win", TRUE, TRUE, FALSE)
Password == Policy("pass", TRUE, FALSE, TRUE)
Bindings ==
    <<Bind("win13", "win", TRUE, "1.3"), Bind("pass2005", "pass", TRUE, "2005"),
      Bind("pass13", "pass", TRUE, "1.3"), Bind("soap12", "pass", FALSE, "other"),
      Bind("free13", "free", TRUE, "other")>>
AllPorts ==
    {Port("win13", "u1"), Port("pass2005", "u2"), Port("pass13", "u3"),
     Port("pass13", "u4"), Port("soap12", "u5"), Port("free13", None)}
Document(ps, bs, qs) == [policies |-> ps, bindings |-> bs, ports |-> qs]

MCDocuments ==
    {Document(<<Windows, Password, Policy("free", FALSE, FALSE, TRUE)>>, Bindings, qs) :
        qs \in SeqOf(AllPorts, 3)}
    \cup {Document(ps, <<Bind("b", "pass", TRUE, spec)>>, <<Port("b", url)>>) :
        ps \in {<<>>, <<Policy("pass", FALSE, TRUE, TRUE)>>, <<Policy(None, TRUE, TRUE, TRUE)>>,
                <<Policy("pass", TRUE, TRUE, TRUE)>>,
                <<Password, Policy("pass", TRUE, TRUE, FALSE)>>,
                <<Policy("pass", TRUE, TRUE, FALSE), Password>>},
        spec \in {"1.3", "2005", "other"}, url \in {"u1", None}}

MCSetups ==
    {<<"secret", "Bearer">>, <<"assertion", "bearer">>,
     <<"provider", "Bearer">>, <<"none", "Bearer">>}
=============================================================================
