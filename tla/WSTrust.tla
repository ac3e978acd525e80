------------------------------- MODULE WSTrust -------------------------------
(***************************************************************************)
(* The federated half of the login with a username and a password: the     *)
(* realm of a user, the metadata (MEX) document of the realm's federation  *)
(* server, the endpoint that is chosen from it and the assertion which     *)
(* that endpoint answers with.                                             *)
(*                                                                         *)
(* A document has a sequence of policies, [id, transport, negotiate,       *)
(* password] with what a policy asks for, of bindings, [name, policy,      *)
(* http, spec], and of ports, [binding, url].  The value None stands for   *)
(* an empty attribute.                                                     *)
(***************************************************************************)
EXTENDS SequencesExt

CONSTANT None

ASSUME NoneAssumption == None \notin {"1.3", "2005"}

-----------------------------------------------------------------------------
(* UserRealm.validate; what is missing of a realm is a set of field names. *)

ValidRealm(realm) ==
    /\ realm.account # None
    /\ {"domain", "cloud", "audience"} \cap realm.missing = {}
    /\ realm.account = "Federated" => {"protocol", "metadata"} \cap realm.missing = {}

-----------------------------------------------------------------------------
(* The document: what its policies stand for, by id, what its bindings     *)
(* stand for, by name, and where its ports lead.  A later one of a name    *)
(* takes the place of an earlier one.                                      *)

Usable(policy) ==
    policy.transport /\ policy.id # None /\ (policy.negotiate \/ policy.password)
usable(doc) == {i \in DOMAIN doc.policies : Usable(doc.policies[i])}

LastPolicy(doc, id) == doc.policies[Max({i \in usable(doc) : doc.policies[i].id = id})]
policies(doc) ==
    [id \in {doc.policies[i].id : i \in usable(doc)} |->
        IF LastPolicy(doc, id).password THEN "password" ELSE "windows"]

Bound(doc) ==
    {i \in DOMAIN doc.bindings :
        doc.bindings[i].http /\ doc.bindings[i].policy \in DOMAIN policies(doc)}

LastBinding(doc, name) == doc.bindings[Max({i \in Bound(doc) : doc.bindings[i].name = name})]
bindings(doc) ==
    [name \in {doc.bindings[i].name : i \in Bound(doc)} |->
        [version |-> LastBinding(doc, name).spec,
         type    |-> policies(doc)[LastBinding(doc, name).policy]]]

NoEndpoint == [version |-> None, url |-> None]

(* Mutated form: the first endpoint of a document stays.                   *)
updateEndpointOnce(cached, found) == IF cached.version = None THEN found ELSE cached

updateEndpoint(cached, found) ==
    IF cached.version = None \/ (cached.version = "2005" /\ found.version = "1.3")
        THEN found ELSE cached

(* A port in the loop of endpoints, with the endpoint found before it.     *)
UsePort(doc, found, port) ==
    IF port.binding \in DOMAIN bindings(doc) /\ bindings(doc)[port.binding].type = "password"
        THEN updateEndpoint(found, [version |-> bindings(doc)[port.binding].version,
                                    url     |-> port.url])
        ELSE found
UsernamePasswordEndpoint(doc) ==
    LET found[n \in 0..Len(doc.ports)] ==
            IF n = 0 THEN NoEndpoint ELSE UsePort(doc, found[n - 1], doc.ports[n])
    IN  found[Len(doc.ports)]

(* NewFromDef returns a document rather than an error.                     *)
ValidDocument(doc) ==
    /\ DOMAIN policies(doc) # {}
    /\ \A i \in Bound(doc) : doc.bindings[i].spec \in {"1.3", "2005"}
    /\ \A p \in ToSet(doc.ports) : p.binding \in DOMAIN bindings(doc) => p.url # None

-----------------------------------------------------------------------------
(* Endpoints that a token request message can be built for: no endpoint    *)
(* has no version.  A message for WS-Trust 2005 is not sent, however.      *)
buildTokenRequestMessage(endpoint) == endpoint.version \in {"1.3", "2005"}
Supported(endpoint) == buildTokenRequestMessage(endpoint) /\ endpoint.version # "2005"

(* The answer is a sequence of tokens: the SAML version of an assertion,   *)
(* or None for a token without one.  The first assertion decides.          *)

samlAssertion(answer) ==
    LET assertions == SelectSeq(answer, LAMBDA version : version # None)
    IN  CASE assertions = <<>>           -> None
          [] Head(assertions) = "saml1"  -> "SAMLV1"
          [] Head(assertions) = "saml2"  -> "SAMLV2"
          [] OTHER                       -> None
=============================================================================
