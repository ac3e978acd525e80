----------------------------- MODULE Authority -----------------------------
(***************************************************************************)
(* The authority package without its HTTP calls: the clouds MSAL knows,    *)
(* what AADInstanceDiscovery answers for a region, and the issuers that a  *)
(* tenant discovery document may name.                                     *)
(*                                                                         *)
(* A host is <<region, name>>, with NoRegion for a global one: the source  *)
(* writes <<"r", "h">> as r.h.  Hosts are lower case throughout.           *)
(***************************************************************************)
EXTENDS FiniteSets

NoRegion   == ""
AutoDetect == "TryAutoDetect"
BadRegion  == "Not A Region"        \* stands for what validRegion refuses

Global(name)   == <<NoRegion, name>>
At(region, h)  == <<region, h[2]>>
Clouds(names)  == {{Global(n) : n \in ns} : ns \in names}

(* GetKnownMetadata: hosts that are aliases of each other.                 *)
KnownClouds == Clouds({
    {"login.microsoftonline.com", "login.windows.net", "login.microsoft.com",
     "sts.windows.net"},
    {"login.partner.microsoftonline.cn", "login.chinacloudapi.cn"},
    {"login.microsoftonline.de"},
    {"login.microsoftonline.us", "login.usgovcloudapi.net"},
    {"login-us.microsoftonline.com"},
    {"login.sovcloud-identity.fr"},
    {"login.sovcloud-identity.de"},
    {"login.sovcloud-identity.sg"}})

Known(h)      == \E cloud \in KnownClouds : h \in cloud
KnownCloud(h) == CHOOSE cloud \in KnownClouds : h \in cloud

(* aadTrustedHostList has the same hosts.                                  *)
TrustedHosts   == UNION KnownClouds
TrustedHost(h) == h \in TrustedHosts

(* The PreferredNetwork of the known clouds.                               *)
PreferredHosts == {Global(n) : n \in
    {"login.microsoftonline.com", "login.partner.microsoftonline.cn",
     "login.microsoftonline.de", "login.microsoftonline.us",
     "login-us.microsoftonline.com", "login.sovcloud-identity.fr",
     "login.sovcloud-identity.de", "login.sovcloud-identity.sg"}}
ASSUME EveryCloudHasOnePreferredHost ==
    \A cloud \in KnownClouds : Cardinality(cloud \cap PreferredHosts) = 1
PreferredNetwork(h) == CHOOSE p \in PreferredHosts : p \in KnownCloud(h)

(* The host that regional names are made from.                             *)
PublicCloud == KnownCloud(Global("login.microsoftonline.com"))
Environment(h) ==
    CASE h \in PublicCloud                -> Global("login.microsoft.com")
      [] h \notin PublicCloud /\ Known(h) -> PreferredNetwork(h)
      [] OTHER                            -> h

(* The aliases of the one metadata entry that AADInstanceDiscovery makes   *)
(* up for a region: the regional host, the cloud's preferred one, the own. *)
CanonicalAlias(h) ==
    IF Known(h) /\ h \notin PublicCloud THEN {PreferredNetwork(h)} ELSE {}
RegionalAliases(region, h) ==
    {At(region, Environment(h))} \cup CanonicalAlias(h) \cup {h}

(* WithTenant: what tenant a call that names one, or none, is for.         *)
NoTenant  == ""
Refused   == "refused"
Unspecific == {"common", "consumers", "organizations"}
WithTenant(type, own, id) ==
    CASE id \in {NoTenant, own} -> own
      [] id \notin {NoTenant, own} /\ type = "AAD"
            /\ id \notin Unspecific /\ own # "consumers" -> id
      [] OTHER -> Refused

(* aliasesFromMetadata: the list's aliases of a host.                      *)
AliasesFromMetadata(list, h) ==
    IF \E entry \in list : h \in entry
        THEN CHOOSE entry \in list : h \in entry ELSE {}

(* ValidateIssuerMatchesAuthority; an issuer is <<scheme, host>>.          *)
SameHost(issuer, h)        == issuer = <<"https", h>>
AliasOf(issuer, aliases)   == issuer[2] \in aliases
RegionalVariant(issuer, h) ==
    h[1] # NoRegion /\ issuer[2] = Global(h[2])
ValidateIssuerMatchesAuthority(issuer, h, aliases) ==
    \/ SameHost(issuer, h)
    \/ AliasOf(issuer, aliases)
    \/ TrustedHost(issuer[2])
    \/ RegionalVariant(issuer, h)
=============================================================================
