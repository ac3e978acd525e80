---------------------------- MODULE MC_Discovery ----------------------------
(* Clients of five kinds of authority: a known host, one that has to be    *)
(* validated (valid or not), a regional one, a private cloud that is not   *)
(* validated and ADFS.                                                     *)
EXTENDS Discovery

Config(type, host, own, validate, region, disabled, valid) ==
    [type |-> type, host |-> host, tenant |-> own, validate |-> validate, region |-> region,
     disabled |-> disabled, valid |-> valid]
UsGov   == Global("login.usgovcloudapi.net")
Custom  == Global("login.contoso.com")
Other   == Global("login.fabrikam.com")
Private == <<"westus", "login.contoso.com">>

KnownHost   == Config("AAD", UsGov, "consumers", TRUE, NoRegion, FALSE, TRUE)
CustomHost  == Config("AAD", Custom, "home", TRUE, NoRegion, FALSE, TRUE)
InvalidHost == Config("AAD", Custom, "home", TRUE, NoRegion, FALSE, FALSE)
Regional    == Config("AAD", UsGov, "home", TRUE, AutoDetect, FALSE, TRUE)
Misspelt    == Config("AAD", UsGov, "home", TRUE, BadRegion, FALSE, TRUE)
PrivateHost == Config("AAD", Private, "common", FALSE, NoRegion, TRUE, TRUE)
Adfs        == Config("ADFS", Custom, "adfs", TRUE, NoRegion, TRUE, TRUE)

MCConfigs   == {KnownHost, CustomHost, InvalidHost, Regional, Misspelt, PrivateHost, Adfs}
MCIdsOf     == [cfg \in MCConfigs |->
    CASE cfg = PrivateHost -> {"", "guest", "organizations"}
      [] cfg \in {KnownHost, Adfs} -> {"", "guest"}
      [] OTHER -> {""}]
MCDomains   == {"", "contoso.com"}
UsGovCloud  == KnownCloud(UsGov)
MCListings  == {{UsGovCloud}, {UsGovCloud, {Custom, Other}}}
MCIssuers   == {<<"https", Custom>>, <<"http", Other>>, <<"https", UsGov>>,
                <<"https", Global("login.rogue.com")>>}
MCRogue     == {<<"https", Global("login.rogue.com")>>}
=============================================================================
