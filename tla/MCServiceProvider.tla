------------------------- MODULE MCServiceProvider -------------------------
(***************************************************************************)
(* An instance of ServiceProvider for TLC.                                 *)
(***************************************************************************)
EXTENDS ServiceProvider, TLC

CONSTANTS idp1, idp2, given_relay

URL(scheme, netloc, path) == [scheme |-> scheme, netloc |-> netloc, path |-> path]

SomeURIs ==
    {URL(s, n, p) : s \in {"http", "https"}, n \in {"sp", "10.0.0.1"}, p \in {"/acs"}}
    \cup {URL("http", "sp", "/saml"), URL("https", "other", "/acs")}

\* The consumer services in two orders that differ for the loop
Acs == <<
     <<URL("https", "sp", "/saml"), URL("http", "sp", "/acs"), URL("https", "sp", "/acs"),
       URL("http", "10.0.0.1", "/acs")>>,
     <<URL("http", "10.0.0.1", "/acs"), URL("https", "sp", "/acs"), URL("https", "sp", "/saml"),
       URL("http", "sp", "/acs")>> >>

SomeConfigs ==
    {[idps |-> {}, acs |-> Acs[1]], [idps |-> {idp1}, acs |-> Acs[1]],
     [idps |-> {idp1, idp2}, acs |-> Acs[2]]}

SoapAndRedirect == idp1 :> "soap" @@ idp2 :> "redirect"
=============================================================================
