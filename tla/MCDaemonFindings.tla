--------------------------- MODULE MCDaemonFindings --------------------------
(***************************************************************************)
(* Statements of the documentation that the daemon does not keep, each on  *)
(* the smallest instance that shows it.                                    *)
(***************************************************************************)
EXTENDS MCDaemon

\* The operator trusts the office by its lease, and a trusted network gets the
\* static profile, which does not lease.
OfficeTrusted == (net_home :> trusted) @@ (net_office :> trusted) @@ (ra_office :> unlabelled)
TrustedIsStatic == Layer(Roam, Fixed)
StaticPolicies == {TrustedIsStatic}

MCOfficeLeasesOf == office :> {OnOffice}
MCOfficeRouterOf == office :> ra_office

=============================================================================
