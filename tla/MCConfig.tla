------------------------------ MODULE MCConfig ------------------------------
(***************************************************************************)
(* An interface that comes and goes, a rule for it and a rule for every one, *)
(* and a profile with a child.  The operator may make the rules tie or name *)
(* a profile that is not there, disable, break or remove a profile, and    *)
(* write what no load accepts.                                             *)
(***************************************************************************)
EXTENDS Config

Dword(i) == [ty |-> "DWORD", len |-> 4, int |-> i]
Sz(s) == [ty |-> "SZ", parts |-> <<s>>]
Multi(items) == [ty |-> "MULTI_SZ", parts |-> Append(items, "")]

MCIpText == "10.0.0.1" :> [family |-> 4, ip |-> "10.0.0.1"]
MCCidrText == "10.0.0.9/24" :> [address |-> [family |-> 4, ip |-> "10.0.0.9"], prefix |-> 24]
MCNumberText == "68" :> 68
MCJoinText == ("JOIN(office)" :> <<"office">>) @@ ("join(Office\\Lab)" :> <<"office", "lab">>)
MCHexText == "00:03" :> <<0, 3>>
MCBadTexts == {"not utf-8"}

Office == ("address.offered" :> Dword(1)) @@ ("mtu.value" :> Sz("68"))
Lab == ("address.static" :> Multi(<<"10.0.0.9/24">>)) @@ ("route.gateway" :> Multi(<<"10.0.0.1">>))
All == "actions" :> Multi(<<"JOIN(office)">>)
Eth0 == ("interface" :> Sz("eth0")) @@ ("actions" :> Multi(<<"join(Office\\Lab)">>))
        @@ ("priority" :> Dword(1))

MCRegistries ==
    {[hostname |-> Sz("ws"), control_security |-> None, duid |-> None,
      rules |-> (<<>> :> <<>>) @@ (<<"all">> :> All) @@ (<<"eth0">> :> Eth0),
      profiles |-> (<<>> :> <<>>) @@ (<<"office">> :> Office) @@ (<<"office", "lab">> :> Lab)]}

Edit(tree, path, name, value) == [tree |-> tree, path |-> path, name |-> name, value |-> value]

MCEdits ==
    {Edit("hostname", None, None, Dword(1)),
     Edit("hostname", None, None, Sz("ws")),
     Edit("duid", None, None, Sz("00:03")),
     Edit("rules", <<"eth0">>, "priority", None),
     Edit("rules", <<"eth0">>, "actions", Multi(<<"DOWN">>)),
     Edit("rules", <<"eth0">>, None, None),
     Edit("profiles", <<"office">>, "enabled", Dword(0)),
     Edit("profiles", <<"office">>, "mtu.value", Dword(60)),
     Edit("profiles", <<"office", "lab">>, None, None),
     Edit("profiles", <<"office", "lab", "bench">>, "address.offered", Sz("off"))}
=============================================================================
