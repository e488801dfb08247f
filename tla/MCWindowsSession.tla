-------------------------- MODULE MCWindowsSession --------------------------
(* Small instances of WindowsSession for TLC. *)
EXTENDS WindowsSession

MCIfaces == <<"eth", "wifi">>

Choice(sharing, ssid, allow, uplink) ==
    [sharing |-> sharing, uplink |-> uplink, subnet |-> None, allowIPv6 |-> allow,
     ssid |-> ssid, iface |-> None, pass |-> 8, control |-> FALSE]

\* The hotspot, the hotspot without its name, managed sharing on the default route
\* and on a named interface, with and without IPv6 and a hotspot, none at all, and
\* a name that is no model.
MCSettings ==
    {Choice("platform", 4, FALSE, None), Choice("platform", 0, FALSE, None),
     Choice("managed", 0, TRUE, None), Choice("managed", 0, TRUE, "wifi"),
     Choice("managed", 4, FALSE, None), Choice("none", 0, FALSE, None)}

=============================================================================
