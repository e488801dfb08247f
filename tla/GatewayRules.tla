---------------------------- MODULE GatewayRules ----------------------------
(***************************************************************************)
(* What is decided before a gateway changes anything                      *)
(* (internal/gateway/gateway.go, the platforms' Capabilities, and          *)
(* gatewayConfig and poolRange of internal/app/gateway.go): what a person's *)
(* choices come to, whether that configuration makes sense, what this       *)
(* machine can do, and which interfaces carry it.                          *)
(*                                                                         *)
(* Nothing here has a state.  A choice that a Go function makes or refuses  *)
(* is the set of its results: one element, or none when it is refused.  An  *)
(* optional value is a set of at most one element.  Of a refusal only the   *)
(* fact is kept, of an explanation only whether there is one.              *)
(***************************************************************************)
EXTENDS Integers, Sequences

None == ""

Models == {"none", "platform", "managed"}

Caps == {"access-point", "share-uplink", "dns-redirect", "dns-enforce",
         "block-device", "ipv6-control", "own-dhcp", "client-list"}

-----------------------------------------------------------------------------
(* From a person's choices to a configuration. *)

\* The model's name may be one that does not exist.  port is the one the resolver
\* listens on or is set to, 0 for neither.  A subnet of a single address does not
\* contain the next one, which is the one this machine takes.
GatewayConfig(s, port) ==
    {c \in {[sharing |-> s.sharing,
             uplink  |-> s.uplink,
             subnet  |-> IF s.subnet = None THEN "ipv4" ELSE s.subnet,
             addr    |-> IF s.subnet = "single" THEN "outside" ELSE "inside",
             port    |-> port,
             ipv6    |-> IF s.allowIPv6 THEN "allow" ELSE "block",
             hotspot |-> IF s.sharing # "none" /\ s.ssid > 0
                         THEN {[iface |-> s.iface, ssid |-> s.ssid, pass |-> s.pass,
                                control |-> s.control, open |-> FALSE, max |-> 0]}
                         ELSE {}]} :
        s.sharing \in Models /\ s.subnet # "unreadable" /\ port # 0}

\* The name's and the passphrase's lengths in octets, and whether one of them
\* has a control character.
ValidHotspot(h) ==
    /\ h.ssid \in 1..32
    /\ h.open \/ h.pass \in 8..63
    /\ ~h.control
    /\ h.max >= 0

Valid(c) ==
    /\ c.sharing = "managed" => c.subnet # None /\ c.addr # None
    /\ c.subnet # "ipv6"
    /\ c.subnet # None => c.addr # "outside"
    /\ c.port \in 1..65535
    /\ \A h \in c.hotspot : ValidHotspot(h)
    /\ c.hotspot # {} => c.sharing # "none"

Required(c) ==
    CASE c.sharing = "none"     -> {}
      [] c.sharing = "platform" -> {"access-point"}
      [] c.sharing = "managed"  ->
            {"share-uplink", "own-dhcp"}
            \cup {x \in {"access-point"} : c.hotspot # {}}
            \cup {x \in {"ipv6-control"} : c.ipv6 = "block"}

-----------------------------------------------------------------------------
(* What a machine can do: what it has, what has a reason of its own for not   *)
(* being there, what a person could do something about, and the models.       *)

Missing(have, c) == Required(c) \ have

\* Faulty variant of Satisfied: one capability of those that are needed is enough.
SatisfiedInPart(have, c) == Required(c) = {} \/ Required(c) \cap have # {}

\* CheckCapabilities.
Satisfied(have, c) == Missing(have, c) = {}

Earliest(S) == {i \in S : \A j \in S : i <= j}

\* A named uplink has to be there and up; otherwise the first interface in the
\* list that carries the default route.
SelectUplink(ifaces, preferred) ==
    IF preferred # None
    THEN {i \in Earliest({k \in DOMAIN ifaces : ifaces[k].name = preferred}) : ifaces[i].up}
    ELSE Earliest({k \in DOMAIN ifaces :
                     ifaces[k].route /\ ifaces[k].up /\ ifaces[k].kind # "loopback"})

\* A named access point is not compared with the uplink.
SelectAPInterface(ifaces, preferred, uplink) ==
    IF preferred # None
    THEN {i \in Earliest({k \in DOMAIN ifaces : ifaces[k].name = preferred}) : ifaces[i].ap}
    ELSE Earliest({k \in DOMAIN ifaces : ifaces[k].ap /\ ifaces[k].name # uplink})

\* m: nft and hostapd say whether the tool is installed, ifaces is the list of
\* interfaces, and listed whether it could be read.
LinuxCapabilities(m) ==
    LET ruled == {"share-uplink", "dns-redirect", "dns-enforce", "block-device", "ipv6-control"}
        hosts == m.hostapd /\ m.listed /\ SelectAPInterface(m.ifaces, None, None) # {}
    IN
    [have    |-> {"own-dhcp"} \cup (IF m.nft THEN ruled ELSE {})
                 \cup {x \in {"access-point"} : hosts},
     reasons |-> (IF m.nft THEN {} ELSE ruled) \cup {"client-list"}
                 \cup {x \in {"access-point"} : ~hosts},
     fixable |-> (IF m.nft THEN {} ELSE ruled)
                 \cup {x \in {"access-point"} : ~hosts /\ (m.hostapd => m.listed)},
     sharing |-> {"none"} \cup {x \in {"managed"} : m.nft}]

\* m: answer is what Windows says of the hotspot, nat the translation it has.
\* Either is "error" when it could not be asked.
WindowsCapabilities(m) ==
    LET hotspot == m.answer = "Enabled"
        free == m.nat \notin {"other", "error"}
    IN
    IF ~m.elevated
    THEN [have |-> {}, reasons |-> Caps, fixable |-> Caps \ {"dns-redirect"},
          sharing |-> {"none"}]
    ELSE [have    |-> (IF hotspot THEN {"access-point", "client-list"} ELSE {})
                      \cup (IF free THEN {"share-uplink", "own-dhcp"} ELSE {}),
          reasons |-> {"dns-redirect", "dns-enforce", "block-device", "ipv6-control"}
                      \cup {x \in {"access-point"} : ~hotspot}
                      \cup {x \in {"client-list"} : ~hotspot /\ m.answer # "error"}
                      \cup {x \in {"share-uplink"} : ~free},
          fixable |-> {x \in {"access-point"} : m.answer = "DisabledByHardwareLimitation"}
                      \cup {x \in {"share-uplink"} : m.nat = "other"},
          sharing |-> {"none"} \cup {x \in {"platform"} : hotspot}
                      \cup {x \in {"managed"} : free}]

\* A platform without an implementation, which refuses every configuration.
UnsupportedCapabilities ==
    [have |-> {}, reasons |-> Caps, fixable |-> {}, sharing |-> {"none"}]

-----------------------------------------------------------------------------
(* The Linux Start, up to the first change. *)

LinuxAccepts(m, c) ==
    /\ Valid(c)
    /\ Satisfied(LinuxCapabilities(m).have, c)
    /\ c.sharing = "managed"

\* The uplink and the interface that serves, once Reconcile has run; without a
\* hotspot there is nothing to serve on.
LinuxInterfaces(m, c) ==
    {p \in [uplink : DOMAIN m.ifaces, ap : DOMAIN m.ifaces] :
        /\ m.listed
        /\ p.uplink \in SelectUplink(m.ifaces, c.uplink)
        /\ \E h \in c.hotspot :
              p.ap \in SelectAPInterface(m.ifaces, h.iface, m.ifaces[p.uplink].name)}

-----------------------------------------------------------------------------
(* The range the DHCP server of managed sharing allocates from.  word is the   *)
(* number of addresses a word of the machine counts, 2^32, and size the        *)
(* subnet's, a power of two; all arithmetic wraps at word.                     *)

MaxPool == 4096

\* Subnets of fewer than eight addresses are refused.
PoolRange(word, base, size) ==
    LET first == (base + 10) % word
        last  == (base + size - 2) % word
    IN {r \in {[first |-> first,
                last  |-> IF (last - first + 1) % word > MaxPool
                          THEN (first + MaxPool - 1) % word ELSE last]} : size >= 8}

=============================================================================
