----------------------------- MODULE UsbKeyboard ----------------------------
(***************************************************************************)
(* The USB host driver (usb.rs) and the search for a keyboard (hid.rs      *)
(* find_keyboard): controller and root port reset, hub traversal, the      *)
(* control transfers that enumerate a device, up to a configured keyboard  *)
(* (HidKeyboard is how it is polled).  One channel, one transaction at a   *)
(* time, every wait with a deadline, and no step tried twice.              *)
(*                                                                         *)
(* Position 0 is the root port and 1..Ports are the ports of a hub there.  *)
(* A device is told by its configuration descriptor.  Speeds and packet    *)
(* sizes are left out: both are read from the device they are used for.    *)
(***************************************************************************)
EXTENDS Naturals, Sequences

CONSTANTS
    Ports,          \* bNbrPorts of the hub
    Roots,          \* what may be at the root port
    Kinds,          \* the devices that may be at a port of the hub
    Configuration   \* the configuration descriptor of each kind, as the list
                    \* of the descriptors in it

(* A descriptor has two bytes at least, bLength and bDescriptorType; a     *)
(* length of 0 is what the driver stops at.  An endpoint descriptor is     *)
(* never that of endpoint 0.                                               *)
Lengths == Nat \ {1}
Descriptor ==
    [len : Lengths, type : {"interface"}, kbd : BOOLEAN]
        \cup [len : Lengths, type : {"endpoint"}, in : BOOLEAN, ep : Nat \ {0}]
        \cup [len : Lengths, type : {"other"}]

ASSUME UsbAssumption ==
    /\ Ports \in Nat /\ "hub" \notin Kinds
    /\ \A k \in (Roots \cup Kinds) \ {"none", "hub"} : Configuration[k] \in Seq(Descriptor)

Position == 0..Ports

VARIABLES
    plugged,    \* what is at each position
    bus,        \* external: each position's port is powered, and its device
                \* answers at an address, configured or not
    heard,      \* external: the devices that took in the current SETUP
    step,       \* the request being made: one of hid.rs's calls into usb.rs
    phase,      \* the transaction of it being made
    inflight,   \* transact waits for HCINT
    owed,       \* a transaction the driver gave up on is still on the channel
    port,       \* find_keyboard's loop variable, 0 for the root device
    hub,        \* hub.addr
    dev,        \* dev.addr of enumerate_as_keyboard, then of the Keyboard
    seen,       \* what the last data stage told: a kind, "none" for zeros
    ep,         \* Keyboard.ep_num
    result,     \* what find_keyboard returned
    clean       \* history: no fault that matters happened

deviceVars == <<plugged, bus, heard>>
channelVars == <<phase, inflight, owed>>
driverVars == <<step, port, hub, dev, seen, ep, result>>
vars == <<deviceVars, channelVars, driverVars, clean>>

-----------------------------------------------------------------------------
(* find_hid_keyboard_endpoint over the descriptors in the first CfgBytes   *)
(* bytes, which is all enumerate_as_keyboard reads: the number of the      *)
(* first IN endpoint that follows a boot keyboard interface, 0 if none.    *)
CfgBytes == 64

(* Mutant of Scan: any later interface still counts as the keyboard's. *)
Scan_Sticky(st, d) ==
    LET end == st.at + d.len
    IN  IF st.ep # 0 \/ d.len = 0 \/ end > CfgBytes THEN [st EXCEPT !.at = CfgBytes]
        ELSE [at  |-> end,
              kbd |-> st.kbd \/ (d.type = "interface" /\ d.kbd),
              ep  |-> IF d.type = "endpoint" /\ st.kbd /\ d.in THEN d.ep ELSE 0]

Scan(st, d) ==
    LET end == st.at + d.len
    IN  IF st.ep # 0 \/ d.len = 0 \/ end > CfgBytes THEN [st EXCEPT !.at = CfgBytes]
        ELSE [at  |-> end,
              kbd |-> IF d.type = "interface" THEN d.kbd ELSE st.kbd,
              ep  |-> IF d.type = "endpoint" /\ st.kbd /\ d.in THEN d.ep ELSE 0]

Scanned(c) ==
    LET After[n \in 0..Len(c)] ==
            IF n = 0 THEN [at |-> 0, kbd |-> FALSE, ep |-> 0] ELSE Scan(After[n - 1], c[n])
    IN  After[Len(c)]

EndpointOf(kind) ==
    IF kind \in {"none", "hub"} THEN 0 ELSE Scanned(Configuration[kind]).ep

-----------------------------------------------------------------------------
(* External: the devices.                                                  *)

Unpowered == [on |-> FALSE, live |-> FALSE, addr |-> 0, cfg |-> FALSE]

Answering(a) == {p \in Position : bus[p].live /\ bus[p].addr = a}

First(S) == CHOOSE p \in S : \A q \in S : p <= q

(* Where two devices share an address, both hear a request, or, with       *)
(* QEMU's hub, the one at the lowest port.                                 *)
Hears(a) == IF Answering(a) = {} THEN {} ELSE {Answering(a), {First(Answering(a))}}

Fresh(p) == [on |-> TRUE, live |-> plugged[p] # "none", addr |-> 0, cfg |-> FALSE]

(* The address enumerate_as_keyboard is called with.                       *)
NewAddress == IF port = 0 THEN 1 ELSE 2

(* What a request does to the devices that took it in.                     *)
Applied ==
    CASE step = "hubAddr" -> [p \in Position |-> IF p \in heard THEN [bus[p] EXCEPT !.addr = 1] ELSE bus[p]]
      [] step = "setAddr" -> [p \in Position |-> IF p \in heard THEN [bus[p] EXCEPT !.addr = NewAddress] ELSE bus[p]]
      [] step = "setCfg"  -> [p \in Position |-> IF p \in heard THEN [bus[p] EXCEPT !.cfg = TRUE] ELSE bus[p]]
      [] step = "power"   -> [bus EXCEPT ![port].on = TRUE]
      [] step = "reset"   -> [bus EXCEPT ![port] = Fresh(port)]
      [] OTHER            -> bus

(* What a device puts in the data stage: a port's status says whether      *)
(* something is connected.                                                 *)
Told(p) ==
    IF step \in {"status", "speed"} THEN (IF bus[port].on THEN plugged[port] ELSE "none")
    ELSE plugged[p]

-----------------------------------------------------------------------------
(* find_keyboard as the sequence of its requests.                          *)

HubSteps == {"rootDesc", "hubAddr", "hubDesc"}
PortSteps == {"power", "status", "reset", "clearReset", "clearConn", "speed"}
DeviceSteps == {"desc", "setAddr", "cfgHdr", "cfg", "setCfg"}
Requests == HubSteps \cup PortSteps \cup DeviceSteps
Ignored == {"clearReset", "clearConn"}
WithData == {"rootDesc", "hubDesc", "status", "speed", "desc", "cfgHdr", "cfg"}

(* The address a transaction is sent to.                                   *)
To == IF step \in DeviceSteps THEN dev ELSE hub

Following == [hubAddr |-> "hubDesc", power |-> "status", reset |-> "clearReset",
              clearReset |-> "clearConn", clearConn |-> "speed", speed |-> "desc",
              desc |-> "setAddr", setAddr |-> "cfgHdr", cfgHdr |-> "cfg"]

Goto(s) == step' = s /\ phase' = "setup"

Ends(r) == result' = r /\ step' = "stop" /\ phase' = "setup"

(* Mutant of NextPort: the last port is left out. *)
NextPort_ShortByOne ==
    IF port + 1 < Ports THEN port' = port + 1 /\ Goto("power") /\ UNCHANGED result
    ELSE Ends("none") /\ UNCHANGED port

(* The loop over 1..=num_ports.                                            *)
NextPort ==
    IF port < Ports THEN port' = port + 1 /\ Goto("power") /\ UNCHANGED result
    ELSE Ends("none") /\ UNCHANGED port

(* Mutant of Fails: the last request's error is ignored too. *)
Fails_Lenient ==
    /\ \/ step \in Ignored /\ Goto(Following[step]) /\ UNCHANGED <<port, result>>
       \/ step = "setCfg" /\ Ends("found") /\ UNCHANGED port
       \/ (step \in HubSteps \/ port = 0) /\ step # "setCfg" /\ Ends("none") /\ UNCHANGED port
       \/ step \notin HubSteps \cup Ignored \cup {"setCfg"} /\ port # 0 /\ NextPort
    /\ dev' = 0
    /\ UNCHANGED <<hub, ep>>

(* A request returned an error: fatal on the way to the ports and for a    *)
(* device at the root, the end of this port behind a hub.                  *)
Fails ==
    /\ \/ step \in Ignored /\ Goto(Following[step]) /\ UNCHANGED <<port, result>>
       \/ (step \in HubSteps \/ port = 0) /\ Ends("none") /\ UNCHANGED port
       \/ step \notin HubSteps \cup Ignored /\ port # 0 /\ NextPort
    /\ dev' = 0
    /\ UNCHANGED <<hub, ep>>

(* Mutant of Succeeds: set_address leaves dev.addr as it was. *)
Succeeds_OldAddress ==
    \/ /\ step \in DOMAIN Following
       /\ Goto(Following[step])
       /\ hub' = IF step = "hubAddr" THEN 1 ELSE hub
       /\ UNCHANGED <<port, dev, ep, result>>
    \/ /\ step = "rootDesc"
       /\ Goto(IF seen = "hub" THEN "hubAddr" ELSE "desc")
       /\ UNCHANGED <<port, hub, dev, ep, result>>
    \/ /\ step \in {"hubDesc", "status"}
       /\ IF step = "hubDesc" \/ seen = "none" THEN NextPort
          ELSE Goto("reset") /\ UNCHANGED <<port, result>>
       /\ UNCHANGED <<hub, dev, ep>>
    \/ /\ step = "cfg"
       /\ EndpointOf(seen) # 0 /\ Goto("setCfg") /\ ep' = EndpointOf(seen)
       /\ UNCHANGED <<port, hub, dev, result>>
    \/ step = "cfg" /\ EndpointOf(seen) = 0 /\ Fails
    \/ step = "setCfg" /\ Ends("found") /\ UNCHANGED <<port, hub, dev, ep>>

(* A request succeeded.  The hub's and the device's addresses change once  *)
(* set_address has returned.                                               *)
Succeeds ==
    \/ /\ step \in DOMAIN Following
       /\ Goto(Following[step])
       /\ hub' = IF step = "hubAddr" THEN 1 ELSE hub
       /\ dev' = IF step = "setAddr" THEN NewAddress ELSE dev
       /\ UNCHANGED <<port, ep, result>>
    \/ /\ step = "rootDesc"
       /\ Goto(IF seen = "hub" THEN "hubAddr" ELSE "desc")
       /\ UNCHANGED <<port, hub, dev, ep, result>>
    \/ /\ step \in {"hubDesc", "status"}
       /\ IF step = "hubDesc" \/ seen = "none" THEN NextPort
          ELSE Goto("reset") /\ UNCHANGED <<port, result>>
       /\ UNCHANGED <<hub, dev, ep>>
    \/ /\ step = "cfg"
       /\ EndpointOf(seen) # 0 /\ Goto("setCfg") /\ ep' = EndpointOf(seen)
       /\ UNCHANGED <<port, hub, dev, result>>
    \/ step = "cfg" /\ EndpointOf(seen) = 0 /\ Fails
    \/ step = "setCfg" /\ Ends("found") /\ UNCHANGED <<port, hub, dev, ep>>

-----------------------------------------------------------------------------
(* usb::init.                                                              *)

Quiet == UNCHANGED <<plugged, heard, inflight, owed, hub, dev, seen, ep>>

(* reset_core and the FIFO flush; each of their waits may time out.        *)
ResetCore ==
    /\ step = "core"
    /\ \/ Goto("rootPower") /\ UNCHANGED <<result, clean>>
       \/ Ends("none") /\ clean' = FALSE
    /\ UNCHANGED <<bus, port>> /\ Quiet

(* power_on_port, then NoDevice or reset_port.                             *)
ResetPort ==
    /\ step = "rootPower"
    /\ bus' = [bus EXCEPT ![0] = Fresh(0)]
    /\ IF plugged[0] = "none" THEN Ends("none") ELSE Goto("rootDesc") /\ UNCHANGED result
    /\ UNCHANGED <<port, clean>> /\ Quiet

-----------------------------------------------------------------------------
(* transact and control_transfer.                                          *)

Start ==
    /\ step \in Requests /\ ~inflight
    /\ inflight' = TRUE
    /\ UNCHANGED <<deviceVars, phase, owed, driverVars, clean>>

(* The stage after this one succeeded.                                     *)
StageDone ==
    IF phase = "status" THEN Succeeds
    ELSE /\ phase' = IF phase = "setup" /\ step \in WithData THEN "data" ELSE "status"
         /\ UNCHANGED <<step, port, hub, dev, ep, result>>

(* The device, or devices, complete the transaction.                       *)
Completes ==
    /\ inflight
    /\ \/ /\ phase = "setup"
          /\ \E H \in Hears(To) : heard' = H
          /\ UNCHANGED <<bus, seen>>
       \/ /\ phase = "data"
          /\ \E p \in heard : heard = {p} /\ seen' = Told(p)
          /\ UNCHANGED <<bus, heard>>
       \/ /\ phase = "status" /\ heard # {}
          /\ bus' = Applied
          /\ UNCHANGED <<heard, seen>>
    /\ StageDone
    /\ inflight' = FALSE /\ owed' = FALSE
    /\ UNCHANGED <<plugged, clean>>

(* Nobody takes the transaction, or two devices answer at once.            *)
Unanswered ==
    \/ phase = "setup" /\ Answering(To) = {}
    \/ phase = "data" /\ \A p \in Position : heard # {p}
    \/ phase = "status" /\ heard = {}

(* A fault ends it as an error, or not at all until the deadline; the      *)
(* device may have done what the last stage asked for all the same.        *)
Breaks(timeout) ==
    /\ inflight
    /\ bus' \in {bus} \cup (IF phase = "status" /\ heard # {} THEN {Applied} ELSE {})
    /\ heard' = {}
    /\ Fails
    /\ inflight' = FALSE /\ owed' = timeout
    /\ clean' = (clean /\ (Unanswered \/ (step \in Ignored /\ ~timeout)))
    /\ UNCHANGED <<plugged, seen>>

Error == Breaks(FALSE)

(* Mutant of Timeout: the deadline moves with the wait. *)
Timeout_Moving == inflight /\ Breaks(TRUE) /\ ~inflight

(* wait_while(300, ...) in transact: the channel stays enabled.            *)
Timeout == Breaks(TRUE)

(* The completion of a transaction given up on arrives after the driver    *)
(* cleared HCINT for this one, and is taken for its completion.            *)
Stale ==
    /\ inflight /\ owed
    /\ heard' = {}
    /\ StageDone
    /\ inflight' = FALSE /\ owed' = FALSE /\ clean' = FALSE
    /\ UNCHANGED <<plugged, bus, seen>>

-----------------------------------------------------------------------------
Init ==
    /\ plugged \in {f \in [Position -> Kinds \cup Roots] :
                       f[0] \in Roots /\ \A p \in 1..Ports :
                           f[p] \in (IF f[0] = "hub" THEN Kinds ELSE {"none"})}
    /\ bus = [p \in Position |-> Unpowered]
    /\ heard = {}
    /\ step = "core" /\ phase = "setup" /\ inflight = FALSE /\ owed = FALSE
    /\ port = 0 /\ hub = 0 /\ dev = 0 /\ seen = "none" /\ ep = 0
    /\ result = "searching" /\ clean = TRUE

Next ==
    ResetCore \/ ResetPort \/ Start \/ Completes \/ Error \/ Timeout \/ Stale

Spec == Init /\ [][Next]_vars

(* The driver runs on, and ticks end its waits; the devices may do nothing.*)
FairSpec ==
    /\ Spec
    /\ WF_vars(ResetCore) /\ WF_vars(ResetPort) /\ WF_vars(Start) /\ WF_vars(Timeout)

-----------------------------------------------------------------------------
(* The endpoints a boot keyboard reports on: IN endpoints whose nearest    *)
(* interface descriptor before them is a boot keyboard's, within the part  *)
(* of the configuration that is read and before any length of 0.           *)
BytesUpTo(c) ==
    LET Sum[n \in 0..Len(c)] == IF n = 0 THEN 0 ELSE Sum[n - 1] + c[n].len IN Sum

ReportsAt(c, j) ==
    /\ c[j].type = "endpoint" /\ c[j].in
    /\ BytesUpTo(c)[j] <= CfgBytes /\ \A m \in 1..j : c[m].len # 0
    /\ \E i \in 1..(j - 1) :
           /\ c[i].type = "interface" /\ c[i].kbd
           /\ \A m \in (i + 1)..(j - 1) : c[m].type # "interface"

ReportEndpoints(kind) ==
    IF kind \in {"none", "hub"} THEN {}
    ELSE LET c == Configuration[kind] IN {c[j].ep : j \in {j \in DOMAIN c : ReportsAt(c, j)}}

IsKeyboard(kind) == ReportEndpoints(kind) # {}

(* The type invariant: addresses, positions and steps stay in range.       *)
TypeOK ==
    /\ bus \in [Position -> [on : BOOLEAN, live : BOOLEAN, addr : 0..2, cfg : BOOLEAN]]
    /\ heard \subseteq Position /\ port \in Position
    /\ step \in Requests \cup {"core", "rootPower", "stop"}
    /\ phase \in {"setup", "data", "status"}
    /\ hub \in 0..1 /\ dev \in 0..2

(* A Keyboard that find_keyboard returns is one: the device that answers   *)
(* at its address is configured and reports at its endpoint, whatever      *)
(* failed, timed out or completed late on the way and whatever else was    *)
(* tried before it (hid.rs enumerate_as_keyboard, usb.rs set_address,      *)
(* control_transfer).                                                      *)
FoundKeyboardWorks ==
    result = "found" =>
        /\ Answering(dev) # {}
        /\ bus[First(Answering(dev))].cfg
        /\ ep \in ReportEndpoints(plugged[First(Answering(dev))])

(* A keyboard that is the first device on the way is found when no         *)
(* transfer fails: at the root port, or at any port of a hub with only     *)
(* empty ports before it.  The two ClearPortFeature requests may fail, as  *)
(* hub_power_and_reset_port ignores what they return.                      *)
FirstKeyboardFound ==
    clean /\ result = "none" =>
        /\ ~IsKeyboard(plugged[0])
        /\ \A p \in 1..Ports :
               (\A q \in 1..(p - 1) : plugged[q] = "none") => ~IsKeyboard(plugged[p])

(* The search comes to an end even if a device never answers: every wait   *)
(* has a deadline and no step is retried (usb.rs wait_while).              *)
SearchEnds == <>(result # "searching")

(* hid.rs on find_keyboard: "Walks from the root-port device down through  *)
(* a hub (if there is one) to find a HID boot-protocol keyboard".  With no *)
(* transfer failing, a keyboard at any port of the hub is found.           *)
KeyboardFound ==
    clean /\ result = "none" => \A p \in Position : ~IsKeyboard(plugged[p])
=============================================================================
