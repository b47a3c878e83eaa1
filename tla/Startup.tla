------------------------------ MODULE Startup ------------------------------
(***************************************************************************)
(* An execution of the program from its keys (KeyFiles) to its end: the    *)
(* subcommand that uses them, Application.Run, the listener with its port, *)
(* the discovery of gateways and the port mapping, and Stop, which the     *)
(* signal handler calls while everything else goes on.  Gateways keep      *)
(* their mappings when the program ends.  (A mapping lasts 8760 hours if   *)
(* nothing else is configured; its expiry is not modelled.)                *)
(***************************************************************************)
EXTENDS KeyFiles

CONSTANTS
    Ports,
    PortOf,    \* the port an execution listens on: the command line's, which replaces what
               \* LocalPeer.Initialize has made of the configuration's
    Upnp,      \* executions with EnableUpnp
    Gateways, NoGateway,
    Nobody

ASSUME StartupAssumption ==
    /\ PortOf \in [Processes -> Ports]
    /\ Upnp \subseteq Processes
    /\ NoGateway \notin Gateways /\ Nobody \notin Processes

VARIABLES
    bound,     \* who listens on each port
    listener,  \* RunPeerListener of each execution
    answered,  \* executions whose discovery has ended
    found,     \* the devices it found that are still to be tried
    adding,    \* the gateway that AddPortMapping is talking to
    mapping,   \* upnpPortMapping: the gateway in it
    stop,      \* Stop of each execution
    mappings,  \* what the gateways forward
    orphans    \* history: mappings whose execution ended without Stop releasing them

runVars == <<bound, listener, answered, found, adding, mapping, stop, mappings, orphans>>
vars == <<keyVars, runVars>>

TypeOK ==
    /\ KeyTypeOK
    /\ bound \in [Ports -> Processes \cup {Nobody}]
    /\ listener \in [Processes -> {"off", "listen", "discover", "map", "accepting"}]
    /\ answered \subseteq Processes
    /\ found \in [Processes -> SUBSET Gateways]
    /\ adding \in [Processes -> Gateways \cup {NoGateway}]
    /\ mapping \in [Processes -> Gateways \cup {NoGateway}]
    /\ stop \in [Processes -> {"off", "release", "exit"}]
    /\ mappings \subseteq Gateways \X Ports
    /\ orphans \subseteq Gateways \X Ports

Init ==
    /\ KeyInit
    /\ bound = [port \in Ports |-> Nobody]
    /\ listener = [p \in Processes |-> "off"]
    /\ answered = {} /\ found = [p \in Processes |-> {}]
    /\ adding = [p \in Processes |-> NoGateway]
    /\ mapping = [p \in Processes |-> NoGateway]
    /\ stop = [p \in Processes |-> "off"]
    /\ mappings = {} /\ orphans = {}

Mapping(p, g) == <<g, PortOf[p]>>

\* What of p's the gateways have when it ends.
Leaves(p) == mappings \cap {Mapping(p, g) : g \in {mapping[p], adding[p]}}

\* The process is gone: its port is free, its mappings are not.
Exits(p) ==
    /\ Goto(p, "exited")
    /\ bound' = [port \in Ports |-> IF bound[port] = p THEN Nobody ELSE bound[port]]
    /\ orphans' = orphans \cup Leaves(p)
    /\ listener' = [listener EXCEPT ![p] = "off"]
    /\ answered' = answered \ {p} /\ found' = [found EXCEPT ![p] = {}]
    /\ adding' = [adding EXCEPT ![p] = NoGateway]
    /\ mapping' = [mapping EXCEPT ![p] = NoGateway]
    /\ stop' = [stop EXCEPT ![p] = "off"]
    /\ UNCHANGED <<files, undone, abandoned, mappings>>

----------------------------------------------------------------------------
(* Application.Run and LocalPeer.Run.                                      *)

\* A subcommand that prints or asks something and returns.
CommandReturns(p) ==
    /\ At(p, "ready") /\ listener[p] = "off"
    /\ Exits(p)
    /\ UNCHANGED <<faults, crashes>>

Run(p) ==
    /\ At(p, "ready") /\ listener[p] = "off" /\ stop[p] = "off"
    /\ listener' = [listener EXCEPT ![p] = "listen"]
    /\ UNCHANGED <<keyVars, bound, answered, found, adding, mapping, stop, mappings, orphans>>

\* The first goroutine that returns an error ends Run and the program, with no Stop: the
\* statistics cannot be opened, a server cannot listen, the listener's address is wrong.
RunFails(p) ==
    /\ listener[p] # "off"
    /\ Fault /\ Exits(p)
    /\ UNCHANGED crashes

RunKilled(p) ==
    /\ At(p, "ready") /\ crashes < MaxCrashes
    /\ crashes' = crashes + 1
    /\ Exits(p)
    /\ UNCHANGED faults

----------------------------------------------------------------------------
(* RunPeerListener.                                                        *)

ListenTCP(p) ==
    /\ listener[p] = "listen"
    /\ IF bound[PortOf[p]] = Nobody
       THEN /\ bound' = [bound EXCEPT ![PortOf[p]] = p]
            /\ listener' = [listener EXCEPT ![p] = IF p \in Upnp THEN "discover" ELSE "accepting"]
            /\ UNCHANGED <<keyVars, answered, found, adding, mapping, stop, mappings, orphans>>
       ELSE Exits(p) /\ UNCHANGED <<faults, crashes>>

\* The goroutine of DiscoverGateways has asked for both kinds of devices; an error of
\* either hides what the other found.
GatewaysAnswer(p) ==
    /\ listener[p] = "discover" /\ p \notin answered
    /\ answered' = answered \cup {p}
    /\ \E devices \in SUBSET Gateways : found' = [found EXCEPT ![p] = devices]
    /\ UNCHANGED <<keyVars, bound, listener, adding, mapping, stop, mappings, orphans>>

\* No device at all is an error too.
DiscoverGateways(p) ==
    /\ listener[p] = "discover" /\ p \in answered
    /\ IF found[p] # {}
       THEN /\ listener' = [listener EXCEPT ![p] = "map"]
            /\ UNCHANGED <<keyVars, bound, answered, found, adding, mapping, stop, mappings, orphans>>
       ELSE Exits(p) /\ UNCHANGED <<faults, crashes>>

\* Slip: the discovery has no timeout.
DiscoveryTimesOut_Never(p) == listener[p] = "discover" /\ FALSE /\ UNCHANGED vars

\* The other goroutine keeps its answer for ever.
DiscoveryTimesOut(p) ==
    /\ listener[p] = "discover"
    /\ Exits(p)
    /\ UNCHANGED <<faults, crashes>>

\* The devices are tried one after the other.
AddPortMapping(p) ==
    /\ listener[p] = "map" /\ adding[p] = NoGateway
    /\ \E g \in found[p] :
          /\ adding' = [adding EXCEPT ![p] = g]
          /\ found' = [found EXCEPT ![p] = @ \ {g}]
          /\ mappings' = mappings \cup {Mapping(p, g)}
    /\ UNCHANGED <<keyVars, bound, listener, answered, mapping, stop, orphans>>

\* The gateway says so: it becomes the default gateway.
MappingIsKnown(p) ==
    /\ adding[p] # NoGateway
    /\ mapping' = [mapping EXCEPT ![p] = adding[p]]
    /\ adding' = [adding EXCEPT ![p] = NoGateway]
    /\ listener' = [listener EXCEPT ![p] = "accepting"]
    /\ UNCHANGED <<keyVars, bound, answered, found, stop, mappings, orphans>>

\* It refuses (the local address is unknown, the port is taken there), or maps the port
\* and its answer is lost.
AddPortMappingFails(p) ==
    /\ listener[p] = "map" /\ Fault
    /\ \/ /\ adding[p] = NoGateway
          /\ \E g \in found[p] : found' = [found EXCEPT ![p] = @ \ {g}]
          /\ UNCHANGED <<adding, orphans>>
       \/ /\ adding[p] # NoGateway
          /\ orphans' = orphans \cup {Mapping(p, adding[p])}
          /\ adding' = [adding EXCEPT ![p] = NoGateway]
          /\ UNCHANGED found
    /\ UNCHANGED <<files, pc, loaded, undone, abandoned, crashes, bound, listener, answered, mapping,
                   stop, mappings>>

NoGatewayMaps(p) ==
    /\ listener[p] = "map" /\ adding[p] = NoGateway /\ found[p] = {}
    /\ Exits(p)
    /\ UNCHANGED <<faults, crashes>>

RunPeerListener(p) ==
    \/ ListenTCP(p)
    \/ DiscoverGateways(p) \/ DiscoveryTimesOut(p)
    \/ AddPortMapping(p) \/ MappingIsKnown(p) \/ AddPortMappingFails(p) \/ NoGatewayMaps(p)

----------------------------------------------------------------------------
(* The signal handler and Stop.                                            *)

\* Slip: the listener is closed first.
Interrupt_Closes(p) ==
    /\ At(p, "ready") /\ stop[p] = "off"
    /\ stop' = [stop EXCEPT ![p] = IF mapping[p] # NoGateway THEN "release" ELSE "exit"]
    /\ bound' = [port \in Ports |-> IF bound[port] = p THEN Nobody ELSE bound[port]]
    /\ UNCHANGED <<keyVars, listener, answered, found, adding, mapping, mappings, orphans>>

\* Once Initialize has returned there is a handler; what it finds in upnpPortMapping
\* is all that is released.
Interrupt(p) ==
    /\ At(p, "ready") /\ stop[p] = "off"
    /\ stop' = [stop EXCEPT ![p] = IF mapping[p] # NoGateway THEN "release" ELSE "exit"]
    /\ UNCHANGED <<keyVars, bound, listener, answered, found, adding, mapping, mappings, orphans>>

\* PortMapping.Delete; an error is logged.
Release(p) ==
    /\ stop[p] = "release"
    /\ \/ mappings' = mappings \ {Mapping(p, mapping[p])} /\ UNCHANGED faults
       \/ Fault /\ UNCHANGED mappings
    /\ stop' = [stop EXCEPT ![p] = "exit"]
    /\ UNCHANGED <<files, pc, loaded, undone, abandoned, crashes, bound, listener, answered, found, adding,
                   mapping, orphans>>

\* stats.Cleanup and os.Exit
StopExits(p) ==
    /\ stop[p] = "exit"
    /\ Exits(p)
    /\ UNCHANGED <<faults, crashes>>

Stop(p) == Release(p) \/ StopExits(p)

Next ==
    \/ KeyNext /\ UNCHANGED runVars
    \/ \E p \in Processes :
          \/ CommandReturns(p) \/ Run(p) \/ RunFails(p) \/ RunKilled(p)
          \/ RunPeerListener(p) \/ GatewaysAnswer(p)
          \/ Interrupt(p) \/ Stop(p)

Spec == Init /\ [][Next]_vars

\* The program's goroutines run; a gateway answers a request that it was sent (the
\* answered, found, which is a broadcast, need not be answered).
FairSpec ==
    /\ Spec
    /\ \A p \in Processes :
          /\ WF_vars(Initialize(p) /\ UNCHANGED runVars)
          /\ WF_vars(RunPeerListener(p))
          /\ WF_vars(Stop(p))

----------------------------------------------------------------------------
(* Properties.                                                             *)

Owns(p, m) ==
    /\ bound[PortOf[p]] = p
    /\ m \in {Mapping(p, g) : g \in {mapping[p], adding[p]}}

\* Every mapping on a gateway is the one that a running execution has in its record or
\* is being told of, or was left by one that ended without Stop, while it added it, or
\* whose request went wrong (local_peer.go 212-236, 638-654).
MappingsHaveOwner ==
    \A m \in mappings : m \in orphans \/ \E p \in Processes : Owns(p, m)

\* An execution that accepts connections through a gateway is not cut off from it by
\* another one that stops: who has the port has the mapping (local_peer.go 198-199,
\* 638-654; the listener is open until the process is gone).
MappedWhileAccepting ==
    \A p \in Processes :
        mapping[p] # NoGateway /\ stop[p] # "exit" => Mapping(p, mapping[p]) \in mappings

\* What keeps these true, with the keys: a listener goes through its stages with the port and one
\* gateway at a time.
StagesAgree ==
    \A p \in Processes :
        /\ listener[p] # "off" \/ stop[p] # "off" => At(p, "ready")
        /\ listener[p] \in {"discover", "map", "accepting"} => bound[PortOf[p]] = p
        /\ adding[p] # NoGateway => listener[p] = "map" /\ Mapping(p, adding[p]) \in mappings
        /\ mapping[p] # NoGateway => listener[p] = "accepting"
        /\ stop[p] = "release" => mapping[p] # NoGateway

Inv ==
    /\ TypeOK /\ KeyInv /\ StagesAgree
    /\ NoHalfPair
    /\ OneIdentity
    /\ MappingsHaveOwner
    /\ MappedWhileAccepting

Settled(p) ==
    \/ pc[p] \in {"off", "exited"}
    \/ At(p, "ready") /\ stop[p] = "off" /\ listener[p] \in {"off", "accepting"}

\* No execution stays on its way for ever: Initialize returns, a listener accepts or the
\* program ends with an error, also when no gateway answers the answered, found, and one
\* that was interrupted ends (local_peer.go 212, 250; upnp.go 94-109; main.go 166-173).
StartAndStopEnd == \A p \in Processes : []<>Settled(p)

=============================================================================
