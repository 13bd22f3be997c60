------------------------ MODULE BridgeConfiguration ------------------------
(***************************************************************************)
(* The configuration of the bridge, from the control application's editor  *)
(* to the engine's banks: the edits of main.ts, validate() of model.rs,    *)
(* arguments_for() of engine.rs, the checks of EngineMain and              *)
(* LiveEngine::start(), and the address, port and channels of each bank.   *)
(*                                                                         *)
(* An IPv4 address is a number, 0 one that does not parse; Multicast and   *)
(* Loopback are intervals of them.  Numbers keep their saturation, checked *)
(* subtraction and wrap-around at the scaled PortMax.  Left out: a number  *)
(* that does not fit its field (serde refuses it, and with it every call), *)
(* the fields the application never edits (schema version, PTP domain,     *)
(* encoding, sample rate and packet time), and the PTP and SAP switches,   *)
(* which arguments_for() passes on.                                        *)
(***************************************************************************)
EXTENDS Integers, FiniteSets, SequencesExt

CONSTANTS VirtualChannels,  \* 64
          BankCount,        \* kStreamBankCount: 8
          MaxFlows,         \* MAX_FLOWS_PER_DIRECTION: 32
          ChannelCounts,    \* 1, 2, 4, 8
          PortMax,          \* 65535
          AddressMax,       \* UINT32_MAX
          Multicast, Loopback,
          PayloadMax,       \* 127
          JitterPackets,    \* 2 .. 63
          NewFlow,          \* the port, payload, jitter, channels and addresses of addFlow
          Unset             \* no interface, no source, not launched

CONSTANTS Profiles,         \* the built-in configurations
          Stored,           \* configurations of configuration.json
          Sessions,         \* announced sessions
          Typed,            \* field of a flow -> the values typed into it
          Interfaces,
          Stamps,           \* values of Date.now(): two edits may fall into one
          Options,          \* command lines typed in a terminal
          MaxEdits          \* bound on the edits before a launch

ASSUME ConfigurationAssumption ==
    /\ {VirtualChannels, BankCount, MaxFlows, PortMax, AddressMax, PayloadMax, MaxEdits} \subseteq Nat
    /\ ChannelCounts \subseteq Nat \ {0}
    /\ Multicast \cup Loopback \subseteq 1 .. AddressMax /\ Multicast \cap Loopback = {}

VARIABLES launcher,       \* "app" or "terminal"
          configuration,  \* state.configuration
          file,           \* configuration.json
          saved,          \* controlEngine has saved and is about to start
          edits,
          options         \* what the engine was launched with, Unset before

editorVars == <<launcher, configuration, file, saved, edits, options>>
Directions == {"receive", "transmit"}

----------------------------------------------------------------------------
(* model.rs: the built-in configurations and validate()                    *)

Flow(id, direction, address, port, payload, channels, start, jitter, source) ==
    [id |-> id, direction |-> direction, enabled |-> TRUE, named |-> TRUE,
     address |-> address, port |-> port, payload |-> payload, channels |-> channels,
     start |-> start, jitter |-> jitter, source |-> source]

\* p.banks pairs of flows, RX before TX, on consecutive addresses and channels
\* and at a constant step of the port (0 in the built-in ones).
ProfileConfiguration(p) ==
    [profile |-> p.id, named |-> TRUE, interface |-> p.interface,
     flows |-> [i \in 1 .. 2 * p.banks |->
        LET direction == IF i % 2 = 1 THEN "receive" ELSE "transmit"
            bank == (i - 1) \div 2
        IN  Flow(<<p.id, i>>, direction,
                 (IF direction = "receive" THEN p.rx ELSE p.tx) + bank,
                 IF p.port + p.stride * bank > PortMax THEN PortMax ELSE p.port + p.stride * bank,
                 NewFlow.payload, p.channels, 1 + bank * p.channels, p.jitter, Unset)]]

Enabled(flows) == SelectSeq(flows, LAMBDA f : f.enabled)

LastChannel(f) == f.start + f.channels - 1

\* Mutant of Routed: one channel too many.
RoutedPastEnd(f) == f.start # 0 /\ LastChannel(f) <= VirtualChannels + 1

\* The flow's channels exist.
Routed(f) == f.start # 0 /\ LastChannel(f) <= VirtualChannels

\* The routing scan over one flow: its channels are marked one by one, up to
\* the first that is taken.
Occupy(seen, f) ==
    LET route == f.start .. LastChannel(f)
        taken == route \cap seen.occupied[f.direction]
    IN  IF ~Routed(f) THEN seen
        ELSE [occupied |-> [seen.occupied EXCEPT ![f.direction] = @ \cup
                               {c \in route : \A t \in taken : c < t}],
              clash |-> seen.clash \/ taken # {}]

Clash(flows) ==
    FoldLeft(Occupy, [occupied |-> [d \in Directions |-> {}], clash |-> FALSE], Enabled(flows)).clash

\* The issues of one flow.
FlowValid(c, f) ==
    /\ f.named
    /\ \/ f.address \in Multicast
       \/ c.profile = "diagnostic-loopback" /\ f.address \in Loopback
    /\ f.source # 0 /\ f.port # 0
    /\ f.payload <= PayloadMax /\ f.channels \in ChannelCounts /\ f.jitter \in JitterPackets
    /\ Routed(f)

\* Mutant of FlowsOf: a disabled flow is served too.
FlowsOfDisabled(c, direction) == SelectSeq(c.flows, LAMBDA f : f.direction = direction)

FlowsOf(c, direction) == SelectSeq(Enabled(c.flows), LAMBDA f : f.direction = direction)

validate(c) ==
    LET flows == Enabled(c.flows)
    IN  /\ c.named
        /\ \A i \in DOMAIN flows : FlowValid(c, flows[i])
        /\ \A i, j \in DOMAIN flows : flows[i].id = flows[j].id => i = j
        /\ ~Clash(c.flows)
        /\ \A d \in Directions : Len(FlowsOf(c, d)) <= MaxFlows

----------------------------------------------------------------------------
(* engine.rs: from a configuration to a command line                       *)

Banks(c, direction) == SortSeq(FlowsOf(c, direction), LAMBDA f, g : f.start < g.start)

\* Mutant of validate_banks: the payload type is not compared.
ValidateBanksAnyPayload(flows) ==
    \A i \in DOMAIN flows :
        /\ flows[i].channels = flows[1].channels
        /\ flows[i].start = flows[1].start + (i - 1) * flows[1].channels
        /\ flows[i].address = flows[1].address + (i - 1)

\* The flows can be served by banks of one engine.
validate_banks(flows) ==
    \A i \in DOMAIN flows :
        /\ flows[i].channels = flows[1].channels
        /\ flows[i].start = flows[1].start + (i - 1) * flows[1].channels
        /\ flows[i].payload = flows[1].payload
        /\ flows[i].address = flows[1].address + (i - 1)

Saturated(n) == IF n > PortMax THEN PortMax ELSE n

port_stride(flows) == IF Len(flows) = 1 THEN 0 ELSE flows[2].port - flows[1].port

\* Ports do not decrease and follow the stride, up to saturation.
PortsFollow(flows) ==
    LET stride == port_stride(flows)
    IN  Len(flows) > 1 =>
        /\ stride >= 0
        /\ \A i \in DOMAIN flows :
              flows[i].port = Saturated(flows[1].port + Saturated(stride * (i - 1)))

\* compatibility().supported
Supported(c) ==
    LET receive == Banks(c, "receive")
        transmit == Banks(c, "transmit")
        all == receive \o transmit
    IN  /\ validate(c) /\ c.interface # Unset
        /\ receive # <<>> /\ Len(receive) = Len(transmit) /\ Len(receive) <= BankCount
        /\ validate_banks(receive) /\ validate_banks(transmit)
        /\ receive[1].channels = transmit[1].channels /\ receive[1].start = transmit[1].start
        /\ PortsFollow(receive) /\ PortsFollow(transmit)
        /\ port_stride(receive) = port_stride(transmit)
        /\ \A i \in DOMAIN all : all[i].jitter = receive[1].jitter
        /\ \A i \in DOMAIN receive : receive[i].source = receive[1].source

\* arguments_for() of a configuration that is supported
arguments_for(c) ==
    LET receive == Banks(c, "receive")
        transmit == Banks(c, "transmit")
    IN  [interface |-> c.interface, streams |-> Len(receive),
         channels |-> receive[1].channels, start |-> receive[1].start,
         rx |-> receive[1].address, tx |-> transmit[1].address,
         rxPort |-> receive[1].port, txPort |-> transmit[1].port,
         stride |-> port_stride(receive), source |-> receive[1].source,
         rxPayload |-> receive[1].payload, txPayload |-> transmit[1].payload,
         jitter |-> receive[1].jitter]

----------------------------------------------------------------------------
(* The engine                                                              *)

\* parseUnsigned of each option, and the checks after it in main()
Parsed(o) ==
    /\ {o.rxPort, o.txPort, o.stride} \subseteq 0 .. PortMax
    /\ {o.rxPayload, o.txPayload} \subseteq 0 .. PayloadMax
    /\ o.streams \in 1 .. BankCount /\ o.channels \in ChannelCounts /\ o.jitter \in JitterPackets
    /\ o.start \in 1 .. VirtualChannels /\ o.start - 1 + o.streams * o.channels <= VirtualChannels
    /\ o.interface # Unset

bankAddress(base, bank) ==
    IF base \in Multicast
    THEN IF bank > AddressMax - base THEN 0 ELSE base + bank
    ELSE base

bankPort(base, stride, bank) == (base + stride * bank) % (PortMax + 1)

\* virtualChannel of consumeLoop and transmitLoop, counted from 0
bankChannels(o, bank) == {o.start - 1 + bank * o.channels + ch : ch \in 0 .. o.channels - 1}

\* Mutant of Accepts: the last port is not checked.
AcceptsAnyPort(o) ==
    /\ Parsed(o)
    /\ bankAddress(o.rx, o.streams - 1) # 0 /\ bankAddress(o.tx, o.streams - 1) # 0

\* main() and LiveEngine::start() up to the shared memory
Accepts(o) ==
    /\ Parsed(o)
    /\ o.stride * (o.streams - 1) <= PortMax - o.rxPort
    /\ o.stride * (o.streams - 1) <= PortMax - o.txPort
    /\ bankAddress(o.rx, o.streams - 1) # 0 /\ bankAddress(o.tx, o.streams - 1) # 0

----------------------------------------------------------------------------
(* main.ts: edits and the launch                                           *)

\* The user edits before the launch.
Editable == launcher = "app" /\ options = Unset /\ edits < MaxEdits

Edit(c) ==
    /\ edits' = edits + 1 /\ configuration' = c
    /\ UNCHANGED <<launcher, file, saved, options>>

\* A profile keeps the interface, but for the loopback one.
ChooseProfile ==
    \E p \in Profiles :
        LET c == ProfileConfiguration(p)
        IN  Edit(IF p.id = "diagnostic-loopback" THEN c
                 ELSE [c EXCEPT !.interface =
                          IF configuration.interface = "lo0" THEN Unset ELSE configuration.interface])

ChooseInterface == \E i \in Interfaces : Edit([configuration EXCEPT !.interface = i])

Rename == \E named \in BOOLEAN : Edit([configuration EXCEPT !.named = named])

\* Index of the first flow with an id: Array.find.
First(flows, id) == CHOOSE i \in DOMAIN flows : flows[i].id = id /\ \A j \in 1 .. i - 1 : flows[j].id # id

EditFlow ==
    \E i \in DOMAIN configuration.flows, field \in DOMAIN Typed :
        \E value \in Typed[field] :
            Edit([configuration EXCEPT !.flows[First(configuration.flows, configuration.flows[i].id)] =
                     [@ EXCEPT ![field] = value]])

DeleteFlow ==
    \E i \in DOMAIN configuration.flows :
        Edit([configuration EXCEPT !.flows =
                 SelectSeq(@, LAMBDA f : f.id # configuration.flows[i].id)])

\* The first channel after the given flows, at most the last one.
NextStart(flows) ==
    LET next == FoldLeft(LAMBDA m, f : IF f.start + f.channels > m THEN f.start + f.channels ELSE m, 1, flows)
    IN  IF next > VirtualChannels THEN VirtualChannels ELSE next

\* addFlow: after every flow of its direction, the disabled ones too.
AddFlow ==
    \E direction \in Directions, stamp \in Stamps :
        LET used == SelectSeq(configuration.flows, LAMBDA f : f.direction = direction)
        IN  Edit([configuration EXCEPT !.flows = Append(@,
                Flow(<<direction, stamp>>, direction,
                     IF direction = "receive" THEN NewFlow.rx ELSE NewFlow.tx,
                     NewFlow.port, NewFlow.payload, NewFlow.channels, NextStart(used), NewFlow.jitter, Unset))])

\* importSession: into the receive flow of the planet profile, or a new flow
\* after the enabled ones.
ImportSession ==
    \E s \in Sessions, stamp \in Stamps :
        LET flows == configuration.flows
            receiving == {i \in DOMAIN flows : flows[i].direction = "receive"}
            imported == Flow(<<"sap", stamp>>, "receive", s.address, s.port, s.payload, s.channels,
                             NextStart(FlowsOf(configuration, "receive")), NewFlow.jitter, s.source)
            planet == CHOOSE i \in receiving : \A j \in receiving : i <= j
        IN  IF configuration.profile = "planet22c" /\ receiving # {}
            THEN Edit([configuration EXCEPT !.flows[planet] =
                          [imported EXCEPT !.id = flows[planet].id, !.start = 1]])
            ELSE Edit([configuration EXCEPT !.flows = Append(@, imported)])

\* save_configuration, of the button and as the first half of controlEngine
Save ==
    /\ launcher = "app" /\ options = Unset /\ ~saved /\ validate(configuration)
    /\ file' = configuration /\ saved' \in BOOLEAN
    /\ UNCHANGED <<launcher, configuration, edits, options>>

\* The second half: start_engine with state.configuration as it is by then.
Launch ==
    /\ saved /\ options = Unset
    /\ IF Supported(configuration) THEN options' = arguments_for(configuration) ELSE UNCHANGED options
    /\ saved' = FALSE
    /\ UNCHANGED <<launcher, configuration, file, edits>>

\* The application is closed, or killed, and loads the file when it is back.
Reload ==
    /\ launcher = "app" /\ options = Unset
    /\ configuration' = file /\ saved' = FALSE
    /\ UNCHANGED <<launcher, file, edits, options>>

\* The engine is run by hand.
TerminalLaunch ==
    /\ launcher = "terminal" /\ options = Unset
    /\ options' \in Options
    /\ UNCHANGED <<launcher, configuration, file, saved, edits>>

EditorInit ==
    /\ \/ launcher = "app" /\ configuration \in {ProfileConfiguration(p) : p \in Stored}
       \/ launcher = "terminal" /\ configuration = Unset
    /\ file = configuration /\ saved = FALSE /\ edits = 0 /\ options = Unset

EditorNext ==
    \/ Editable /\ (\/ ChooseProfile \/ ChooseInterface \/ Rename \/ EditFlow
                    \/ DeleteFlow \/ AddFlow \/ ImportSession)
    \/ Save
    \/ Launch
    \/ Reload
    \/ TerminalLaunch

EditorSpec == EditorInit /\ [][EditorNext]_editorVars

----------------------------------------------------------------------------
(* Properties.                                                             *)

FlowFits(f) == f.port \in 0 .. PortMax /\ {f.payload, f.start, f.channels} \subseteq Nat

\* However flows were added, imported, edited, disabled and deleted, the flows
\* that arguments_for() makes banks of are the enabled ones of a direction, all
\* of them, and fit their fields (main.ts:252-378, engine.rs:289-292, :375-384).
FlowsListed ==
    launcher = "app" /\ validate(configuration) =>
        LET all == Range(configuration.flows)
        IN  /\ \A f \in all : FlowFits(f)
            /\ Range(Enabled(configuration.flows)) = {f \in all : f.enabled}
            /\ \A d \in Directions :
                  LET banks == Banks(configuration, d)
                  IN  /\ banks \in Seq(all)
                      /\ Range(banks) = {f \in all : f.enabled /\ f.direction = d}
                      /\ Range(banks) = Range(FlowsOf(configuration, d))

\* What the application calls supported the engine does not refuse, except for
\* ports that reach the last one only by saturation, which port_stride() lets
\* through (engine.rs:282-373, :422-439, EngineMain.cpp:219-249,
\* LiveEngine.cpp:87-101).
SupportedIsAccepted ==
    launcher = "app" /\ options # Unset =>
        \/ Accepts(options)
        \/ options.stride * (options.streams - 1) > PortMax - options.rxPort
        \/ options.stride * (options.streams - 1) > PortMax - options.txPort

Served(o, direction) ==
    {[address |-> bankAddress(IF direction = "receive" THEN o.rx ELSE o.tx, bank),
      port |-> bankPort(IF direction = "receive" THEN o.rxPort ELSE o.txPort, o.stride, bank),
      payload |-> IF direction = "receive" THEN o.rxPayload ELSE o.txPayload,
      channels |-> bankChannels(o, bank)] : bank \in 0 .. o.streams - 1}

Wanted(c, direction) ==
    LET flows == FlowsOf(c, direction)
    IN  {[address |-> flows[i].address, port |-> flows[i].port, payload |-> flows[i].payload,
          channels |-> {n - 1 : n \in flows[i].start .. LastChannel(flows[i])}] : i \in DOMAIN flows}

\* The banks of an engine launched by the application are the enabled flows of
\* the configuration, each at its own address, port, payload type and channels,
\* except that several banks on loopback addresses all fall on the first
\* (engine.rs:282-413, LiveEngine.cpp:32-49, :265, :281-282, :312).
BanksServeFlows ==
    launcher = "app" /\ options # Unset /\ Accepts(options) =>
        \A d \in Directions :
            \/ Served(options, d) = Wanted(configuration, d)
            \/ options.streams > 1 /\ (IF d = "receive" THEN options.rx ELSE options.tx) \notin Multicast

\* Whatever its command line, the banks of an engine that starts use rings that
\* exist, none of them twice, and no port wraps around (EngineMain.cpp:234-240,
\* LiveEngine.cpp:90-100, used at :265 and :312).
EngineStaysInBounds ==
    options # Unset /\ Accepts(options) =>
        \A b \in 0 .. options.streams - 1 :
            /\ bankChannels(options, b) \subseteq 0 .. VirtualChannels - 1
            /\ \A a \in 0 .. b - 1 : bankChannels(options, a) \cap bankChannels(options, b) = {}
            /\ bankPort(options.rxPort, options.stride, b) >= options.rxPort
            /\ bankPort(options.txPort, options.stride, b) >= options.txPort
=============================================================================
