-------------------------- MODULE RouterDetection --------------------------
(***************************************************************************)
(* What kind of router the gateway is: src/core/RouterDetector.cpp probes  *)
(* it over several protocols in a thread of its own, NetworkManager starts *)
(* a detection at most once a minute unless the user forces one, and       *)
(* src/gui/RouterPage.cpp shows the stages and the result.                 *)
(*                                                                         *)
(* The record of a detection goes through all stages; each adds what it    *)
(* learns, so that the order of the stages is the order of their weight.   *)
(* Texts are modelled by the stage that they came from.  Firmware, names   *)
(* and raw replies are kept like the model, and are left out.              *)
(***************************************************************************)
EXTENDS Naturals, Sequences

CONSTANTS
    Gateway,    \* addresses of gateways
    Hotspot,    \* those that are the address of a telephone's or a PC's hotspot
    Random,     \* those whose MAC has the locally-administered bit
    Listed,     \* those whose MAC has a known vendor
    Model,      \* router_models.json: a sequence of priority, class and caps
    NoGateway,  \* no default route, or no detection
    MaxEvents,  \* bound on the signals on their way to the page
    MaxAsked    \* bound on the detections that wait for the thread

ASSUME RouterAssumption ==
    /\ Hotspot \cup Random \cup Listed \subseteq Gateway /\ NoGateway \notin Gateway
    /\ Model \in Seq([priority : Nat, class : {"enterprise", "smb", "isp-cpe", "home"},
                      caps : SUBSET {"VPN", "IPv6", "WPA3"}])
    /\ MaxEvents \in Nat /\ MaxAsked \in Nat

VARIABLES
    gateway,    \* m_gatewayIp
    recent,     \* the last probe was less than a minute ago
    asked,      \* calls of detect that wait for the detector's thread
    stage,      \* the stage of the running detection
    info,       \* its RouterInfo, or that of the last one
    lastInfo,   \* the gateway of m_lastInfo
    events,     \* "stage", "done" and results on their way to the page
    scanning,   \* the page's spinner turns and its button is disabled
    rescan,     \* the page's call of triggerRouterDetection is on its way
    page        \* the gateway of the RouterInfo on the page

routerVars ==
    <<gateway, recent, asked, stage, info, lastInfo, events, scanning, rescan, page>>

-----------------------------------------------------------------------------

Stages == <<"hotspot", "HTTP", "SSDP", "mDNS", "SNMP", "ports", "classify", "infer">>
Cap == {"WebUI", "UPnP", "SNMP", "SSH", "Telnet", "DualBand", "IPv6", "WPA3", "VPN", "Enterprise"}
Class == {"unknown", "hotspot", "enterprise", "smb", "isp-cpe", "home"}
Source == {"none", "hotspot", "HTTP", "SSDP", "classify", "infer"}
Info == [gw : Gateway \cup {NoGateway}, class : Class, maker : Source, model : Source,
         hint : BOOLEAN, caps : SUBSET Cap]
Blank(gw) == [gw |-> gw, class |-> "unknown", maker |-> "none", model |-> "none",
              hint |-> FALSE, caps |-> {}]

RouterTypeOK ==
    /\ gateway \in Gateway \cup {NoGateway} /\ recent \in BOOLEAN
    /\ asked \in Seq(Gateway) /\ Len(asked) <= MaxAsked
    /\ stage \in 0 .. Len(Stages) /\ info \in Info
    /\ lastInfo \in Gateway \cup {NoGateway} /\ page \in Gateway \cup {NoGateway}
    /\ events \in Seq({"stage", "done"} \cup Gateway)
    /\ scanning \in BOOLEAN /\ rescan \in BOOLEAN

\* The page is built while the first detection is still to come.
RouterInit ==
    /\ gateway = NoGateway /\ recent = FALSE /\ asked = << >>
    /\ stage = 0 /\ info = Blank(NoGateway) /\ lastInfo = NoGateway
    /\ events = << >> /\ scanning = TRUE /\ rescan = FALSE
    /\ page = NoGateway

-----------------------------------------------------------------------------
(* NetworkManager.                                                         *)

\* runScan reads the routing table.
FindGateway ==
    /\ gateway' \in (Gateway \cup {NoGateway}) \ {gateway}
    /\ UNCHANGED <<recent, asked, stage, info, lastInfo, events, scanning, rescan, page>>

Trigger(force) ==
    IF gateway = NoGateway \/ (recent /\ ~force)
      THEN UNCHANGED <<recent, asked>>
      ELSE /\ Len(asked) < MaxAsked
           /\ recent' = TRUE /\ asked' = Append(asked, gateway)

\* A scan asks after its step 3.
ScanTriggers ==
    /\ gateway # NoGateway /\ ~recent /\ Trigger(FALSE)
    /\ UNCHANGED <<gateway, stage, info, lastInfo, events, scanning, rescan, page>>

RescanTriggers ==
    /\ rescan /\ rescan' = FALSE /\ Trigger(TRUE)
    /\ UNCHANGED <<gateway, stage, info, lastInfo, events, scanning, page>>

MinutePasses ==
    /\ recent /\ recent' = FALSE
    /\ UNCHANGED <<gateway, asked, stage, info, lastInfo, events, scanning, rescan, page>>

-----------------------------------------------------------------------------
(* The detector.                                                           *)

Detect ==
    /\ stage = 0 /\ asked # << >>
    /\ asked' = Tail(asked) /\ stage' = 1 /\ info' = Blank(Head(asked))
    /\ UNCHANGED <<gateway, recent, lastInfo, events, scanning, rescan, page>>

\* The signal of the stage leaves before it starts.
StageEnds(name, new) ==
    /\ stage # 0 /\ Stages[stage] = name /\ name # "infer"
    /\ stage' = stage + 1 /\ info' = new
    /\ Len(events) < MaxEvents
    /\ events' = Append(events, "stage")
    /\ UNCHANGED <<gateway, recent, asked, lastInfo, scanning, rescan, page>>

\* A text is only taken where there is none yet.
Else(old, new) == IF old = "none" THEN new ELSE old
With(caps) == [info EXCEPT !.caps = @ \cup caps]

ProbeMobileHotspot ==
    \/ /\ info.gw \in Hotspot
       /\ \E caps \in {{}, {"DualBand", "IPv6"}, {"DualBand", "IPv6", "WPA3"}} :
             StageEnds("hotspot", [With(caps) EXCEPT !.class = "hotspot",
                                                !.maker = "hotspot", !.model = "hotspot"])
    \/ info.gw \notin Hotspot /\ StageEnds("hotspot", info)

\* The first port that answers, perhaps with a realm.
ProbeHTTP ==
    \/ StageEnds("HTTP", info)
    \/ \E realm \in {"none", "HTTP"} :
          StageEnds("HTTP", [With({"WebUI"}) EXCEPT !.model = Else(@, realm)])

\* What others answer is skipped.  The description is fetched from whatever
\* host LOCATION names.
ProbeSSDPUPnP ==
    \/ StageEnds("SSDP", info)
    \/ \E maker, model \in {"none", "SSDP"} :
          StageEnds("SSDP", [With({"UPnP"}) EXCEPT !.maker = Else(@, maker), !.model = Else(@, model)])

\* One datagram, which counts if the gateway sent it; it is only recorded.
ProbeMDNS == StageEnds("mDNS", info)

\* The first community that the gateway answers.
ProbeSNMP ==
    \/ StageEnds("SNMP", info)
    \/ \E hint \in BOOLEAN : StageEnds("SNMP", [With({"SNMP"}) EXCEPT !.hint = hint])

ProbePorts ==
    \E open \in SUBSET {"SSH", "Telnet", "WebUI"} : StageEnds("ports", With(open))

\* The best entry of the table: the highest priority, and of these the first.
Best(matched) ==
    CHOOSE i \in matched : \A j \in matched :
        Model[j].priority < Model[i].priority \/ (Model[j].priority = Model[i].priority /\ i <= j)

\* Mutant of Matched: the entry has the last word on what the router can do.
MatchedOnly(entry) ==
    [info EXCEPT !.maker = Else(@, "classify"), !.model = Else(@, "classify"),
                 !.class = entry.class, !.caps = entry.caps]

Matched(entry) ==
    [With(entry.caps) EXCEPT !.maker = Else(@, "classify"), !.model = Else(@, "classify"),
                             !.class = entry.class]

\* The key words are looked for in the texts of all probes.
HasText == info.caps \cap {"WebUI", "UPnP", "SNMP"} # {} \/ info.maker # "none"

ClassifyFromModels ==
    \/ StageEnds("classify", info)
    \/ \E matched \in SUBSET DOMAIN Model :
          /\ HasText /\ matched # {}
          /\ StageEnds("classify", Matched(Model[Best(matched)]))

Silent == info.caps \cap {"WebUI", "SNMP", "UPnP"} = {}

\* The class that the evidence suggests where the table had no entry.
Inferred(enterprise) ==
    IF info.class # "unknown" THEN info.class
    ELSE IF enterprise THEN "enterprise"
    ELSE IF "SSH" \in info.caps THEN "smb"
    ELSE IF info.gw \in Random /\ Silent THEN "hotspot"
    ELSE "home"

InferredInfo ==
    LET enterprise == {"SSH", "SNMP"} \subseteq info.caps \/ info.class = "enterprise"
    IN  [With((IF enterprise THEN {"Enterprise"} ELSE {})
              \cup (IF info.hint THEN {"VPN"} ELSE {}))
           EXCEPT !.class = Inferred(enterprise),
                  !.maker = IF info.gw \in Listed \/ Inferred(enterprise) = "hotspot"
                              THEN Else(@, "infer") ELSE @,
                  !.model = IF info.class = "unknown" /\ Inferred(enterprise) = "hotspot"
                              THEN Else(@, "infer") ELSE @]

\* inferCapabilities, and the end of detect: the result is stored, then told.
InferCapabilities ==
    /\ stage # 0 /\ Stages[stage] = "infer" /\ stage' = 0
    /\ Len(events) + 1 < MaxEvents
    /\ info' = InferredInfo /\ lastInfo' = info.gw
    /\ events' = events \o <<"done", info.gw>>
    /\ UNCHANGED <<gateway, recent, asked, scanning, rescan, page>>

-----------------------------------------------------------------------------
(* The page.                                                               *)

\* setDetectionStage and updateInfo.
PageEvent ==
    /\ events # << >> /\ events' = Tail(events)
    /\ scanning' = (Head(events) = "stage")
    /\ page' = IF Head(events) \in Gateway THEN Head(events) ELSE page
    /\ UNCHANGED <<gateway, recent, asked, stage, info, lastInfo, rescan>>

\* onRescanClicked, on a button that is enabled.
RescanClicked ==
    /\ ~scanning /\ ~rescan
    /\ scanning' = TRUE /\ rescan' = TRUE
    /\ UNCHANGED <<gateway, recent, asked, stage, info, lastInfo, events, page>>

RouterStep ==
    \/ FindGateway \/ ScanTriggers \/ RescanTriggers \/ MinutePasses
    \/ Detect \/ ProbeMobileHotspot \/ ProbeHTTP \/ ProbeSSDPUPnP \/ ProbeMDNS \/ ProbeSNMP
    \/ ProbePorts \/ ClassifyFromModels \/ InferCapabilities
    \/ PageEvent \/ RescanClicked

RouterSpec == RouterInit /\ [][RouterStep]_routerVars

-----------------------------------------------------------------------------

Keeps(old, new) == old # "none" => new = old

\* What a probe has found is never retracted by a later stage of the same
\* detection: capabilities are only added, and the maker and the model stay
\* those of the first stage that knew them, up to the result that is stored
\* ("only set true, never retract a probe-detected true", classifyFromModels).
EvidenceIsKept ==
    [][stage # 0 => /\ info.caps \subseteq info'.caps
                    /\ Keeps(info.maker, info'.maker)
                    /\ Keeps(info.model, info'.model)]_routerVars
=============================================================================
