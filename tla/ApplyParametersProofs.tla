------------------------ MODULE ApplyParametersProofs ------------------------
(***************************************************************************)
(* Theorems about ApplyParameters: type correctness, and that a run leaves *)
(* the files of the adapters alone that its command line does not name.    *)
(***************************************************************************)
EXTENDS ApplyParameters, WellFoundedInduction, TLAPS

\* The list built from a command line, and the list without the unknown adapters, are
\* lists of options again.
LEMMA ReverseIsOptions ==
  ASSUME NEW line, IsOptions(line)
  PROVE  IsOptions([k \in DOMAIN line |-> line[Len(line) + 1 - k]])
<1> DEFINE list == [k \in DOMAIN line |-> line[Len(line) + 1 - k]]
<1>1. line \in Seq(Option) /\ Len(line) \in Nat /\ DOMAIN line = 1..Len(line)
  BY DEF IsOptions
<1>2. \A k \in DOMAIN line : Len(line) + 1 - k \in DOMAIN line
  BY <1>1
<1>3. \A k \in DOMAIN line : list[k] \in Option
  BY <1>1, <1>2
<1>4. list \in Seq(Option)
  BY <1>1, <1>3
<1>5. DOMAIN list = DOMAIN line
  OBVIOUS
<1> QED
  BY <1>2, <1>4, <1>5 DEF IsOptions

LEMMA DropIsOptions ==
  ASSUME IsOptions(opts)
  PROVE  IsOptions([k \in DOMAIN opts |->
           IF IsKnown(opts[k].mac) THEN opts[k] ELSE [opts[k] EXCEPT !.type = "none"]])
<1> DEFINE list == [k \in DOMAIN opts |->
             IF IsKnown(opts[k].mac) THEN opts[k] ELSE [opts[k] EXCEPT !.type = "none"]]
<1>1. opts \in Seq(Option) /\ Len(opts) \in Nat /\ DOMAIN opts = 1..Len(opts)
  BY DEF IsOptions
<1> DEFINE Kinds == {Phases[n] : n \in DOMAIN Phases} \cup {"none"}
<1>2. \A k \in DOMAIN opts : list[k] \in Option
  <2> SUFFICES ASSUME NEW k \in DOMAIN opts PROVE list[k] \in Option
    OBVIOUS
  <2>1. opts[k] \in Option
    BY <1>1
  <2>2. "none" \in Kinds
    OBVIOUS
  <2>3. [opts[k] EXCEPT !.type = "none"] \in Option
    <3> HIDE DEF Kinds
    <3>1. opts[k] \in [type : Kinds, mac : Dev \cup Missing \cup {None}, value : Seq(Word)]
      BY <2>1 DEF Option, Kinds
    <3>2. [opts[k] EXCEPT !.type = "none"]
             \in [type : Kinds, mac : Dev \cup Missing \cup {None}, value : Seq(Word)]
      BY <2>2, <3>1
    <3> QED
      BY <3>2 DEF Option, Kinds
  <2> QED
    BY <2>1, <2>3
<1>3. list \in Seq(Option)
  BY <1>1, <1>2
<1>4. \A k \in DOMAIN list : list[k].type \in {"gateway", "ip"} => list[k] = opts[k]
  BY <1>1 DEF Option
<1> QED
  BY <1>3, <1>4 DEF IsOptions

\* The scripts leave well-formed configurations.
LEMMA DhcpConfigType ==
  ASSUME NEW c \in Config, NEW protos
  PROVE  DhcpConfig(c, protos) \in Config
<1>1. ("4" \in protos) \in BOOLEAN /\ ("6" \in protos) \in BOOLEAN
  OBVIOUS
<1>2. (IF "4" \in protos THEN {} ELSE c.alias) \in SUBSET Addr4
  BY DEF Config
<1> QED
  BY <1>1, <1>2 DEF DhcpConfig, Absent, Config

LEMMA IpConfigType ==
  ASSUME NEW c \in Config, NEW value, NEW protos
  PROVE  IpConfig(c, value, protos) \in Config
<1>1. /\ FirstIPv4(value) \subseteq Addr4 /\ IPv4Of(value) \subseteq Addr4
      /\ WrittenIPv6(value) \subseteq Addr6
  BY DEF FirstIPv4, IPv4Of, WrittenIPv6
<1>2. Absent \in Config
  BY DEF Absent, Config
<1>3. StaticConfig(value, protos) \in Config
  <2>1. /\ FirstIPv4(value) \cup WrittenIPv6(value) \in SUBSET (Addr4 \cup Addr6)
        /\ IPv4Of(value) \ FirstIPv4(value) \in SUBSET Addr4
    BY <1>1
  <2>2. /\ (IPv4Of(value) = {} /\ "4" \in protos) \in BOOLEAN
        /\ (IPv6Of(value) = {} /\ "6" \in protos) \in BOOLEAN
    OBVIOUS
  <2> QED
    BY <1>2, <2>1, <2>2 DEF StaticConfig, Absent, Config
<1>4. NoAddressConfig(c) \in Config
  BY <1>2 DEF NoAddressConfig, Config
<1> QED
  BY <1>3, <1>4 DEF IpConfig

LEMMA GatewayTypes ==
  ASSUME NEW c \in Config, NEW w \in GatewayWord, NEW file \in RouteFile,
         NEW d \in Dev, NEW e \in Dev \cup {None}
  PROVE  /\ GatewayConfig(c, w) \in Config
         /\ GatewayRoutes(file, w) \in RouteFile
         /\ GatewayDev(e, w, d) \in Dev \cup {None}
<1>1. GatewayConfig(c, w) \in Config
  <2>1. [c EXCEPT !.gw4 = None] \in Config /\ [c EXCEPT !.gw6 = None] \in Config
    BY DEF Config
  <2>2. w \in Gw4 => [c EXCEPT !.gw4 = w] \in Config
    BY DEF Config
  <2>3. w \in Gw6 => [c EXCEPT !.gw6 = w] \in Config
    BY DEF Config
  <2> QED
    BY <2>1, <2>2, <2>3 DEF GatewayConfig, GatewayWord
<1>2. GatewayRoutes(file, w) \in RouteFile
  BY DEF GatewayRoutes, RouteFile
<1>3. GatewayDev(e, w, d) \in Dev \cup {None}
  BY DEF GatewayDev
<1> QED
  BY <1>1, <1>2, <1>3

\* Every step keeps the types: the list of options stays one, and redhat-set_gateway.sh
\* runs only for a --gateway of an adapter that is there.
THEOREM TypeCorrect == Spec => []TypeOK
<1>1. Init => TypeOK
  <2> SUFFICES ASSUME Init PROVE TypeOK
    OBVIOUS
  <2>1. IsOptions(opts)
    BY ReverseIsOptions, CommandLinesAssumption DEF Init
  <2>2. cfg \in [Dev -> Config]
    BY ConfigurationsAssumption DEF Init
  <2>3. routes \in [Dev -> RouteFile]
    BY DEF Init, RouteFile
  <2> QED
    BY <2>1, <2>2, <2>3 DEF Init, TypeOK, Phases
<1>2. TypeOK /\ [Next]_vars => TypeOK'
  <2> SUFFICES ASSUME TypeOK, [Next]_vars PROVE TypeOK'
    OBVIOUS
  <2> USE DEF TypeOK
  <2>0. Len(Phases) = 7 /\ DOMAIN Phases = 1..7 /\ Outcome \subseteq {0, 1}
    BY DEF Phases, Outcome
  <2>1. CASE Prepare
    <3>1. IsOptions(opts')
      BY <2>1, DropIsOptions DEF Prepare
    <3>2. changed' \subseteq Dev /\ dhcp4' \subseteq Dev /\ dhcp6' \subseteq Dev
      BY <2>1 DEF Prepare
    <3>3. \A k \in DOMAIN opts' : opts'[k].type = "gateway" => opts'[k].mac \in Dev
      <4> SUFFICES ASSUME NEW k \in DOMAIN opts', opts'[k].type = "gateway"
                   PROVE  opts'[k].mac \in Dev
        OBVIOUS
      <4>1. k \in DOMAIN opts /\ opts[k] \in Option
        BY <2>1 DEF Prepare, IsOptions
      <4>2. IsKnown(opts[k].mac) /\ opts'[k] = opts[k]
        BY <2>1, <4>1 DEF Prepare, Option
      <4> QED
        BY <4>1, <4>2 DEF IsKnown, IsOptions
    <3> QED
      BY <2>0, <2>1, <3>1, <3>2, <3>3 DEF Prepare, stored, result
  <2>2. ASSUME NEW d \in Dev, At(d)
        PROVE  i' \in Nat \ {0} /\ at = "device" /\ phase # 0
    BY <2>0, <2>2, DevicesAssumption DEF At
  <2> USE DEF netinfo, stored, result
  <2>3. ASSUME NEW d \in Dev, SetDhcp(d) \/ SetDhcpFails(d)
        PROVE  TypeOK'
    <3>1. DhcpConfig(cfg[d], ProtosOf(d)) \in Config
      BY DhcpConfigType
    <3>2. cfg' \in [Dev -> Config]
      BY <2>3, <3>1 DEF SetDhcp, SetDhcpFails
    <3>3. dhcp4' \subseteq Dev /\ dhcp6' \subseteq Dev
      BY <2>3 DEF SetDhcp, SetDhcpFails, Flags
    <3>4. rc' \in {0, 1} /\ rc2' \in {0, 1} /\ failed' \subseteq Dev \cup {None}
      BY <2>0, <2>3 DEF SetDhcp, SetDhcpFails, Returns
    <3> QED
      BY <2>2, <2>3, <3>2, <3>3, <3>4 DEF SetDhcp, SetDhcpFails
  <2>4. ASSUME NEW d \in Dev, SetIp(d) \/ SetIpFails(d)
        PROVE  TypeOK'
    <3>1. IpConfig(cfg[d], OptOf(d, "ip"), ProtosOf(d)) \in Config
      BY IpConfigType
    <3>2. Absent \in Config
      BY DEF Absent, Config
    <3>3. cfg' \in [Dev -> Config]
      BY <2>4, <3>1, <3>2 DEF SetIp, SetIpFails
    <3>4. rc' \in {0, 1} /\ rc2' \in {0, 1} /\ failed' \subseteq Dev \cup {None}
      BY <2>0, <2>4 DEF SetIp, SetIpFails, Returns
    <3> QED
      BY <2>2, <2>4, <3>3, <3>4 DEF SetIp, SetIpFails
  <2>5. ASSUME NEW d \in Dev, SetDns(d) \/ SetDnsFails(d)
        PROVE  TypeOK'
    BY <2>2, <2>5 DEF SetDns, SetDnsFails, Returns
  <2>6. ASSUME NEW d \in Dev, SetRoute(d) \/ SkipRoute(d)
        PROVE  TypeOK'
    <3>1. RoutesOf(OptOf(d, "route")) \in RouteFile
      BY DEF RoutesOf, RouteFile
    <3>2. routes' \in [Dev -> RouteFile]
      BY <2>6, <3>1 DEF SetRoute, SkipRoute
    <3>3. rc' \in {0, 1} /\ rc2' \in {0, 1} /\ failed' \subseteq Dev \cup {None}
      BY <2>0, <2>6 DEF SetRoute, SkipRoute, Returns
    <3> QED
      BY <2>2, <2>6, <3>2, <3>3 DEF SetRoute, SkipRoute
  <2>7. ASSUME NEW d \in Dev, PassGateway(d)
        PROVE  TypeOK'
    BY <2>2, <2>7 DEF PassGateway
  <2>8. CASE EndDevices
    BY <2>0, <2>8 DEF EndDevices, NoMoreDevices, NextPhase, Kind, Phases
  <2>9. CASE SetSearchDomain \/ SetHostname \/ SetGlobalFails
    BY <2>0, <2>9 DEF SetSearchDomain, SetHostname, SetGlobalFails, NoMoreDevices,
                      NextPhase, GlobalReturns
  <2>10. ASSUME NEW k \in DOMAIN opts, AtRecord(k)
         PROVE  /\ k \in Nat \ {0} /\ k + 1 \in Nat \ {0}
                /\ opts[k].type = "gateway" /\ opts[k].mac \in Dev
                /\ at \in {"remove", "set"} /\ phase = 3
    BY <2>10 DEF AtRecord, InPass, IsOptions
  <2>11. ASSUME NEW k \in DOMAIN opts, SkipGateway(k) \/ StartGateway(k) \/ GatewayNoFile(k)
         PROVE  TypeOK'
    <3>1. {} \in RouteFile
      BY DEF RouteFile
    <3>2. AtRecord(k)
      BY <2>11 DEF SkipGateway, StartGateway, GatewayNoFile
    <3>3. routes' \in [Dev -> RouteFile] /\ skipped' \subseteq Dev
      BY <2>10, <2>11, <3>1, <3>2 DEF SkipGateway, StartGateway, GatewayNoFile
    <3> QED
      BY <2>10, <2>11, <3>2, <3>3 DEF SkipGateway, StartGateway, GatewayNoFile
  <2>12. ASSUME at = "script"
         PROVE  /\ i \in DOMAIN opts /\ opts[i].mac \in Dev /\ phase = 3
                /\ \A n \in DOMAIN opts[i].value : opts[i].value[n] \in GatewayWord
    BY <2>12 DEF IsOptions
  <2>13. CASE GatewayWordStep
    <3>1. PICK w \in GatewayWord, d \in Dev :
             /\ cfg' = [cfg EXCEPT ![d] = GatewayConfig(cfg[d], w)]
             /\ routes' = [routes EXCEPT ![d] = GatewayRoutes(routes[d], w)]
             /\ dev6' = GatewayDev(dev6, w, d)
      BY <2>12, <2>13 DEF GatewayWordStep
    <3>2. /\ cfg' \in [Dev -> Config] /\ routes' \in [Dev -> RouteFile]
          /\ dev6' \in Dev \cup {None}
      BY <3>1, GatewayTypes
    <3> QED
      BY <2>13, <3>2 DEF GatewayWordStep
  <2>14. ASSUME at = "script", NEW r \in {0, 1}, GatewayReturns(r)
         PROVE  /\ rc' \in {0, 1} /\ rc2' \in {0, 1} /\ failed' \subseteq Dev \cup {None}
                /\ at' \in {"remove", "set"} /\ i' \in Nat \ {0} /\ phase = 3
    BY <2>12, <2>14 DEF GatewayReturns, Returns
  <2>15. CASE GatewayWordFails
    <3>1. cfg' \in [Dev -> Config]
      <4>1. CASE UNCHANGED cfg
        BY <4>1
      <4>2. CASE ~UNCHANGED cfg
        <5>1. PICK w \in GatewayWord, d \in Dev :
                 cfg' = [cfg EXCEPT ![d] = GatewayConfig(cfg[d], w)]
          BY <2>12, <2>15, <4>2 DEF GatewayWordFails
        <5> QED
          BY <5>1, GatewayTypes
      <4> QED
        BY <4>1, <4>2
    <3> QED
      BY <2>14, <2>15, <3>1 DEF GatewayWordFails
  <2>16. CASE EndGateway
    <3>1. PICK r \in {0, 1} : GatewayReturns(r)
      BY <2>0, <2>16 DEF EndGateway
    <3> QED
      BY <2>14, <2>16, <3>1 DEF EndGateway
  <2>17. CASE EndPass
    BY <2>17 DEF EndPass, NextPhase, Phases
  <2>18. CASE UNCHANGED vars
    BY <2>18 DEF vars
  <2> QED
    BY <2>1, <2>3, <2>4, <2>5, <2>6, <2>7, <2>8, <2>9, <2>11, <2>13, <2>15, <2>16, <2>17,
       <2>18 DEF Next
<1> QED
  BY <1>1, <1>2, PTL DEF Spec

\* No step changes the files of an adapter no option names, whatever the adapters are
\* called, except those redhat-set_ip.sh removes by the beginning of their name.
THEOREM OthersUntouchedHolds == Spec => OthersUntouched
<1>1. TypeOK /\ [Next]_vars =>
        [\A d \in Dev : (\A k \in DOMAIN opts : opts[k].mac # d) /\ d \notin Wiped =>
                        cfg'[d] = cfg[d] /\ routes'[d] = routes[d]]_vars
  <2> SUFFICES ASSUME TypeOK, Next, NEW e \in Dev,
                      \A k \in DOMAIN opts : opts[k].mac # e, e \notin Wiped
               PROVE  cfg'[e] = cfg[e] /\ routes'[e] = routes[e]
    OBVIOUS
  <2>1. cfg \in [Dev -> Config] /\ routes \in [Dev -> RouteFile]
    BY DEF TypeOK
  <2>2. ASSUME NEW d \in Dev, At(d)
        PROVE  d # e
    BY <2>2 DEF At, Handled, HasOpt
  <2>3. ASSUME NEW d \in Dev, SetDhcp(d)
        PROVE  cfg'[e] = cfg[e] /\ routes'[e] = routes[e]
    BY <2>1, <2>2, <2>3 DEF SetDhcp
  <2>4. ASSUME NEW d \in Dev, SetIp(d)
        PROVE  cfg'[e] = cfg[e] /\ routes'[e] = routes[e]
    <3>1. <<d, e>> \notin LongerName
      BY <2>4 DEF SetIp, At, Handled, HasOpt, Wiped
    <3> QED
      BY <2>1, <2>2, <2>4, <3>1 DEF SetIp
  <2>5. ASSUME NEW d \in Dev, SetRoute(d)
        PROVE  cfg'[e] = cfg[e] /\ routes'[e] = routes[e]
    BY <2>1, <2>2, <2>5 DEF SetRoute
  <2>6. ASSUME NEW d \in Dev,
               SetDhcpFails(d) \/ SetIpFails(d) \/ SetDns(d) \/ SetDnsFails(d)
                 \/ SkipRoute(d) \/ PassGateway(d)
        PROVE  cfg'[e] = cfg[e] /\ routes'[e] = routes[e]
    BY <2>6 DEF SetDhcpFails, SetIpFails, SetDns, SetDnsFails, SkipRoute, PassGateway, stored
  <2>7. ASSUME NEW k \in DOMAIN opts, SkipGateway(k) \/ StartGateway(k) \/ GatewayNoFile(k)
        PROVE  cfg'[e] = cfg[e] /\ routes'[e] = routes[e]
    BY <2>1, <2>7 DEF SkipGateway, StartGateway, GatewayNoFile, stored
  <2>8. at = "script" => opts[i].mac # e
    BY DEF TypeOK
  <2>9. CASE GatewayWordStep
    BY <2>1, <2>8, <2>9 DEF GatewayWordStep
  <2>10. CASE GatewayWordFails
    BY <2>1, <2>8, <2>10 DEF GatewayWordFails
  <2>11. CASE \/ Prepare \/ EndDevices \/ SetSearchDomain \/ SetHostname \/ SetGlobalFails
              \/ EndGateway \/ EndPass
    BY <2>11 DEF Prepare, EndDevices, SetSearchDomain, SetHostname, SetGlobalFails,
                 EndGateway, EndPass, stored
  <2> QED
    BY <2>3, <2>4, <2>5, <2>6, <2>7, <2>9, <2>10, <2>11 DEF Next
<1> QED
  BY <1>1, TypeCorrect, PTL DEF Spec, OthersUntouched

-----------------------------------------------------------------------------
(* The result of apply_parameters(). *)

\* rc2 is the result of a handler that failed, and the rc of the loop, which PassGateway
\* looks at again, is not one that has been passed over.
ReportInv == (rc2 # 0 <=> failed # {}) /\ (rc # 0 => rc2 # 0)

LEMMA ReturnsReport ==
  ASSUME ReportInv, rc2 \in {0, 1}, NEW r \in {0, 1}, NEW d, Returns(d, r)
  PROVE  ReportInv'
BY DEF ReportInv, Returns

LEMMA ReportStep == TypeOK /\ ReportInv /\ [Next]_vars => ReportInv'
<1> SUFFICES ASSUME TypeOK, ReportInv, [Next]_vars PROVE ReportInv'
  OBVIOUS
<1> USE DEF result
<1>1. Outcome \subseteq {0, 1} /\ rc2 \in {0, 1} /\ rc \in {0, 1}
  BY DEF Outcome, TypeOK
<1>2. ASSUME NEW d \in Dev,
             \/ SetDhcp(d) \/ SetDhcpFails(d) \/ SetIp(d) \/ SetIpFails(d) \/ SetDns(d)
             \/ SetDnsFails(d) \/ SetRoute(d) \/ SkipRoute(d)
      PROVE  ReportInv'
  <2>1. \E r \in {0, 1} : Returns(d, r)
    BY <1>1, <1>2 DEF SetDhcp, SetDhcpFails, SetIp, SetIpFails, SetDns, SetDnsFails,
                      SetRoute, SkipRoute
  <2> QED
    BY <1>1, <2>1, ReturnsReport
<1>3. ASSUME NEW d \in Dev, PassGateway(d) PROVE ReportInv'
  BY <1>3 DEF PassGateway, ReportInv
<1>4. CASE SetSearchDomain \/ SetHostname \/ SetGlobalFails
  BY <1>4 DEF SetSearchDomain, SetHostname, SetGlobalFails, GlobalReturns, ReportInv
<1>5. ASSUME NEW k \in DOMAIN opts, SkipGateway(k) \/ StartGateway(k) \/ GatewayNoFile(k)
      PROVE  ReportInv'
  BY <1>5 DEF SkipGateway, StartGateway, GatewayNoFile, ReportInv
<1>6. CASE GatewayWordFails \/ EndGateway
  <2>1. \E r \in {0, 1} : Returns(opts[i].mac, r)
    BY <1>1, <1>6 DEF GatewayWordFails, EndGateway, GatewayReturns
  <2> QED
    BY <1>1, <2>1, ReturnsReport
<1>7. CASE Prepare \/ EndDevices \/ GatewayWordStep \/ EndPass \/ UNCHANGED vars
  BY <1>7 DEF Prepare, EndDevices, GatewayWordStep, EndPass, vars, ReportInv
<1> QED
  BY <1>2, <1>3, <1>4, <1>5, <1>6, <1>7 DEF Next

\* apply_parameters() returns an error if and only if one of its scripts failed, whatever
\* handlers come after the one that failed.
THEOREM FailureReportedHolds == Spec => []FailureReported
<1>1. Init => ReportInv
  BY DEF Init, ReportInv
<1>2. ReportInv => FailureReported
  BY DEF ReportInv, FailureReported
<1> QED
  BY <1>1, <1>2, ReportStep, TypeCorrect, PTL DEF Spec

-----------------------------------------------------------------------------
(* The loops over the adapters.  The adapter loops that write anything are *)
(* those of the phases 1 (dhcp), 2 (ip) and 6 (route).                     *)

\* The loop has gone past an entry of d in the netinfo list.
Behind(d) == \E k \in DOMAIN Devices : Devices[k] = d /\ k < i

\* The loop of phase n is done with d.
Passed(n, d) == phase > n \/ (phase = n /\ Behind(d))

LoopInv == phase = 0 => i = 1

\* A step other than Prepare leaves the options and the choice of the adapters alone;
\* Prepare is the first step and no other is possible before it.
LEMMA Frame ==
  ASSUME TypeOK, Next
  PROVE  \/ Prepare /\ phase = 0 /\ phase' = 1 /\ UNCHANGED <<stored, i, failed, skipped>>
         \/ ~Prepare /\ phase # 0 /\ UNCHANGED <<opts, changed>>
<1> USE DEF netinfo, stored, result
<1>1. CASE Prepare
  BY <1>1 DEF Prepare
<1>2. DOMAIN Phases = 1..7
  BY DEF Phases
<1>3. ASSUME NEW d \in Dev, At(d) PROVE phase # 0
  BY <1>2, <1>3 DEF At
<1>4. ASSUME NEW d \in Dev,
             \/ SetDhcp(d) \/ SetDhcpFails(d) \/ SetIp(d) \/ SetIpFails(d) \/ SetDns(d)
             \/ SetDnsFails(d) \/ SetRoute(d) \/ SkipRoute(d) \/ PassGateway(d)
      PROVE  phase # 0 /\ UNCHANGED <<opts, changed>>
  BY <1>3, <1>4 DEF SetDhcp, SetDhcpFails, SetIp, SetIpFails, SetDns, SetDnsFails, SetRoute,
                    SkipRoute, PassGateway
<1>5. ASSUME EndDevices \/ SetSearchDomain \/ SetHostname \/ SetGlobalFails
      PROVE  phase # 0 /\ UNCHANGED <<opts, changed>>
  BY <1>2, <1>5 DEF EndDevices, SetSearchDomain, SetHostname, SetGlobalFails, NoMoreDevices
<1>6. ASSUME NEW k \in DOMAIN opts, SkipGateway(k) \/ StartGateway(k) \/ GatewayNoFile(k)
      PROVE  phase # 0 /\ UNCHANGED <<opts, changed>>
  BY <1>6 DEF SkipGateway, StartGateway, GatewayNoFile, AtRecord, TypeOK
<1>7. ASSUME GatewayWordStep \/ GatewayWordFails \/ EndGateway \/ EndPass
      PROVE  phase # 0 /\ UNCHANGED <<opts, changed>>
  BY <1>7 DEF GatewayWordStep, GatewayWordFails, EndGateway, EndPass, TypeOK
<1>8. Prepare => phase = 0
  BY DEF Prepare
<1> QED
  BY <1>1, <1>4, <1>5, <1>6, <1>7, <1>8 DEF Next

\* What a step does to the place in the phases: a handler for an adapter, the end of a
\* loop over the adapters, or a step within the gateways.
LEMMA PhaseStep ==
  ASSUME TypeOK, Next, ~Prepare
  PROVE  \/ \E d \in Dev : At(d) /\ phase' = phase
         \/ NoMoreDevices /\ phase' = phase + 1 /\ i' = 1
         \/ phase = 3 /\ phase' \in {3, 4} /\ (phase' = 4 => i' = 1)
<1> USE DEF netinfo, stored, result
<1>1. ASSUME NEW d \in Dev,
             \/ SetDhcp(d) \/ SetDhcpFails(d) \/ SetIp(d) \/ SetIpFails(d) \/ SetDns(d)
             \/ SetDnsFails(d) \/ SetRoute(d) \/ SkipRoute(d) \/ PassGateway(d)
      PROVE  At(d) /\ phase' = phase
  BY <1>1 DEF SetDhcp, SetDhcpFails, SetIp, SetIpFails, SetDns, SetDnsFails, SetRoute,
              SkipRoute, PassGateway
<1>2. CASE SetSearchDomain \/ SetHostname \/ SetGlobalFails
  BY <1>2 DEF SetSearchDomain, SetHostname, SetGlobalFails, NextPhase
<1>3. CASE EndDevices
  <2>1. Kind = "gateway" => phase = 3
    BY <1>3 DEF EndDevices, NoMoreDevices, Kind, Phases
  <2> QED
    BY <1>3, <2>1 DEF EndDevices, NextPhase
<1>4. ASSUME NEW k \in DOMAIN opts, SkipGateway(k) \/ StartGateway(k) \/ GatewayNoFile(k)
      PROVE  phase = 3 /\ phase' = phase
  BY <1>4 DEF SkipGateway, StartGateway, GatewayNoFile, AtRecord, TypeOK
<1>5. CASE GatewayWordStep \/ GatewayWordFails \/ EndGateway \/ EndPass
  BY <1>5 DEF GatewayWordStep, GatewayWordFails, EndGateway, EndPass, NextPhase, TypeOK
<1> QED
  BY <1>1, <1>2, <1>3, <1>4, <1>5 DEF Next

LEMMA LoopInvariant == Spec => []LoopInv
<1>1. Init => LoopInv
  BY DEF Init, LoopInv
<1>2. TypeOK /\ LoopInv /\ [Next]_vars => LoopInv'
  <2> SUFFICES ASSUME TypeOK, LoopInv, [Next]_vars PROVE LoopInv'
    OBVIOUS
  <2>1. ASSUME Next, ~Prepare PROVE phase' # 0
    BY <2>1, Frame, PhaseStep DEF TypeOK, Phases
  <2>2. CASE Next
    BY <2>1, <2>2, Frame DEF LoopInv
  <2>3. CASE UNCHANGED vars
    BY <2>3 DEF vars, LoopInv
  <2> QED
    BY <2>2, <2>3
<1> QED
  BY <1>1, <1>2, TypeCorrect, PTL DEF Spec

\* The loop comes to one adapter at a time.
LEMMA OneAt ==
  ASSUME NEW d \in Dev, NEW e \in Dev, At(d), At(e), TypeOK
  PROVE  d = e
BY DevicesAssumption DEF At, TypeOK

\* A loop is done with an adapter it is to change only by calling the handler for it.
LEMMA NewlyPassed ==
  ASSUME TypeOK, LoopInv, Next, NEW n \in {1, 2, 6}, NEW d \in Dev, d \in changed',
         HasOpt(d, Phases[n])', Passed(n, d)', ~Passed(n, d)
  PROVE  phase = n /\ phase' = n /\ At(d)
<1>1. \A k \in DOMAIN Devices : k \in Nat \ {0}
  BY DevicesAssumption
<1>2. phase \in 0..8 /\ i \in Nat \ {0}
  BY DEF TypeOK, Phases
<1>3. CASE Prepare
  <2>1. phase' = 1 /\ i' = 1
    BY <1>3 DEF Prepare, LoopInv
  <2>2. ~Behind(d)'
    BY <1>1, <2>1 DEF Behind
  <2> QED
    BY <2>1, <2>2 DEF Passed
<1>4. CASE ~Prepare
  <2>1. d \in changed /\ HasOpt(d, Phases[n])
    BY <1>4, Frame DEF HasOpt
  <2>2. ~(NoMoreDevices /\ phase' = phase + 1 /\ i' = 1)
    <3> SUFFICES ASSUME NoMoreDevices, phase' = phase + 1, i' = 1 PROVE FALSE
      OBVIOUS
    <3>1. ~Behind(d)'
      BY <1>1 DEF Behind
    <3>2. phase = n /\ ~Behind(d)
      BY <1>2, <3>1 DEF Passed
    <3>3. PICK k \in DOMAIN Devices : Devices[k] = d
      BY DevicesAssumption
    <3>4. Handled(k)
      BY <2>1, <3>2, <3>3 DEF Handled, Kind
    <3> QED
      BY <1>1, <1>2, <3>2, <3>3, <3>4 DEF NoMoreDevices, Behind
  <2>3. ~(phase = 3 /\ phase' \in {3, 4})
    BY DEF Passed
  <2>4. PICK e \in Dev : At(e) /\ phase' = phase
    BY <1>4, <2>2, <2>3, PhaseStep
  <2>5. phase = n /\ ~Behind(d) /\ Behind(d)'
    BY <1>2, <2>4 DEF Passed
  <2>6. PICK k \in DOMAIN Devices :
          /\ k >= i /\ Devices[k] = e /\ i' = k + 1
          /\ \A m \in DOMAIN Devices : m >= i /\ Handled(m) => m >= k
    BY <2>4 DEF At
  <2>7. PICK m \in DOMAIN Devices : Devices[m] = d /\ m < i'
    BY <2>5 DEF Behind
  <2>8. Handled(m) /\ m >= i
    BY <1>1, <1>2, <2>1, <2>5, <2>7 DEF Handled, Kind, Behind
  <2>9. m = k
    BY <1>1, <2>6, <2>7, <2>8
  <2> QED
    BY <2>4, <2>5, <2>6, <2>7, <2>9
<1> QED
  BY <1>3, <1>4

\* When the loop is at an adapter the step is the handler of that adapter.
LEMMA HandlerOf ==
  ASSUME TypeOK, Next, NEW d \in Dev, At(d)
  PROVE  \/ SetDhcp(d) \/ SetDhcpFails(d) \/ SetIp(d) \/ SetIpFails(d) \/ SetDns(d)
         \/ SetDnsFails(d) \/ SetRoute(d) \/ SkipRoute(d) \/ PassGateway(d)
<1>1. ~NoMoreDevices /\ at = "device" /\ phase # 0
  BY DEF At, NoMoreDevices, Phases
<1>2. ASSUME NEW e \in Dev,
             \/ SetDhcp(e) \/ SetDhcpFails(e) \/ SetIp(e) \/ SetIpFails(e) \/ SetDns(e)
             \/ SetDnsFails(e) \/ SetRoute(e) \/ SkipRoute(e) \/ PassGateway(e)
      PROVE  e = d
  <2>1. At(e)
    BY <1>2 DEF SetDhcp, SetDhcpFails, SetIp, SetIpFails, SetDns, SetDnsFails, SetRoute,
                SkipRoute, PassGateway
  <2> QED
    BY <2>1, OneAt
<1>3. ~(Prepare \/ EndDevices \/ SetSearchDomain \/ SetHostname \/ SetGlobalFails)
  BY <1>1 DEF Prepare, EndDevices, SetSearchDomain, SetHostname, SetGlobalFails
<1>4. ~(GatewayWordStep \/ GatewayWordFails \/ EndGateway \/ EndPass)
  BY <1>1 DEF GatewayWordStep, GatewayWordFails, EndGateway, EndPass
<1>5. \A k \in DOMAIN opts : ~(SkipGateway(k) \/ StartGateway(k) \/ GatewayNoFile(k))
  BY <1>1 DEF SkipGateway, StartGateway, GatewayNoFile, AtRecord
<1> QED
  BY <1>2, <1>3, <1>4, <1>5 DEF Next

\* The histories of failed and of skipped adapters only grow.
LEMMA HistoryGrows ==
  ASSUME TypeOK, Next
  PROVE  failed \subseteq failed' /\ skipped \subseteq skipped'
<1> USE DEF result, Returns
<1>1. ASSUME NEW d \in Dev,
             \/ SetDhcp(d) \/ SetDhcpFails(d) \/ SetIp(d) \/ SetIpFails(d) \/ SetDns(d)
             \/ SetDnsFails(d) \/ SetRoute(d) \/ SkipRoute(d) \/ PassGateway(d)
      PROVE  failed \subseteq failed' /\ skipped \subseteq skipped'
  BY <1>1 DEF SetDhcp, SetDhcpFails, SetIp, SetIpFails, SetDns, SetDnsFails, SetRoute,
              SkipRoute, PassGateway
<1>2. CASE Prepare \/ EndDevices \/ SetSearchDomain \/ SetHostname \/ SetGlobalFails
  BY <1>2 DEF Prepare, EndDevices, SetSearchDomain, SetHostname, SetGlobalFails, GlobalReturns
<1>3. ASSUME NEW k \in DOMAIN opts, SkipGateway(k) \/ StartGateway(k) \/ GatewayNoFile(k)
      PROVE  failed \subseteq failed' /\ skipped \subseteq skipped'
  BY <1>3 DEF SkipGateway, StartGateway, GatewayNoFile
<1>4. CASE GatewayWordStep \/ GatewayWordFails \/ EndGateway \/ EndPass
  BY <1>4 DEF GatewayWordStep, GatewayWordFails, EndGateway, EndPass, GatewayReturns
<1> QED
  BY <1>1, <1>2, <1>3, <1>4 DEF Next

\* As long as the list of options is the same, so is what it says of an adapter.
LEMMA SameOptions ==
  ASSUME UNCHANGED opts
  PROVE  /\ \A d, kind : HasOpt(d, kind)' = HasOpt(d, kind) /\ OptOf(d, kind)' = OptOf(d, kind)
         /\ \A d : ProtosOf(d)' = ProtosOf(d)
         /\ Wiped' = Wiped
<1>1. \A d, kind : HasOpt(d, kind)' = HasOpt(d, kind) /\ OptOf(d, kind)' = OptOf(d, kind)
  BY DEF HasOpt, OptOf
<1>2. \A d : ProtosOf(d)' = ProtosOf(d)
  BY <1>1 DEF ProtosOf
<1>3. Wiped' = Wiped
  BY DEF Wiped
<1> QED
  BY <1>1, <1>2, <1>3

-----------------------------------------------------------------------------
(* Routes. *)

RouteInv ==
  \A d \in changed \ (failed \cup skipped) :
    HasOpt(d, "route") /\ Passed(6, d) => routes[d] = RoutesOf(OptOf(d, "route"))

\* After the gateways only set_route() writes a route file, and that of its own adapter.
LEMMA RouteFilesKept ==
  ASSUME TypeOK, Next, phase > 3, NEW d \in Dev, ~SetRoute(d)
  PROVE  routes'[d] = routes[d]
<1> USE DEF stored
<1>1. ASSUME NEW e \in Dev, SetRoute(e) PROVE routes'[d] = routes[d]
  BY <1>1 DEF SetRoute, TypeOK
<1>2. ASSUME NEW e \in Dev,
             \/ SetDhcp(e) \/ SetDhcpFails(e) \/ SetIp(e) \/ SetIpFails(e) \/ SetDns(e)
             \/ SetDnsFails(e) \/ SkipRoute(e) \/ PassGateway(e)
      PROVE  routes'[d] = routes[d]
  BY <1>2 DEF SetDhcp, SetDhcpFails, SetIp, SetIpFails, SetDns, SetDnsFails, SkipRoute,
              PassGateway
<1>3. CASE Prepare \/ EndDevices \/ SetSearchDomain \/ SetHostname \/ SetGlobalFails
  BY <1>3 DEF Prepare, EndDevices, SetSearchDomain, SetHostname, SetGlobalFails
<1>4. at = "device"
  BY DEF TypeOK
<1>5. ~(GatewayWordStep \/ GatewayWordFails \/ EndGateway \/ EndPass)
  BY <1>4 DEF GatewayWordStep, GatewayWordFails, EndGateway, EndPass
<1>6. \A k \in DOMAIN opts : ~(SkipGateway(k) \/ StartGateway(k) \/ GatewayNoFile(k))
  BY <1>4 DEF SkipGateway, StartGateway, GatewayNoFile, AtRecord
<1> QED
  BY <1>1, <1>2, <1>3, <1>5, <1>6 DEF Next

LEMMA RouteStep == TypeOK /\ LoopInv /\ RouteInv /\ [Next]_vars => RouteInv'
<1> SUFFICES ASSUME TypeOK, LoopInv, RouteInv, [Next]_vars PROVE RouteInv'
  OBVIOUS
<1>1. CASE UNCHANGED vars
  BY <1>1 DEF vars, netinfo, stored, result, RouteInv, HasOpt, OptOf, Passed, Behind
<1>2. CASE Next
  <2> SUFFICES ASSUME NEW d \in changed', d \notin failed' \cup skipped',
                      HasOpt(d, "route")', Passed(6, d)'
               PROVE  routes'[d] = RoutesOf(OptOf(d, "route")')
    BY DEF RouteInv
  <2>1. ~Prepare /\ UNCHANGED <<opts, changed>>
    BY <1>2, Frame DEF Passed
  <2>2. d \in Dev /\ d \in changed \ (failed \cup skipped)
    BY <1>2, <2>1, HistoryGrows DEF TypeOK
  <2>3. HasOpt(d, "route") /\ OptOf(d, "route")' = OptOf(d, "route")
    BY <2>1, SameOptions
  <2>4. SetRoute(d) => routes'[d] = RoutesOf(OptOf(d, "route"))
    BY <2>2 DEF SetRoute, TypeOK
  <2>5. CASE Passed(6, d)
    <3>1. routes[d] = RoutesOf(OptOf(d, "route"))
      BY <2>2, <2>3, <2>5 DEF RouteInv
    <3>2. phase > 3
      BY <2>5 DEF Passed, TypeOK
    <3> QED
      BY <1>2, <2>2, <2>3, <2>4, <3>1, <3>2, RouteFilesKept
  <2>6. CASE ~Passed(6, d)
    <3>1. Phases[6] = "route"
      BY DEF Phases
    <3>2. phase = 6 /\ At(d)
      BY <1>2, <2>2, <2>6, <3>1, NewlyPassed
    <3>3. SetRoute(d) \/ SkipRoute(d)
      BY <1>2, <2>2, <3>1, <3>2, HandlerOf
         DEF Kind, SetDhcp, SetDhcpFails, SetIp, SetIpFails, SetDns, SetDnsFails, PassGateway
    <3>4. ~SkipRoute(d)
      BY DEF SkipRoute
    <3> QED
      BY <2>3, <2>4, <3>3, <3>4
  <2> QED
    BY <2>5, <2>6
<1> QED
  BY <1>1, <1>2

\* Routes survive: when the run is over, an adapter whose route script was called and did
\* not fail has the routes of its newest --route and no others, though the gateway script,
\* called for other options and in another order, removes the same file.
THEOREM RoutesAsAskedHolds == Spec => []RoutesAsAsked
<1>1. Init => RouteInv
  BY DEF Init, RouteInv
<1>2. TypeOK /\ RouteInv => RoutesAsAsked
  <2>1. \A d : TypeOK /\ Done => Passed(6, d)
    BY DEF Done, Passed, Phases, TypeOK
  <2> QED
    BY <2>1 DEF RouteInv, RoutesAsAsked
<1> QED
  BY <1>1, <1>2, RouteStep, TypeCorrect, LoopInvariant, PTL DEF Spec

-----------------------------------------------------------------------------
(* Addresses. *)

\* What --dhcp asked for is in the file, with no address in it: until set_ip() comes with
\* static addresses.
DhcpDone(d) ==
  HasOpt(d, "dhcp") /\ Passed(1, d)
    /\ (HasOpt(d, "ip") /\ Passed(2, d) => Removes(OptOf(d, "ip"))) =>
       /\ cfg[d].exists /\ cfg[d].ips = {}
       /\ cfg[d].dhcp4 = ("4" \in ProtosOf(d))
       /\ cfg[d].dhcp6 = ("6" \in ProtosOf(d))

\* The addresses --ip gave are in the file and its aliases, and DHCP is left for a family
\* only if none is of that family.
IpDone(d) ==
  HasOpt(d, "ip") /\ Passed(2, d)
    /\ ~Removes(OptOf(d, "ip")) /\ Tokens(OptOf(d, "ip")) # {} =>
       /\ HasAddresses(cfg[d], Tokens(OptOf(d, "ip")))
       /\ cfg[d].dhcp4 = ("4" \in ProtosOf(d) /\ IPv4Of(OptOf(d, "ip")) = {})
       /\ cfg[d].dhcp6 = ("6" \in ProtosOf(d) /\ IPv6Of(OptOf(d, "ip")) = {})

AddressInv == \A d \in changed \ (failed \cup Wiped) : DhcpDone(d) /\ IpDone(d)

LEMMA AbsentConfig == Absent \in Config
<1>1. {} \in SUBSET (Addr4 \cup Addr6) /\ {} \in SUBSET Addr4
  OBVIOUS
<1> QED
  BY <1>1 DEF Absent, Config

LEMMA DhcpConfigFields ==
  ASSUME NEW c \in Config, NEW protos
  PROVE  /\ DhcpConfig(c, protos).exists /\ DhcpConfig(c, protos).ips = {}
         /\ DhcpConfig(c, protos).dhcp4 = ("4" \in protos)
         /\ DhcpConfig(c, protos).dhcp6 = ("6" \in protos)
<1> DEFINE kept == IF "4" \in protos THEN {} ELSE c.alias
           p4 == "4" \in protos
           p6 == "6" \in protos
<1>1. kept \in SUBSET Addr4 /\ p4 \in BOOLEAN /\ p6 \in BOOLEAN
  BY DEF Config
<1>2. DhcpConfig(c, protos) =
        [Absent EXCEPT !.exists = TRUE, !.dhcp4 = p4, !.dhcp6 = p6, !.alias = kept]
  BY DEF DhcpConfig
<1>3. Absent.ips = {}
  BY DEF Absent
<1> HIDE DEF kept, p4, p6
<1>4. /\ DhcpConfig(c, protos).exists /\ DhcpConfig(c, protos).ips = {}
      /\ DhcpConfig(c, protos).dhcp4 = p4 /\ DhcpConfig(c, protos).dhcp6 = p6
  BY <1>1, <1>2, <1>3, AbsentConfig DEF Config
<1> QED
  BY <1>4 DEF p4, p6

\* A set of natural numbers has a least element.
LEMMA Least ==
  ASSUME NEW S, S \subseteq Nat, S # {}
  PROVE  \E n \in S : \A m \in S : n <= m
<1> DEFINE Less == OpToRel(<, Nat)
<1>1. \A x, y \in Nat : y < x => <<y, x>> \in Less
  BY DEF OpToRel
<1>2. IsWellFoundedOn(Less, Nat)
  BY NatLessThanWellFounded
<1> HIDE DEF Less
<1>3. PICK x \in S : \A y \in S : ~(<<y, x>> \in Less)
  BY <1>2, WFMin
<1>4. \A y \in S : y \in Nat /\ x \in Nat /\ ~(y < x)
  BY <1>1, <1>3
<1> QED
  BY <1>4

\* Of the addresses of IPv6, the one passed over is a part of one that is written: of those
\* it is a part of, the first in the list is.
LEMMA PassedOverIsPart ==
  ASSUME NEW value \in Seq(IpWord), NEW x \in IPv6Of(value) \ WrittenIPv6(value)
  PROVE  \E y \in WrittenIPv6(value) : <<x, y>> \in PartOf
<1> DEFINE Longer == {k \in DOMAIN value : <<x, value[k]>> \in PartOf}
<1>1. DOMAIN value = 1..Len(value) /\ Len(value) \in Nat
  OBVIOUS
<1>2. Longer # {}
  <2>1. PICK n \in DOMAIN value : value[n] = x /\ x \in Addr6
    BY DEF IPv6Of, Tokens
  <2>2. PICK k \in 1..(n - 1) : <<value[n], value[k]>> \in PartOf
    BY <2>1 DEF WrittenIPv6
  <2> QED
    BY <1>1, <2>1, <2>2
<1>3. PICK k \in Longer : \A m \in Longer : k <= m
  <2>1. Longer \subseteq Nat
    BY <1>1
  <2> QED
    BY <1>2, <2>1, Least
<1>4. x \in Addr6 /\ value[k] \in Addr6
  BY <1>3, PartOfAssumption
<1>5. ASSUME NEW j \in 1..(k - 1), <<value[k], value[j]>> \in PartOf PROVE FALSE
  <2>1. value[j] \in Addr6 /\ <<x, value[j]>> \in PartOf
    BY <1>3, <1>4, <1>5, PartOfAssumption
  <2>2. j \in Longer /\ ~(k <= j)
    BY <1>1, <1>3, <2>1
  <2> QED
    BY <1>3, <2>2
<1>6. value[k] \in WrittenIPv6(value)
  BY <1>3, <1>4, <1>5 DEF WrittenIPv6
<1> QED
  BY <1>3, <1>6

LEMMA StaticConfigFields ==
  ASSUME NEW value \in Seq(IpWord), NEW protos,
         Tokens(value) # {}, Tokens(value) \subseteq Addr4 \cup Addr6
  PROVE  LET c == StaticConfig(value, protos)
         IN  /\ HasAddresses(c, Tokens(value))
             /\ c.dhcp4 = ("4" \in protos /\ IPv4Of(value) = {})
             /\ c.dhcp6 = ("6" \in protos /\ IPv6Of(value) = {})
<1> DEFINE i4 == IPv4Of(value)
           i6 == IPv6Of(value)
           f4 == FirstIPv4(value)
           w6 == WrittenIPv6(value)
           p4 == i4 = {} /\ "4" \in protos
           p6 == i6 = {} /\ "6" \in protos
<1>1. /\ f4 \subseteq i4 /\ i4 \subseteq Addr4 /\ i6 \subseteq Addr6 /\ i4 \cup i6 = Tokens(value)
      /\ w6 \subseteq i6
  BY DEF FirstIPv4, IPv4Of, IPv6Of, WrittenIPv6, Tokens
<1>2. p4 \in BOOLEAN /\ p6 \in BOOLEAN
  OBVIOUS
<1>3. StaticConfig(value, protos) =
        [Absent EXCEPT !.exists = TRUE, !.dhcp4 = p4, !.dhcp6 = p6,
                       !.ips = f4 \cup w6, !.alias = i4 \ f4]
  BY DEF StaticConfig
<1>4. p4 = ("4" \in protos /\ IPv4Of(value) = {}) /\ p6 = ("6" \in protos /\ IPv6Of(value) = {})
  OBVIOUS
<1>5. \A x \in i6 \ w6 : \E y \in w6 : <<x, y>> \in PartOf
  BY PassedOverIsPart
<1> HIDE DEF i4, i6, f4, w6, p4, p6
<1>6. LET c == StaticConfig(value, protos)
      IN  c.ips = f4 \cup w6 /\ c.alias = i4 \ f4 /\ c.dhcp4 = p4 /\ c.dhcp6 = p6
  BY <1>1, <1>2, <1>3, AbsentConfig DEF Config
<1>7. HasAddresses(StaticConfig(value, protos), Tokens(value))
  BY <1>1, <1>5, <1>6 DEF HasAddresses
<1> QED
  BY <1>4, <1>6, <1>7

\* Taking the addresses away or setting a gateway leaves the rest of the file alone.
LEMMA NoAddressFields ==
  ASSUME NEW c \in Config, c.exists
  PROVE  LET n == NoAddressConfig(c)
         IN  n.exists /\ n.ips = {} /\ n.dhcp4 = c.dhcp4 /\ n.dhcp6 = c.dhcp6
BY DEF NoAddressConfig, Config

LEMMA GatewayFields ==
  ASSUME NEW c \in Config, NEW w \in GatewayWord
  PROVE  LET n == GatewayConfig(c, w)
         IN  /\ n.exists = c.exists /\ n.ips = c.ips /\ n.alias = c.alias
             /\ n.dhcp4 = c.dhcp4 /\ n.dhcp6 = c.dhcp6
<1>1. \/ GatewayConfig(c, w) = [c EXCEPT !.gw4 = None]
      \/ GatewayConfig(c, w) = [c EXCEPT !.gw6 = None]
      \/ GatewayConfig(c, w) = [c EXCEPT !.gw4 = w]
      \/ GatewayConfig(c, w) = [c EXCEPT !.gw6 = w]
  BY DEF GatewayConfig, GatewayWord
<1> QED
  BY <1>1 DEF Config

\* The words of an option there is: of --ip, addresses and "remove".  The option is found,
\* as every list of options that has one for an adapter has a newest one.
LEMMA NewestExists ==
  ASSUME IsOptions(opts), NEW d, NEW kind, HasOpt(d, kind)
  PROVE  \E k \in DOMAIN opts :
           opts[k].mac = d /\ opts[k].type = kind /\ OptOf(d, kind) = opts[k].value
<1> DEFINE Is(k) == opts[k].mac = d /\ opts[k].type = kind
           Mine == {k \in DOMAIN opts : Is(k)}
           Newest(k) == Is(k) /\ \A n \in 1..(k - 1) : ~Is(n)
<1>1. DOMAIN opts = 1..Len(opts) /\ Len(opts) \in Nat
  BY DEF IsOptions
<1>2. PICK k \in Mine : \A m \in Mine : k <= m
  <2>1. Mine \subseteq Nat /\ Mine # {}
    BY <1>1 DEF HasOpt
  <2> QED
    BY <2>1, Least
<1>3. Newest(k) /\ k \in DOMAIN opts
  BY <1>1, <1>2
<1>4. OptOf(d, kind) = opts[CHOOSE n \in DOMAIN opts : Newest(n)].value
  BY DEF OptOf
<1>5. /\ (CHOOSE n \in DOMAIN opts : Newest(n)) \in DOMAIN opts
      /\ Newest(CHOOSE n \in DOMAIN opts : Newest(n))
  <2> HIDE DEF Newest
  <2> QED
    BY <1>3
<1> QED
  BY <1>4, <1>5

LEMMA IpWords ==
  ASSUME IsOptions(opts), NEW d, HasOpt(d, "ip"), ~Removes(OptOf(d, "ip"))
  PROVE  /\ OptOf(d, "ip") \in Seq(IpWord)
         /\ Tokens(OptOf(d, "ip")) \subseteq Addr4 \cup Addr6
<1>1. OptOf(d, "ip") \in Seq(IpWord)
  BY NewestExists DEF IsOptions
<1> QED
  BY <1>1 DEF IpWord, Removes, Tokens

\* Who writes the file of an adapter: its own handlers, the gateway script for one of its
\* records, and redhat-set_ip.sh of an adapter whose name its name continues.
LEMMA FileWriters ==
  ASSUME TypeOK, Next, NEW d \in Dev, d \notin Wiped
  PROVE  \/ cfg'[d] = cfg[d]
         \/ SetDhcp(d)
         \/ SetIp(d)
         \/ /\ phase = 3 /\ phase' = 3
            /\ \E w \in GatewayWord : cfg'[d] = GatewayConfig(cfg[d], w)
<1> USE DEF stored
<1>0. cfg \in [Dev -> Config]
  BY DEF TypeOK
<1>1. ASSUME NEW e \in Dev, SetDhcp(e) PROVE e = d \/ cfg'[d] = cfg[d]
  BY <1>0, <1>1 DEF SetDhcp
<1>2. ASSUME NEW e \in Dev, SetIp(e) PROVE e = d \/ cfg'[d] = cfg[d]
  <2>1. <<e, d>> \notin LongerName
    BY <1>2 DEF SetIp, At, Handled, HasOpt, Wiped
  <2> QED
    BY <1>0, <1>2, <2>1 DEF SetIp
<1>3. ASSUME NEW e \in Dev,
             \/ SetDhcpFails(e) \/ SetIpFails(e) \/ SetDns(e) \/ SetDnsFails(e)
             \/ SetRoute(e) \/ SkipRoute(e) \/ PassGateway(e)
      PROVE  cfg'[d] = cfg[d]
  BY <1>3 DEF SetDhcpFails, SetIpFails, SetDns, SetDnsFails, SetRoute, SkipRoute, PassGateway
<1>4. CASE \/ Prepare \/ EndDevices \/ SetSearchDomain \/ SetHostname \/ SetGlobalFails
           \/ EndGateway \/ EndPass
  BY <1>4 DEF Prepare, EndDevices, SetSearchDomain, SetHostname, SetGlobalFails,
              EndGateway, EndPass
<1>5. ASSUME NEW k \in DOMAIN opts, SkipGateway(k) \/ StartGateway(k) \/ GatewayNoFile(k)
      PROVE  cfg'[d] = cfg[d]
  BY <1>5 DEF SkipGateway, StartGateway, GatewayNoFile
<1>6. ASSUME GatewayWordStep \/ GatewayWordFails
      PROVE  \/ cfg'[d] = cfg[d]
             \/ /\ phase = 3 /\ phase' = 3
                /\ \E w \in GatewayWord : cfg'[d] = GatewayConfig(cfg[d], w)
  <2>1. phase = 3 /\ phase' = 3 /\ i \in DOMAIN opts /\ word \in DOMAIN opts[i].value
    BY <1>6 DEF GatewayWordStep, GatewayWordFails, TypeOK
  <2>2. opts[i].value[word] \in GatewayWord /\ opts[i].mac \in Dev
    BY <1>6, <2>1 DEF GatewayWordStep, GatewayWordFails, TypeOK, IsOptions
  <2>3. \/ UNCHANGED cfg
        \/ cfg' = [cfg EXCEPT ![opts[i].mac] =
                     GatewayConfig(cfg[opts[i].mac], opts[i].value[word])]
    BY <1>6 DEF GatewayWordStep, GatewayWordFails
  <2> QED
    BY <1>0, <2>1, <2>2, <2>3
<1> QED
  BY <1>1, <1>2, <1>3, <1>4, <1>5, <1>6 DEF Next

\* A step that leaves what the file says of addresses and DHCP as it is keeps what has
\* been achieved, if no loop gets past the adapter by it.
LEMMA SameAddresses ==
  ASSUME NEW d, UNCHANGED opts, DhcpDone(d), IpDone(d),
         HasOpt(d, "dhcp") /\ Passed(1, d)' => Passed(1, d),
         HasOpt(d, "ip") => Passed(2, d)' = Passed(2, d),
         /\ cfg'[d].exists = cfg[d].exists
         /\ cfg'[d].ips = cfg[d].ips /\ cfg'[d].alias = cfg[d].alias
         /\ cfg'[d].dhcp4 = cfg[d].dhcp4 /\ cfg'[d].dhcp6 = cfg[d].dhcp6
  PROVE  DhcpDone(d)' /\ IpDone(d)'
<1>1. /\ HasOpt(d, "ip")' = HasOpt(d, "ip") /\ HasOpt(d, "dhcp")' = HasOpt(d, "dhcp")
      /\ OptOf(d, "ip")' = OptOf(d, "ip") /\ ProtosOf(d)' = ProtosOf(d)
  BY SameOptions
<1>2. /\ Removes(OptOf(d, "ip"))' = Removes(OptOf(d, "ip"))
      /\ Tokens(OptOf(d, "ip"))' = Tokens(OptOf(d, "ip"))
      /\ IPv4Of(OptOf(d, "ip"))' = IPv4Of(OptOf(d, "ip"))
      /\ IPv6Of(OptOf(d, "ip"))' = IPv6Of(OptOf(d, "ip"))
  BY <1>1 DEF Removes, Tokens, IPv4Of, IPv6Of
<1>3. DhcpDone(d)'
  BY <1>1, <1>2 DEF DhcpDone
<1>4. IpDone(d)'
  BY <1>1, <1>2 DEF IpDone, HasAddresses
<1> QED
  BY <1>3, <1>4

LEMMA PassedGrows ==
  ASSUME TypeOK, Next, NEW n \in {1, 2, 6}, NEW d, Passed(n, d)
  PROVE  Passed(n, d)'
<1>1. ~Prepare
  BY Frame DEF Passed
<1>2. phase \in 0..8 /\ i \in Nat /\ \A k \in DOMAIN Devices : k \in Nat
  BY DevicesAssumption DEF TypeOK, Phases
<1>3. CASE phase' > phase
  <2>1. phase' = phase + 1
    BY <1>1, <1>2, <1>3, PhaseStep
  <2> QED
    BY <1>2, <2>1 DEF Passed
<1>4. CASE ~(phase' > phase)
  <2>1. CASE \E e \in Dev : At(e) /\ phase' = phase
    <3>1. i' > i /\ i' \in Nat
      BY <1>2, <2>1 DEF At
    <3> QED
      BY <1>2, <2>1, <3>1 DEF Passed, Behind
  <2>2. CASE phase = 3 /\ phase' = 3
    BY <2>2 DEF Passed
  <2> QED
    BY <1>1, <1>2, <1>4, <2>1, <2>2, PhaseStep
<1> QED
  BY <1>3, <1>4

LEMMA AddressStep == TypeOK /\ LoopInv /\ AddressInv /\ [Next]_vars => AddressInv'
<1> SUFFICES ASSUME TypeOK, LoopInv, AddressInv, [Next]_vars PROVE AddressInv'
  OBVIOUS
<1> SUFFICES ASSUME NEW d \in changed', d \notin failed' \cup Wiped'
             PROVE  DhcpDone(d)' /\ IpDone(d)'
  BY DEF AddressInv
<1>1. CASE UNCHANGED vars
  <2>1. UNCHANGED <<opts, changed, cfg, phase, i, failed>>
    BY <1>1 DEF vars, netinfo, stored, result
  <2>2. Passed(1, d)' = Passed(1, d) /\ Passed(2, d)' = Passed(2, d)
    BY <2>1 DEF Passed, Behind
  <2>3. DhcpDone(d) /\ IpDone(d)
    <3>1. Wiped' = Wiped
      BY <2>1, SameOptions
    <3> QED
      BY <2>1, <3>1 DEF AddressInv
  <2> QED
    BY <2>1, <2>2, <2>3, SameAddresses
<1>2. CASE Prepare
  <2>1. phase' = 1 /\ i' = 1 /\ \A k \in DOMAIN Devices : ~(k < 1)
    BY <1>2, DevicesAssumption DEF Prepare, LoopInv
  <2>2. ~Passed(1, d)' /\ ~Passed(2, d)'
    BY <2>1 DEF Passed, Behind
  <2> QED
    BY <2>2 DEF DhcpDone, IpDone
<1>3. CASE Next /\ ~Prepare
  <2>1. UNCHANGED <<opts, changed>>
    BY <1>3, Frame
  <2>2. d \in Dev /\ d \in changed \ (failed \cup Wiped)
    <3>1. Wiped' = Wiped /\ failed \subseteq failed' /\ changed \subseteq Dev
      BY <1>3, <2>1, HistoryGrows, SameOptions DEF TypeOK
    <3> QED
      BY <2>1, <3>1
  <2>3. DhcpDone(d) /\ IpDone(d)
    BY <2>2 DEF AddressInv
  <2>4. /\ HasOpt(d, "ip")' = HasOpt(d, "ip") /\ HasOpt(d, "dhcp")' = HasOpt(d, "dhcp")
        /\ OptOf(d, "ip")' = OptOf(d, "ip") /\ ProtosOf(d)' = ProtosOf(d)
    BY <2>1, SameOptions
  <2>5. /\ Removes(OptOf(d, "ip"))' = Removes(OptOf(d, "ip"))
        /\ Tokens(OptOf(d, "ip"))' = Tokens(OptOf(d, "ip"))
        /\ IPv4Of(OptOf(d, "ip"))' = IPv4Of(OptOf(d, "ip"))
        /\ IPv6Of(OptOf(d, "ip"))' = IPv6Of(OptOf(d, "ip"))
    BY <2>4 DEF Removes, Tokens, IPv4Of, IPv6Of
  <2>6. ~SetDhcpFails(d) /\ ~SetIpFails(d)
    BY DEF SetDhcpFails, SetIpFails, Returns
  <2>7. Phases[1] = "dhcp" /\ Phases[2] = "ip"
    BY DEF Phases
  <2>8. CASE SetDhcp(d)
    <3>1. phase = 1 /\ phase' = 1
      BY <2>8 DEF SetDhcp, At, Kind, Phases
    <3>2. ~Passed(2, d)'
      BY <3>1 DEF Passed
    <3>3. cfg'[d] = DhcpConfig(cfg[d], ProtosOf(d)) /\ cfg[d] \in Config
      BY <2>2, <2>8 DEF SetDhcp, TypeOK
    <3>4. /\ cfg'[d].exists /\ cfg'[d].ips = {}
          /\ cfg'[d].dhcp4 = ("4" \in ProtosOf(d))
          /\ cfg'[d].dhcp6 = ("6" \in ProtosOf(d))
      BY <3>3, DhcpConfigFields
    <3>5. DhcpDone(d)'
      BY <2>4, <3>4 DEF DhcpDone
    <3>6. IpDone(d)'
      BY <3>2 DEF IpDone
    <3> QED
      BY <3>5, <3>6
  <2>9. CASE SetIp(d)
    <3>1. phase = 2 /\ phase' = 2 /\ HasOpt(d, "ip") /\ Behind(d)'
      <4>1. phase = 2 /\ phase' = 2
        BY <2>9 DEF SetIp, At, Kind, Phases
      <4>2. PICK k \in DOMAIN Devices : Devices[k] = d /\ Handled(k) /\ i' = k + 1
        BY <2>9 DEF SetIp, At
      <4>3. k < i'
        BY <4>2, DevicesAssumption
      <4> QED
        BY <2>9, <4>1, <4>2, <4>3 DEF Behind, SetIp, Handled
    <3>2. Passed(1, d) /\ Passed(2, d)'
      BY <3>1 DEF Passed
    <3>3. cfg'[d] = IpConfig(cfg[d], OptOf(d, "ip"), ProtosOf(d)) /\ cfg[d] \in Config
      BY <2>2, <2>9 DEF SetIp, TypeOK
    <3>4. CASE Removes(OptOf(d, "ip"))
      <4>1. ASSUME HasOpt(d, "dhcp")
            PROVE  /\ cfg'[d].exists /\ cfg'[d].ips = {}
                   /\ cfg'[d].dhcp4 = ("4" \in ProtosOf(d))
                   /\ cfg'[d].dhcp6 = ("6" \in ProtosOf(d))
        <5>1. /\ cfg[d].exists
              /\ cfg[d].dhcp4 = ("4" \in ProtosOf(d))
              /\ cfg[d].dhcp6 = ("6" \in ProtosOf(d))
          BY <2>3, <3>2, <3>4, <4>1 DEF DhcpDone
        <5>2. cfg'[d] = NoAddressConfig(cfg[d])
          BY <3>3, <3>4 DEF IpConfig
        <5> QED
          BY <3>3, <5>1, <5>2, NoAddressFields
      <4>2. DhcpDone(d)'
        BY <2>4, <4>1 DEF DhcpDone
      <4>3. IpDone(d)'
        BY <2>5, <3>4 DEF IpDone
      <4> QED
        BY <4>2, <4>3
    <3>5. CASE ~Removes(OptOf(d, "ip"))
      <4>1. DhcpDone(d)'
        BY <2>4, <2>5, <3>1, <3>2, <3>5 DEF DhcpDone
      <4>2. ASSUME Tokens(OptOf(d, "ip")) # {}
            PROVE  /\ HasAddresses(cfg'[d], Tokens(OptOf(d, "ip")))
                   /\ cfg'[d].dhcp4 = ("4" \in ProtosOf(d) /\ IPv4Of(OptOf(d, "ip")) = {})
                   /\ cfg'[d].dhcp6 = ("6" \in ProtosOf(d) /\ IPv6Of(OptOf(d, "ip")) = {})
        <5>1. cfg'[d] = StaticConfig(OptOf(d, "ip"), ProtosOf(d))
          BY <3>3, <3>5 DEF IpConfig
        <5>2. /\ OptOf(d, "ip") \in Seq(IpWord)
              /\ Tokens(OptOf(d, "ip")) \subseteq Addr4 \cup Addr6
          BY <3>1, <3>5, IpWords DEF TypeOK
        <5> QED
          BY <4>2, <5>1, <5>2, StaticConfigFields
      <4>3. IpDone(d)'
        BY <2>4, <2>5, <4>2 DEF IpDone, HasAddresses
      <4> QED
        BY <4>1, <4>3
    <3> QED
      BY <3>4, <3>5
  <2>10. CASE ~SetDhcp(d) /\ ~SetIp(d)
    <3>1. HasOpt(d, "dhcp") /\ Passed(1, d)' => Passed(1, d)
      <4> SUFFICES ASSUME HasOpt(d, "dhcp"), Passed(1, d)', ~Passed(1, d) PROVE FALSE
        OBVIOUS
      <4>1. phase = 1 /\ At(d)
        BY <1>3, <2>2, <2>4, <2>7, NewlyPassed
      <4> QED
        BY <1>3, <2>2, <2>6, <2>7, <2>10, <4>1, HandlerOf
           DEF Kind, SetIp, SetDns, SetDnsFails, SetRoute, SkipRoute, PassGateway, SetIpFails
    <3>2. HasOpt(d, "ip") /\ Passed(2, d)' => Passed(2, d)
      <4> SUFFICES ASSUME HasOpt(d, "ip"), Passed(2, d)', ~Passed(2, d) PROVE FALSE
        OBVIOUS
      <4>1. phase = 2 /\ At(d)
        BY <1>3, <2>2, <2>4, <2>7, NewlyPassed
      <4> QED
        BY <1>3, <2>2, <2>6, <2>7, <2>10, <4>1, HandlerOf
           DEF Kind, SetDhcp, SetDns, SetDnsFails, SetRoute, SkipRoute, PassGateway,
               SetDhcpFails
    <3>3. Passed(2, d) => Passed(2, d)'
      BY <1>3, PassedGrows
    <3>4. /\ cfg'[d].exists = cfg[d].exists
          /\ cfg'[d].ips = cfg[d].ips /\ cfg'[d].alias = cfg[d].alias
          /\ cfg'[d].dhcp4 = cfg[d].dhcp4 /\ cfg'[d].dhcp6 = cfg[d].dhcp6
      <4>1. cfg[d] \in Config
        BY <2>2 DEF TypeOK
      <4>2. \/ cfg'[d] = cfg[d]
            \/ \E w \in GatewayWord : cfg'[d] = GatewayConfig(cfg[d], w)
        BY <1>3, <2>2, <2>10, FileWriters
      <4> QED
        BY <4>1, <4>2, GatewayFields
    <3>5. Passed(2, d)' \in BOOLEAN /\ Passed(2, d) \in BOOLEAN
      BY DEF Passed, Behind
    <3>6. HasOpt(d, "ip") => Passed(2, d)' = Passed(2, d)
      BY <3>2, <3>3, <3>5
    <3> QED
      BY <2>1, <2>3, <3>1, <3>4, <3>6, SameAddresses
  <2> QED
    BY <2>8, <2>9, <2>10
<1> QED
  BY <1>1, <1>2, <1>3

\* set_dhcp() and set_ip() each write the file of an adapter anew, and the order in which
\* apply_parameters() calls them makes up for that: whatever the number of adapters and
\* options, an adapter that needed a change, and on which no script failed, ends up with
\* the addresses and the DHCP the command line asks for, less those addresses of IPv6 that
\* are a part of another that it has.
THEOREM AddressingAsAskedHolds == Spec => []AddressingAsAsked
<1>1. Init => AddressInv
  BY DEF Init, AddressInv
<1>2. TypeOK /\ AddressInv => AddressingAsAsked
  <2> SUFFICES ASSUME TypeOK, AddressInv, Done PROVE AddressingAsAsked
    BY DEF AddressingAsAsked
  <2>1. \A d : Passed(1, d) /\ Passed(2, d)
    BY DEF Done, Passed, Phases, TypeOK
  <2>2. \A d \in changed \ (failed \cup Wiped) : DhcpDone(d) /\ IpDone(d)
    BY DEF AddressInv
  <2> QED
    BY <2>1, <2>2 DEF AddressingAsAsked, DhcpDone, IpDone
<1> QED
  BY <1>1, <1>2, AddressStep, TypeCorrect, LoopInvariant, PTL DEF Spec

-----------------------------------------------------------------------------
(* Gateways. *)

\* The records the two passes have worked off: all of the first pass once the second has
\* begun, and those before the position of the pass that is going on.  A record the script
\* is running for is not yet among them.
SecondPass == at = "set" \/ (at = "script" /\ ~IsSubstrOfRemove(opts[i].value))
Handed(k) ==
  \/ phase > 3
  \/ /\ phase = 3 /\ at # "device"
     /\ IF IsSubstrOfRemove(opts[k].value) THEN SecondPass \/ k < i ELSE SecondPass /\ k < i

\* g is what the last word of a family leaves among the words before n, if there is one.
Applied(g, value, n, family, removal) ==
  \A m \in DOMAIN value :
    /\ m < n /\ value[m] \in family
    /\ \A j \in DOMAIN value : m < j /\ j < n => value[j] \notin family
    => g = IF value[m] = removal THEN None ELSE value[m]

Written(d, k, n) ==
  /\ Applied(cfg[d].gw4, opts[k].value, n, {"remove"} \cup Gw4, "remove")
  /\ Applied(cfg[d].gw6, opts[k].value, n, {"removev6"} \cup Gw6, "removev6")

\* For an adapter with one --gateway the script is called once; while it runs the file has
\* what the words before the present one say, and afterwards what all of them say.
GatewayInv ==
  \A d \in Dev \ (failed \cup skipped) : \A k \in DOMAIN opts :
    GatewayOpts(d) = {k} /\ cfg[d].exists =>
      /\ Handed(k) => Written(d, k, Len(opts[k].value) + 1)
      /\ at = "script" /\ i = k => Written(d, k, word)

\* The next word of the list, applied to the file.
LEMMA NextWord ==
  ASSUME NEW c \in Config, NEW value \in Seq(GatewayWord), NEW n \in DOMAIN value
  PROVE  LET new == GatewayConfig(c, value[n])
         IN  /\ Applied(c.gw4, value, n, {"remove"} \cup Gw4, "remove") =>
                  Applied(new.gw4, value, n + 1, {"remove"} \cup Gw4, "remove")
             /\ Applied(c.gw6, value, n, {"removev6"} \cup Gw6, "removev6") =>
                  Applied(new.gw6, value, n + 1, {"removev6"} \cup Gw6, "removev6")
<1> DEFINE new == GatewayConfig(c, value[n])
           w == value[n]
<1>1. w \in GatewayWord /\ DOMAIN value \subseteq Nat
  OBVIOUS
<1>2. /\ w = "remove" => new = [c EXCEPT !.gw4 = None]
      /\ w = "removev6" => new = [c EXCEPT !.gw6 = None]
      /\ w \in Gw4 => new = [c EXCEPT !.gw4 = w]
      /\ w \in Gw6 => new = [c EXCEPT !.gw6 = w]
  BY FamiliesAssumption DEF GatewayConfig
<1>3. /\ w \in {"remove"} \cup Gw4 => new.gw4 = IF w = "remove" THEN None ELSE w
      /\ w \notin {"remove"} \cup Gw4 => new.gw4 = c.gw4
      /\ w \in {"removev6"} \cup Gw6 => new.gw6 = IF w = "removev6" THEN None ELSE w
      /\ w \notin {"removev6"} \cup Gw6 => new.gw6 = c.gw6
  BY <1>1, <1>2, FamiliesAssumption DEF Config, GatewayWord
<1> HIDE DEF new
<1>4. ASSUME NEW g, NEW g2, NEW family, NEW removal, Applied(g, value, n, family, removal),
             w \in family => g2 = IF w = removal THEN None ELSE w,
             w \notin family => g2 = g
      PROVE  Applied(g2, value, n + 1, family, removal)
  <2> SUFFICES ASSUME NEW m \in DOMAIN value, m < n + 1, value[m] \in family,
                      \A j \in DOMAIN value : m < j /\ j < n + 1 => value[j] \notin family
               PROVE  g2 = IF value[m] = removal THEN None ELSE value[m]
    BY DEF Applied
  <2>1. CASE m = n
    BY <1>4, <2>1
  <2>2. CASE m # n
    <3>1. m < n /\ w \notin family
      BY <1>1, <2>2
    <3>2. \A j \in DOMAIN value : m < j /\ j < n => value[j] \notin family
      BY <1>1
    <3> QED
      BY <1>4, <3>1, <3>2 DEF Applied
  <2> QED
    BY <2>1, <2>2
<1> QED
  BY <1>3, <1>4 DEF new

\* From the gateway phase on the script is the only one to write the file of an adapter,
\* and only for a record of this adapter.
LEMMA OnlyTheScript ==
  ASSUME TypeOK, Next, phase > 2, NEW d \in Dev
  PROVE  \/ cfg'[d] = cfg[d]
         \/ at = "script" /\ opts[i].mac = d /\ (GatewayWordStep \/ GatewayWordFails)
<1> USE DEF stored
<1>0. cfg \in [Dev -> Config] /\ phase \notin {0, 1, 2}
  BY DEF TypeOK
<1>1. ASSUME NEW e \in Dev, SetDhcp(e) \/ SetIp(e) PROVE FALSE
  BY <1>0, <1>1 DEF SetDhcp, SetIp, At, Kind, Phases
<1>2. ASSUME NEW e \in Dev,
             \/ SetDhcpFails(e) \/ SetIpFails(e) \/ SetDns(e) \/ SetDnsFails(e)
             \/ SetRoute(e) \/ SkipRoute(e) \/ PassGateway(e)
      PROVE  cfg'[d] = cfg[d]
  BY <1>2 DEF SetDhcpFails, SetIpFails, SetDns, SetDnsFails, SetRoute, SkipRoute, PassGateway
<1>3. CASE \/ Prepare \/ EndDevices \/ SetSearchDomain \/ SetHostname \/ SetGlobalFails
           \/ EndGateway \/ EndPass
  BY <1>3 DEF Prepare, EndDevices, SetSearchDomain, SetHostname, SetGlobalFails,
              EndGateway, EndPass
<1>4. ASSUME NEW k \in DOMAIN opts, SkipGateway(k) \/ StartGateway(k) \/ GatewayNoFile(k)
      PROVE  cfg'[d] = cfg[d]
  BY <1>4 DEF SkipGateway, StartGateway, GatewayNoFile
<1>5. CASE GatewayWordStep \/ GatewayWordFails
  BY <1>0, <1>5 DEF GatewayWordStep, GatewayWordFails
<1> QED
  BY <1>1, <1>2, <1>3, <1>4, <1>5 DEF Next

\* While the script runs no other step is possible, and it is begun by StartGateway() only.
LEMMA InScript ==
  ASSUME TypeOK, Next, at = "script"
  PROVE  phase = 3 /\ (GatewayWordStep \/ GatewayWordFails \/ EndGateway)
<1>1. phase = 3
  BY DEF TypeOK
<1>2. \A d \in Dev : ~At(d)
  BY DEF At
<1>3. ~(Prepare \/ EndDevices \/ SetSearchDomain \/ SetHostname \/ SetGlobalFails \/ EndPass)
  BY <1>1 DEF Prepare, EndDevices, SetSearchDomain, SetHostname, SetGlobalFails, EndPass,
              NoMoreDevices
<1>4. \A k \in DOMAIN opts : ~(SkipGateway(k) \/ StartGateway(k) \/ GatewayNoFile(k))
  BY DEF SkipGateway, StartGateway, GatewayNoFile, AtRecord
<1>5. \A d \in Dev : ~(\/ SetDhcp(d) \/ SetDhcpFails(d) \/ SetIp(d) \/ SetIpFails(d)
                       \/ SetDns(d) \/ SetDnsFails(d) \/ SetRoute(d) \/ SkipRoute(d)
                       \/ PassGateway(d))
  BY <1>2 DEF SetDhcp, SetDhcpFails, SetIp, SetIpFails, SetDns, SetDnsFails, SetRoute,
              SkipRoute, PassGateway
<1> QED
  BY <1>1, <1>3, <1>4, <1>5 DEF Next

LEMMA ScriptBegins ==
  ASSUME TypeOK, Next, at' = "script", at # "script"
  PROVE  \E k \in DOMAIN opts : StartGateway(k)
<1>1. ~(GatewayWordStep \/ GatewayWordFails \/ EndGateway)
  BY DEF GatewayWordStep, GatewayWordFails, EndGateway
<1>2. ~(Prepare \/ EndDevices \/ SetSearchDomain \/ SetHostname \/ SetGlobalFails \/ EndPass)
  BY DEF Prepare, EndDevices, SetSearchDomain, SetHostname, SetGlobalFails, EndPass, NextPhase
<1>3. \A k \in DOMAIN opts : ~(SkipGateway(k) \/ GatewayNoFile(k))
  BY DEF SkipGateway, GatewayNoFile
<1>4. \A d \in Dev : ~(\/ SetDhcp(d) \/ SetDhcpFails(d) \/ SetIp(d) \/ SetIpFails(d)
                       \/ SetDns(d) \/ SetDnsFails(d) \/ SetRoute(d) \/ SkipRoute(d)
                       \/ PassGateway(d))
  BY DEF SetDhcp, SetDhcpFails, SetIp, SetIpFails, SetDns, SetDnsFails, SetRoute,
         SkipRoute, PassGateway
<1> QED
  BY <1>1, <1>2, <1>3, <1>4 DEF Next

\* A pass gets past a record of its own only by the script, or by a step that finds it
\* should not be called.
LEMMA NewlyHanded ==
  ASSUME TypeOK, Next, ~Prepare, NEW k \in DOMAIN opts, opts[k].type = "gateway",
         Handed(k)', ~Handed(k)
  PROVE  \/ SkipGateway(k) \/ GatewayNoFile(k)
         \/ at = "script" /\ i = k
<1> DEFINE First == IsSubstrOfRemove(opts[k].value)
<1>1. DOMAIN opts \subseteq Nat \ {0} /\ i \in Nat \ {0} /\ phase \in 0..8
  BY DEF TypeOK, IsOptions, Phases
<1>2. opts' = opts
  BY Frame
<1>3. ASSUME phase' = phase, at' = "device" PROVE FALSE
  BY <1>2, <1>3 DEF Handed
<1>4. CASE at = "device"
  <2>1. ~(GatewayWordStep \/ GatewayWordFails \/ EndGateway \/ EndPass)
    BY <1>4 DEF GatewayWordStep, GatewayWordFails, EndGateway, EndPass
  <2>2. \A n \in DOMAIN opts : ~(SkipGateway(n) \/ StartGateway(n) \/ GatewayNoFile(n))
    BY <1>4 DEF SkipGateway, StartGateway, GatewayNoFile, AtRecord
  <2>3. ASSUME NEW d \in Dev,
               \/ SetDhcp(d) \/ SetDhcpFails(d) \/ SetIp(d) \/ SetIpFails(d) \/ SetDns(d)
               \/ SetDnsFails(d) \/ SetRoute(d) \/ SkipRoute(d) \/ PassGateway(d)
        PROVE  FALSE
    <3>1. phase' = phase /\ at' = at
      BY <2>3 DEF SetDhcp, SetDhcpFails, SetIp, SetIpFails, SetDns, SetDnsFails, SetRoute,
                  SkipRoute, PassGateway
    <3> QED
      BY <1>3, <1>4, <3>1
  <2>4. ASSUME NextPhase, phase # 3 PROVE FALSE
    BY <1>1, <2>4 DEF NextPhase, Handed
  <2>5. ASSUME SetSearchDomain \/ SetHostname \/ SetGlobalFails PROVE FALSE
    <3>1. NextPhase /\ GlobalOpt
      BY <2>5 DEF SetSearchDomain, SetHostname, SetGlobalFails
    <3>2. phase # 3
      BY <3>1 DEF GlobalOpt, Kind, Phases
    <3> QED
      BY <2>4, <3>1, <3>2
  <2>6. ASSUME EndDevices PROVE FALSE
    <3>1. CASE Kind = "gateway"
      <4>1. at' = "remove" /\ i' = 1 /\ phase' = phase
        BY <2>6, <3>1 DEF EndDevices
      <4>2. ~SecondPass' /\ ~(k < i')
        BY <1>1, <4>1 DEF SecondPass
      <4> QED
        BY <1>2, <4>1, <4>2 DEF Handed
    <3>2. CASE Kind # "gateway"
      BY <2>4, <2>6, <3>2 DEF EndDevices, Kind, Phases
    <3> QED
      BY <3>1, <3>2
  <2> QED
    BY <2>1, <2>2, <2>3, <2>5, <2>6 DEF Next
<1>5. CASE at \in {"remove", "set"}
  <2>1. phase = 3 /\ ~(phase > 3)
    BY <1>5 DEF TypeOK
  <2>2. InPass(k) <=> (First <=> at = "remove")
    BY <1>5 DEF InPass
  <2>3. (k >= i /\ InPass(k)) \/ (at = "remove" /\ ~First)
    BY <1>1, <1>5, <2>1, <2>2 DEF Handed, SecondPass
  <2>4. ASSUME NEW n \in DOMAIN opts, SkipGateway(n) \/ GatewayNoFile(n), n # k PROVE FALSE
    <3>1. AtRecord(n) /\ at' = at /\ phase' = phase /\ i' = n + 1
      BY <2>4 DEF SkipGateway, GatewayNoFile
    <3>2. k >= i /\ InPass(k) => n < k
      BY <1>1, <2>4, <3>1 DEF AtRecord
    <3>3. SecondPass' <=> at = "set"
      BY <1>5, <3>1 DEF SecondPass
    <3> QED
      BY <1>1, <1>2, <1>5, <2>1, <2>2, <2>3, <3>1, <3>2, <3>3 DEF Handed
  <2>5. ASSUME NEW n \in DOMAIN opts, StartGateway(n) PROVE FALSE
    <3>1. AtRecord(n) /\ at' = "script" /\ phase' = phase /\ i' = n
      BY <2>5 DEF StartGateway
    <3>2. k >= i /\ InPass(k) => n <= k
      BY <1>1, <3>1 DEF AtRecord
    <3>3. SecondPass' <=> at = "set"
      BY <1>2, <1>5, <3>1 DEF SecondPass, AtRecord, InPass
    <3> QED
      BY <1>1, <1>2, <1>5, <2>1, <2>2, <2>3, <3>1, <3>2, <3>3 DEF Handed
  <2>6. ASSUME EndPass PROVE FALSE
    <3>1. ~(k >= i /\ InPass(k))
      BY <2>6 DEF EndPass
    <3>2. at' = "set" /\ i' = 1 /\ phase' = phase
      BY <2>3, <2>6, <3>1 DEF EndPass
    <3> QED
      BY <1>1, <1>2, <2>1, <2>3, <3>1, <3>2 DEF Handed
  <2>7. \A d \in Dev : ~At(d)
    BY <1>5 DEF At
  <2>8. \A d \in Dev : ~(\/ SetDhcp(d) \/ SetDhcpFails(d) \/ SetIp(d) \/ SetIpFails(d)
                         \/ SetDns(d) \/ SetDnsFails(d) \/ SetRoute(d) \/ SkipRoute(d)
                         \/ PassGateway(d))
    BY <2>7 DEF SetDhcp, SetDhcpFails, SetIp, SetIpFails, SetDns, SetDnsFails, SetRoute,
                SkipRoute, PassGateway
  <2>9. ~(\/ EndDevices \/ SetSearchDomain \/ SetHostname \/ SetGlobalFails
          \/ GatewayWordStep \/ GatewayWordFails \/ EndGateway)
    BY <1>5 DEF EndDevices, SetSearchDomain, SetHostname, SetGlobalFails, NoMoreDevices,
                GatewayWordStep, GatewayWordFails, EndGateway
  <2> QED
    BY <2>4, <2>5, <2>6, <2>8, <2>9 DEF Next
<1>6. CASE at = "script" /\ i # k
  <2>1. phase = 3 /\ (GatewayWordStep \/ GatewayWordFails \/ EndGateway)
    BY <1>6, InScript
  <2>2. CASE GatewayWordStep
    <3>1. at' = at /\ i' = i /\ phase' = phase
      BY <2>2 DEF GatewayWordStep
    <3> QED
      BY <1>2, <3>1 DEF Handed, SecondPass
  <2>3. CASE GatewayWordFails \/ EndGateway
    <3>1. /\ at' = IF IsSubstrOfRemove(opts[i].value) THEN "remove" ELSE "set"
          /\ i' = i + 1 /\ phase' = phase
      BY <2>3 DEF GatewayWordFails, EndGateway, GatewayReturns
    <3>2. SecondPass' <=> SecondPass
      BY <1>6, <3>1 DEF SecondPass
    <3>3. k < i' <=> k < i
      BY <1>1, <1>6, <3>1
    <3> QED
      BY <1>2, <1>6, <2>1, <3>1, <3>2, <3>3 DEF Handed
  <2> QED
    BY <2>1, <2>2, <2>3
<1> QED
  BY <1>4, <1>5, <1>6 DEF TypeOK

LEMMA SameGateways ==
  ASSUME UNCHANGED opts, NEW d, cfg'[d] = cfg[d], NEW k, NEW n, Written(d, k, n)
  PROVE  Written(d, k, n)'
BY DEF Written, Applied

LEMMA GatewayStep == TypeOK /\ GatewayInv /\ [Next]_vars => GatewayInv'
<1> SUFFICES ASSUME TypeOK, GatewayInv, [Next]_vars PROVE GatewayInv'
  OBVIOUS
<1> SUFFICES ASSUME NEW d \in Dev, d \notin failed' \cup skipped', NEW k \in DOMAIN opts',
                    GatewayOpts(d)' = {k}, cfg'[d].exists
             PROVE  /\ Handed(k)' => Written(d, k, Len(opts[k].value) + 1)'
                    /\ at' = "script" /\ i' = k => Written(d, k, word)'
  BY DEF GatewayInv
<1>1. CASE UNCHANGED vars
  <2>1. UNCHANGED <<opts, cfg, phase, at, i, word, failed, skipped>>
    BY <1>1 DEF vars, stored, result
  <2>2. GatewayOpts(d) = {k} /\ (Handed(k)' => Handed(k))
    BY <2>1 DEF GatewayOpts, Handed, SecondPass
  <2>3. /\ Handed(k) => Written(d, k, Len(opts[k].value) + 1)
        /\ at = "script" /\ i = k => Written(d, k, word)
    BY <2>1, <2>2 DEF GatewayInv
  <2> QED
    BY <2>1, <2>2, <2>3 DEF Written, Applied
<1>2. CASE Prepare
  <2>1. phase' = 1 /\ at' = "device"
    BY <1>2 DEF Prepare, TypeOK
  <2> QED
    BY <2>1 DEF Handed
<1>3. CASE Next /\ ~Prepare
  <2>1. opts' = opts /\ d \notin failed \cup skipped /\ k \in DOMAIN opts
    BY <1>3, Frame, HistoryGrows
  <2>2. GatewayOpts(d) = {k} /\ opts[k].type = "gateway" /\ opts[k].mac = d
    BY <2>1 DEF GatewayOpts
  <2>3. \A n \in DOMAIN opts : opts[n].type = "gateway" /\ opts[n].mac = d => n = k
    BY <2>2 DEF GatewayOpts
  <2>4. at = "script" /\ opts[i].mac = d => i = k
    BY <2>3 DEF TypeOK
  <2>5. cfg[d] \in Config /\ opts[k].value \in Seq(GatewayWord)
    BY <2>1, <2>2 DEF TypeOK, IsOptions
  <2>6. cfg[d].exists =>
          /\ Handed(k) => Written(d, k, Len(opts[k].value) + 1)
          /\ at = "script" /\ i = k => Written(d, k, word)
    BY <2>1, <2>2 DEF GatewayInv
  <2>7. CASE at = "script" /\ i = k
    <3>1. phase = 3 /\ (GatewayWordStep \/ GatewayWordFails \/ EndGateway)
      BY <1>3, <2>7, InScript
    <3>2. ~GatewayWordFails
      BY <2>2, <2>7 DEF GatewayWordFails, GatewayReturns, Returns
    <3>3. CASE GatewayWordStep
      <4>1. /\ phase' = phase /\ at' = at /\ i' = i /\ word' = word + 1
            /\ word \in DOMAIN opts[k].value
            /\ cfg'[d] = GatewayConfig(cfg[d], opts[k].value[word])
        BY <2>2, <2>7, <3>3 DEF GatewayWordStep, TypeOK
      <4>2. ~Handed(k)'
        BY <2>1, <2>7, <3>1, <4>1 DEF Handed, SecondPass, TypeOK
      <4>3. cfg[d].exists
        BY <2>5, <4>1, GatewayFields
      <4>4. Written(d, k, word)
        BY <2>6, <2>7, <4>3
      <4>5. /\ Applied(cfg'[d].gw4, opts[k].value, word + 1, {"remove"} \cup Gw4, "remove")
            /\ Applied(cfg'[d].gw6, opts[k].value, word + 1, {"removev6"} \cup Gw6, "removev6")
        BY <2>5, <4>1, <4>4, NextWord DEF Written
      <4>6. Written(d, k, word)'
        BY <2>1, <4>1, <4>5 DEF Written, Applied
      <4> QED
        BY <4>2, <4>6
    <3>4. CASE EndGateway
      <4>1. /\ cfg' = cfg /\ word \notin DOMAIN opts[k].value
            /\ at' # "script"
        BY <2>7, <3>4 DEF EndGateway, GatewayReturns, stored
      <4>2. Written(d, k, word)
        BY <2>6, <2>7, <4>1
      <4>3. \A m \in DOMAIN opts[k].value : m < word
        BY <2>5, <4>1 DEF TypeOK
      <4>4. Written(d, k, Len(opts[k].value) + 1)
        BY <2>5, <4>2, <4>3 DEF Written, Applied
      <4> QED
        BY <2>1, <4>1, <4>4, SameGateways
    <3> QED
      BY <3>1, <3>2, <3>3, <3>4
  <2>8. CASE ~(at = "script" /\ i = k)
    <3>1. phase > 2 => cfg'[d] = cfg[d]
      BY <1>3, <2>4, <2>8, OnlyTheScript
    <3>2. ASSUME Handed(k)' PROVE Written(d, k, Len(opts[k].value) + 1)'
      <4>1. Handed(k)
        <5> SUFFICES ASSUME ~Handed(k) PROVE FALSE
          OBVIOUS
        <5>1. SkipGateway(k) \/ GatewayNoFile(k)
          BY <1>3, <2>1, <2>2, <2>8, <3>2, NewlyHanded
        <5>2. ~SkipGateway(k)
          BY <2>2 DEF SkipGateway
        <5>3. GatewayNoFile(k) => ~cfg'[d].exists
          BY <2>2 DEF GatewayNoFile, stored
        <5> QED
          BY <5>1, <5>2, <5>3
      <4>2. cfg'[d] = cfg[d]
        BY <3>1, <4>1 DEF Handed, TypeOK
      <4>3. Written(d, k, Len(opts[k].value) + 1)
        BY <2>6, <4>1, <4>2
      <4> QED
        BY <2>1, <4>2, <4>3, SameGateways
    <3>3. ASSUME at' = "script", i' = k PROVE Written(d, k, word)'
      <4>1. CASE at = "script"
        <5>1. i' = i
          BY <1>3, <3>3, <4>1, InScript DEF GatewayWordStep, GatewayWordFails, EndGateway,
                                            GatewayReturns
        <5> QED
          BY <2>8, <3>3, <4>1, <5>1
      <4>2. CASE at # "script"
        <5>1. word' = 1
          BY <1>3, <3>3, <4>2, ScriptBegins DEF StartGateway
        <5>2. \A m \in DOMAIN opts[k].value : ~(m < word')
          BY <2>5, <5>1
        <5> QED
          BY <2>1, <5>2 DEF Written, Applied
      <4> QED
        BY <4>1, <4>2
    <3> QED
      BY <3>2, <3>3
  <2> QED
    BY <2>7, <2>8
<1> QED
  BY <1>1, <1>2, <1>3

\* A list with a word of a family has a last one, and LastOf() is this one.
LEMMA LastIs ==
  ASSUME NEW value \in Seq(GatewayWord), NEW S, Tokens(value) \cap S # {}
  PROVE  \E n \in DOMAIN value : /\ value[n] \in S /\ LastOf(value, S) = value[n]
                                 /\ \A m \in DOMAIN value : m > n => value[m] \notin S
<1> DEFINE Last(n) == value[n] \in S /\ \A m \in DOMAIN value : m > n => value[m] \notin S
           Gaps == {x \in Nat : \E n \in DOMAIN value : value[n] \in S /\ x = Len(value) - n}
<1>1. DOMAIN value = 1..Len(value) /\ Len(value) \in Nat
  OBVIOUS
<1>2. PICK x \in Gaps : \A y \in Gaps : x <= y
  <2>1. PICK n \in DOMAIN value : value[n] \in S
    BY DEF Tokens
  <2>2. Len(value) - n \in Gaps
    BY <1>1, <2>1
  <2> HIDE DEF Gaps
  <2> QED
    <3>1. Gaps \subseteq Nat
      BY DEF Gaps
    <3> QED
      BY <2>2, <3>1, Least
<1>3. PICK n \in DOMAIN value : value[n] \in S /\ x = Len(value) - n
  OBVIOUS
<1>4. ASSUME NEW m \in DOMAIN value, m > n, value[m] \in S PROVE FALSE
  <2>1. Len(value) - m \in Gaps
    BY <1>1, <1>4
  <2> QED
    BY <1>1, <1>2, <1>3, <1>4, <2>1
<1>5. Last(n)
  BY <1>3, <1>4
<1>6. LastOf(value, S) = value[CHOOSE m \in DOMAIN value : Last(m)]
  BY DEF LastOf
<1> HIDE DEF Last
<1>7. /\ (CHOOSE m \in DOMAIN value : Last(m)) \in DOMAIN value
      /\ Last(CHOOSE m \in DOMAIN value : Last(m))
  BY <1>5
<1> QED
  BY <1>6, <1>7 DEF Last

\* The gateways of the command line are in the file of an adapter at the end: the script
\* applies the words of its list one after the other, in the last of the phases that write
\* this file, and the two passes over the records leave none out.
THEOREM GatewaysAsAskedHolds == Spec => []GatewaysAsAsked
<1>1. Init => GatewayInv
  BY DEF Init, GatewayInv, Handed
<1>2. TypeOK /\ GatewayInv => GatewaysAsAsked
  <2> SUFFICES ASSUME TypeOK, GatewayInv, Done,
                      NEW d \in Dev \ (failed \cup skipped), NEW k \in DOMAIN opts,
                      GatewayOpts(d) = {k}, cfg[d].exists
               PROVE  LET value == opts[k].value
                          four  == {"remove"} \cup Gw4
                          six   == {"removev6"} \cup Gw6
                      IN /\ Tokens(value) \cap four # {} =>
                              cfg[d].gw4 = IF LastOf(value, four) = "remove" THEN None
                                           ELSE LastOf(value, four)
                         /\ Tokens(value) \cap six # {} =>
                              cfg[d].gw6 = IF LastOf(value, six) = "removev6" THEN None
                                           ELSE LastOf(value, six)
    BY DEF GatewaysAsAsked
  <2> DEFINE value == opts[k].value
  <2>1. value \in Seq(GatewayWord) /\ Len(value) \in Nat /\ DOMAIN value = 1..Len(value)
    <3>1. opts[k].type = "gateway"
      BY DEF GatewayOpts
    <3>2. value \in Seq(GatewayWord)
      BY <3>1 DEF TypeOK, IsOptions
    <3> QED
      BY <3>2
  <2>2. Handed(k)
    BY DEF Done, Handed, Phases, TypeOK
  <2>3. Written(d, k, Len(value) + 1)
    BY <2>2 DEF GatewayInv
  <2>4. ASSUME NEW g, NEW family, NEW removal,
               Applied(g, value, Len(value) + 1, family, removal),
               Tokens(value) \cap family # {}
        PROVE  g = IF LastOf(value, family) = removal THEN None ELSE LastOf(value, family)
    <3> HIDE DEF value
    <3>1. PICK n \in DOMAIN value :
             /\ value[n] \in family /\ LastOf(value, family) = value[n]
             /\ \A m \in DOMAIN value : m > n => value[m] \notin family
      BY <2>1, <2>4, LastIs
    <3>2. n < Len(value) + 1
      BY <2>1
    <3> QED
      BY <2>1, <2>4, <3>1, <3>2 DEF Applied
  <2> QED
    BY <2>3, <2>4 DEF Written
<1> QED
  BY <1>1, <1>2, GatewayStep, TypeCorrect, PTL DEF Spec
==============================================================================
