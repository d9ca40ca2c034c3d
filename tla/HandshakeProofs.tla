-------------------------- MODULE HandshakeProofs --------------------------
(***************************************************************************)
(* Whenever both configurations pass the checks made at start and name a   *)
(* common route, the Hellos lead to a tunnel: negotiation never produces   *)
(* an answer that gateway-out refuses.                                     *)
(***************************************************************************)
EXTENDS Handshake, TLAPS

\* The wire's ceilings are numbers (limits.go).
LEMMA CeilingsAreNaturals ==
    /\ LimitFields = {"frame", "data", "message", "inFlight", "entries", "value", "credit"}
    /\ \A field \in LimitFields : V1[field] \in Nat
    /\ V1["message"] >= V1["data"]
BY SMT DEF LimitFields, V1

\* validateLimits fixes a range for every limit.
LEMMA LimitsAreNaturals ==
    ASSUME NEW l, ValidLimits(l)
    PROVE  /\ \A field \in LimitFields : l[field] \in 1 .. V1[field]
           /\ l["frame"] > l["data"] /\ l["message"] >= l["data"]
<1>1. \A field \in LimitFields \ {"message"} : l[field] \in 1 .. V1[field]
  BY DEF ValidLimits
<1>2. l["frame"] > l["data"] /\ l["message"] \in l["data"] .. V1["message"]
  BY DEF ValidLimits
<1>3. l["data"] \in 1 .. V1["data"] /\ V1["data"] \in Nat /\ V1["message"] \in Nat
  BY <1>1, CeilingsAreNaturals
<1>4. l["message"] \in 1 .. V1["message"] /\ l["message"] >= l["data"]
  BY <1>2, <1>3
<1> QED
  BY <1>1, <1>2, <1>4

\* minimumLimits of two valid sets of limits is valid although it mixes fields of
\* both sides: the frame still exceeds the data and the message still holds it.
LEMMA MinimumIsValid ==
    ASSUME NEW a, NEW b, ValidLimits(a), ValidLimits(b)
    PROVE  /\ ValidLimits(MinimumLimits(a, b))
           /\ LimitsDoNotExceed(MinimumLimits(a, b), b)
<1> DEFINE m == MinimumLimits(a, b)
<1>1. \A field \in LimitFields :
        /\ a[field] \in 1 .. V1[field] /\ b[field] \in 1 .. V1[field] /\ V1[field] \in Nat
  BY LimitsAreNaturals, CeilingsAreNaturals
<1>2. \A field \in LimitFields : m[field] = Least(a[field], b[field])
  BY DEF MinimumLimits
<1>3. \A field \in LimitFields : m[field] \in 1 .. V1[field] /\ m[field] <= b[field]
  BY <1>1, <1>2, LimitsAreNaturals DEF Least
<1>4. m["frame"] > m["data"] /\ m["message"] >= m["data"]
  BY <1>1, <1>2, LimitsAreNaturals, CeilingsAreNaturals DEF Least
<1>5. m["message"] \in m["data"] .. V1["message"]
  BY <1>3, <1>4, CeilingsAreNaturals
<1>6. ValidLimits(m)
  BY <1>3, <1>4, <1>5 DEF ValidLimits
<1> QED
  BY <1>3, <1>6 DEF LimitsDoNotExceed

\* What the check of a Hello frame comes to: the header is right by construction.
LEMMA InHelloIsValid ==
    ASSUME NEW n, ValidLimits(n.limits), n.capabilities \subseteq Capabilities,
           n.classes \subseteq TrafficClasses, n.classes # {},
           n.routes \subseteq RouteIds, n.routes # {}
    PROVE  ValidateGatewayInFrame(HelloOf(n))
<1> DEFINE f == HelloOf(n)
<1>1. ~f.unknown /\ f.type = "Hello" /\ f.header.tunnel = Opaque /\ HelloHeader(f.header)
  BY DEF HelloOf, Hello, HelloHeader
<1>2. /\ f.body.instance = Opaque /\ f.body.version = ProtocolVersion
      /\ f.body.capabilities = n.capabilities /\ f.body.classes = n.classes
      /\ f.body.routes = n.routes /\ f.body.limits = n.limits
  BY DEF HelloOf, Hello
<1>3. GatewayInHello(f.body)
  BY <1>2 DEF GatewayInHello, ValidOffer
<1> QED
  BY <1>1, <1>3 DEF ValidateGatewayInFrame

\* The offer of a gateway-out with checked limits and routes passes every structural
\* check that gateway-in makes of a Hello.
LEMMA OfferIsValid ==
    ASSUME NEW o, ValidLimits(o.limits), NewRegistry(o.routes)
    PROVE  ValidateGatewayOutFrame(Offer(o))
<1> DEFINE f == Offer(o)
           classes == Classes(o.routes, DOMAIN o.routes)
<1>1. ~f.unknown /\ f.type = "Hello" /\ f.header.tunnel = Nothing /\ HelloHeader(f.header)
  BY DEF Offer, Hello, HelloHeader
<1>2. /\ f.body.instance = Opaque /\ f.body.versions = <<ProtocolVersion>>
      /\ f.body.capabilities = OfferedCapabilities(o) /\ f.body.classes = classes
      /\ f.body.routes = DOMAIN o.routes /\ f.body.limits = o.limits
  BY DEF Offer, Hello
<1>3. DOMAIN o.routes # {} /\ DOMAIN o.routes \subseteq RouteIds
  BY DEF NewRegistry, ValidateRouteSpec
<1>4. \A r \in RouteIds : ClassOf(r) \in TrafficClasses
  BY DEF RouteIds, ClassOf, TrafficClasses
<1>5. classes # {} /\ classes \subseteq TrafficClasses
  BY <1>3, <1>4 DEF Classes, NewRegistry, ValidateRouteSpec
<1>6. OfferedCapabilities(o) \subseteq Capabilities
  BY DEF OfferedCapabilities, Capabilities
<1>7. SupportedVersions(<<ProtocolVersion>>)
  BY DEF SupportedVersions, Distinct, ProtocolVersion, MaxSupportedVersions
<1>8. GatewayOutHello(f.body)
  BY <1>2, <1>3, <1>5, <1>6, <1>7 DEF GatewayOutHello, ValidOffer
<1> QED
  BY <1>1, <1>8 DEF ValidateGatewayOutFrame

\* newSettings and normalizeConfig check the limits with the validators of the protocol.
LEMMA InLimitsAreValid ==
    ASSUME NEW s, NewSettings(s) PROVE ValidLimits(s.limits)
<1> DEFINE n == [limits |-> s.limits, routes |-> DOMAIN s.routes,
                 capabilities |-> s.capabilities,
                 classes |-> Classes(s.routes, DOMAIN s.routes)]
<1>1. ValidateGatewayInFrame(HelloOf(n))
  BY DEF NewSettings, ValidLocalHello
<1>2. HelloOf(n).type = "Hello" /\ HelloOf(n).body.limits = s.limits
  BY DEF HelloOf, Hello
<1>3. GatewayInHello(HelloOf(n).body)
  BY <1>1, <1>2 DEF ValidateGatewayInFrame
<1> QED
  BY <1>2, <1>3 DEF GatewayInHello, ValidOffer

\* The same for gateway-out's settings.
LEMMA OutLimitsAreValid ==
    ASSUME NEW o, ValidateSettings(o) PROVE ValidLimits(o.limits)
<1> DEFINE f == Hello(Nothing, [instance |-> Opaque, versions |-> <<ProtocolVersion>>,
                                capabilities |-> {}, classes |-> {"control_auth"},
                                routes |-> {"auth"}, limits |-> o.limits])
<1>1. ValidateGatewayOutFrame(f)
  BY DEF ValidateSettings, ValidOfferedLimits
<1>2. f.type = "Hello" /\ f.body.limits = o.limits
  BY DEF Hello
<1>3. GatewayOutHello(f.body)
  BY <1>1, <1>2 DEF ValidateGatewayOutFrame
<1> QED
  BY <1>2, <1>3 DEF GatewayOutHello, ValidOffer

\* Every pair of configurations that pass the checks made at start, share a route
\* and can drain (gateway-in lists the capability) comes to a tunnel: Connect does
\* not refuse gateway-out's Hello, and acceptHello takes the answer of negotiate,
\* whatever the limits of the two sides are. The Hello itself must fit in a frame
\* of gateway-in, which no check at start makes sure of.
THEOREM NegotiationIsAccepted ==
    ASSUME NEW s, NEW o,
           NewSettings(s), ValidateSettings(o), NewRegistry(o.routes),
           "drain" \in s.capabilities,
           Offer(o).size <= s.limits.frame,
           DOMAIN s.routes \cap DOMAIN o.routes # {}
    PROVE  Agree(s, o)
<1> DEFINE offer == Offer(o)
           n == Negotiate(s, offer.body)
           f == HelloOf(n)
<1>1. ValidLimits(s.limits) /\ ValidLimits(o.limits)
  BY InLimitsAreValid, OutLimitsAreValid
<1>2. ValidateGatewayOutFrame(offer) /\ offer.type = "Hello"
  BY <1>1, OfferIsValid DEF Offer, Hello
<1>3. /\ offer.body.capabilities = OfferedCapabilities(o)
      /\ offer.body.classes = Classes(o.routes, DOMAIN o.routes)
      /\ offer.body.routes = DOMAIN o.routes /\ offer.body.limits = o.limits
  BY DEF Offer, Hello
<1>4. \A r \in DOMAIN s.routes \cap DOMAIN o.routes :
        /\ r \in RouteIds /\ s.routes[r].class = ClassOf(r) /\ o.routes[r].class = ClassOf(r)
        /\ ClassOf(r) # "realtime"
  <2>1. ValidRoutePolicies(s)
    BY DEF NewSettings
  <2>2. \A r \in DOMAIN s.routes : s.routes[r].class = ClassOf(r)
    BY <2>1 DEF ValidRoutePolicies
  <2>3. \A r \in DOMAIN o.routes :
          r \in RouteIds /\ o.routes[r].class = ClassOf(r) /\ o.routes[r].class # "realtime"
    BY DEF NewRegistry, ValidateRouteSpec
  <2> QED
    BY <2>2, <2>3
<1>5. n.routes = DOMAIN s.routes \cap DOMAIN o.routes
  BY <1>3, <1>4 DEF Negotiate, Classes
<1>6. /\ n.capabilities = s.capabilities \cap OfferedCapabilities(o)
      /\ n.classes = Classes(s.routes, n.routes)
      /\ n.limits = MinimumLimits(s.limits, o.limits)
  BY <1>3 DEF Negotiate
<1>7. \A r \in RouteIds : ClassOf(r) \in TrafficClasses
  BY DEF RouteIds, ClassOf, TrafficClasses
<1>8. /\ n.classes # {} /\ n.classes \subseteq TrafficClasses
      /\ n.classes \subseteq Classes(o.routes, DOMAIN o.routes)
      /\ \A r \in n.routes : o.routes[r].class \in n.classes
  BY <1>4, <1>5, <1>6, <1>7 DEF Classes
<1>9. n.routes # {} /\ n.routes \subseteq RouteIds /\ n.routes \subseteq DOMAIN o.routes
  BY <1>4, <1>5
<1>10. "drain" \in n.capabilities /\ n.capabilities \subseteq Capabilities
  BY <1>6 DEF OfferedCapabilities, Capabilities
<1>11. ValidLimits(n.limits) /\ LimitsDoNotExceed(n.limits, o.limits)
  BY <1>1, <1>6, MinimumIsValid
<1>12. Connects(s, offer)
  BY <1>2, <1>9 DEF Connects
<1>13. ValidateGatewayInFrame(f)
  BY <1>8, <1>9, <1>10, <1>11, InHelloIsValid
<1>14. /\ f.type = "Hello" /\ f.body.capabilities = n.capabilities
       /\ f.body.classes = n.classes /\ f.body.routes = n.routes /\ f.body.limits = n.limits
  BY DEF HelloOf, Hello
<1>15. AcceptHello(o, f)
  BY <1>6, <1>8, <1>9, <1>10, <1>11, <1>13, <1>14 DEF AcceptHello
<1> QED
  BY <1>12, <1>15 DEF Agree

=============================================================================
