------------------------------- MODULE Frames -------------------------------
(***************************************************************************)
(* The frames of tunnel protocol v1 and the checks of api/tunnel/v1 that    *)
(* both gateways apply to every frame before they act on it.               *)
(*                                                                         *)
(* A frame is what the checks tell apart: the field numbers on the wire,   *)
(* the header, and a body whose shape depends on the type. An identifier   *)
(* is Opaque (16 bytes) or Nothing; a metadata entry is its key, the size  *)
(* of its value and whether the value has the form the key asks for. The   *)
(* routes one configuration switch enables together are one route here.    *)
(***************************************************************************)
EXTENDS Integers, Sequences

Nothing == "nothing"
Opaque == "opaque"
Unspecified == "unspecified"

TrafficClasses == {"control_auth", "regular", "realtime"}
Capabilities == {"drain", "realtime", "session_revocation"}
RouteIds == {"e2e", "profile", "addresses", "settings", "avatar", "files", "auth", "chat"}
MetadataKeys == {"traceparent", "tracestate", "session_assertion", "content_type"}
CancelReasons == {"caller", "deadline", "drain", "policy"}
ResultCodes == {"ok", "invalid_argument", "unauthenticated", "permission_denied", "not_found",
                "conflict", "resource_exhausted", "deadline_exceeded", "canceled",
                "unavailable", "internal"}
DrainReasons == {"maintenance", "shutdown", "overload"}

\* routeTrafficClass
ClassOf(route) ==
    CASE route = "auth" -> "control_auth"
      [] route = "chat" -> "realtime"
      [] route \in RouteIds \ {"auth", "chat"} -> "regular"
      [] OTHER -> Unspecified

\* The absolute ceilings of v1.
V1 == [frame |-> 1048576, data |-> 262144, message |-> 8388608, inFlight |-> 4096,
       entries |-> 16, value |-> 16384, credit |-> 1048576]
LimitFields == DOMAIN V1
MaxSupportedVersions == 8
MaxIdempotencyKey == 128
MaxValue == [traceparent |-> 128, tracestate |-> 512, session_assertion |-> 16384,
             content_type |-> 64]
MaxRetryAfter == 300

ProtocolVersion == 1

Least(a, b) == IF a <= b THEN a ELSE b

----------------------------------------------------------------------------
(* Headers. *)

HelloHeader(h) ==
    /\ h.version = 0 /\ h.request = Nothing /\ h.sequence = 0 /\ h.class = Unspecified

RequestHeader(h) ==
    /\ h.version = ProtocolVersion /\ h.tunnel = Opaque /\ h.request = Opaque
    /\ h.sequence > 0 /\ h.class \in TrafficClasses

ControlHeader(h, class) ==
    /\ h.version = ProtocolVersion /\ h.tunnel = Opaque /\ h.request = Nothing
    /\ h.sequence = 0 /\ h.class = class

TunnelHeader(h) == ControlHeader(h, Unspecified)
SessionControlHeader(h) == ControlHeader(h, "control_auth")

----------------------------------------------------------------------------
(* Bodies. *)

\* validateLimits
ValidLimits(l) ==
    /\ \A field \in LimitFields \ {"message"} : l[field] \in 1 .. V1[field]
    /\ l.frame > l.data
    /\ l.message \in l.data .. V1.message

\* A list without repetitions is the set of its members.
Distinct(list) == \A i, j \in DOMAIN list : list[i] = list[j] => i = j

SupportedVersions(versions) ==
    /\ Len(versions) \in 1 .. MaxSupportedVersions
    /\ Distinct(versions)
    /\ \E i \in DOMAIN versions : versions[i] = ProtocolVersion

\* validateCapabilities, validateTrafficClasses, validateRoutes: lists of known
\* members without repetition, here sets; none can then be as long as its limit.
ValidOffer(h) ==
    /\ h.instance = Opaque
    /\ h.capabilities \subseteq Capabilities
    /\ h.classes \subseteq TrafficClasses /\ h.classes # {}
    /\ h.routes \subseteq RouteIds /\ h.routes # {}
    /\ ValidLimits(h.limits)

GatewayOutHello(h) == SupportedVersions(h.versions) /\ ValidOffer(h)
GatewayInHello(h) == h.version = ProtocolVersion /\ ValidOffer(h)

\* validateMetadata and validateMetadataValue: entries is a sequence.
ValidMetadata(entries, allowSessionAssertion) ==
    /\ Len(entries) <= V1.entries
    /\ Distinct([i \in DOMAIN entries |-> entries[i].key])
    /\ \A i \in DOMAIN entries :
        LET e == entries[i]
        IN  /\ e.key \in MetadataKeys
            /\ e.size \in 1 .. Least(V1.value, MaxValue[e.key])
            /\ e.key = "session_assertion" => allowSessionAssertion
            /\ e.key # "session_assertion" => e.formed

ValidOpen(class, b) ==
    /\ b.route \in RouteIds /\ class = ClassOf(b.route)
    /\ b.deadline # Nothing
    /\ b.key <= MaxIdempotencyKey
    /\ ValidMetadata(b.metadata, TRUE)

ValidResult(b) ==
    /\ b.code \in ResultCodes
    /\ b.retryAfter # Nothing => b.code # "ok" /\ b.retryAfter \in 1 .. MaxRetryAfter
    /\ ValidMetadata(b.metadata, FALSE)

\* The bodies that travel both ways.
ValidCommon(f) ==
    CASE f.type = "Data" -> RequestHeader(f.header) /\ f.body \in 1 .. V1.data
      [] f.type = "Credit" -> RequestHeader(f.header) /\ f.body \in 1 .. V1.credit
      [] f.type = "HalfClose" -> RequestHeader(f.header)
      [] f.type = "Cancel" -> RequestHeader(f.header) /\ f.body \in CancelReasons
      [] f.type \in {"Ping", "Pong"} -> TunnelHeader(f.header) /\ f.body > 0
      [] f.type = "Drain" -> /\ TunnelHeader(f.header)
                             /\ f.body.deadline # Nothing /\ f.body.reason \in DrainReasons
      [] OTHER -> FALSE

\* One already decoded frame; unknown says that some message of it holds a field
\* the schema does not name (rejectUnknownFields).
ValidateGatewayOutFrame(f) ==
    /\ ~f.unknown
    /\ CASE f.type = "Hello" -> /\ HelloHeader(f.header) /\ f.header.tunnel = Nothing
                                /\ GatewayOutHello(f.body)
         [] f.type = "Result" -> RequestHeader(f.header) /\ ValidResult(f.body)
         [] f.type = "RevokeSession" -> SessionControlHeader(f.header) /\ f.body = Opaque
         [] OTHER -> ValidCommon(f)

ValidateGatewayInFrame(f) ==
    /\ ~f.unknown
    /\ CASE f.type = "Hello" -> /\ HelloHeader(f.header) /\ f.header.tunnel = Opaque
                                /\ GatewayInHello(f.body)
         [] f.type = "Open" -> RequestHeader(f.header) /\ ValidOpen(f.header.class, f.body)
         [] OTHER -> ValidCommon(f)

----------------------------------------------------------------------------
(* The wire: what the decoder requires before it looks at the fields. *)

PayloadsIn == {"Hello", "Open", "Data", "HalfClose", "Cancel", "Credit", "Ping", "Pong", "Drain"}
PayloadsOut == (PayloadsIn \ {"Open"}) \cup {"Result", "RevokeSession"}

\* validateEncodedFrame: a bounded message of one header and one payload of the
\* direction's field numbers, and nothing else.
Encoded(f, payloads) ==
    /\ f.size \in 1 .. V1.frame
    /\ Len(f.fields) = 2
    /\ \E i \in 1 .. 2 : f.fields[i] = "header" /\ f.fields[3 - i] \in payloads

\* strictCodec.Unmarshal and Marshal: gateway-out reads and writes only what decodes.
DecodeGatewayInFrame(f) == Encoded(f, PayloadsIn) /\ ValidateGatewayInFrame(f)
DecodeGatewayOutFrame(f) == Encoded(f, PayloadsOut) /\ ValidateGatewayOutFrame(f)

\* withinNegotiatedLimits, and the same checks of validateInbound.
WithinNegotiatedLimits(f, limits) ==
    /\ f.size <= limits.frame
    /\ f.type = "Data" => f.body <= limits.data
    /\ f.type = "Credit" => f.body <= limits.credit
    /\ f.type \in {"Open", "Result"} =>
        /\ Len(f.body.metadata) <= limits.entries
        /\ \A i \in DOMAIN f.body.metadata : f.body.metadata[i].size <= limits.value

=============================================================================
