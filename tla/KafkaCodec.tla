----------------------------- MODULE KafkaCodec -----------------------------
(***************************************************************************)
(* One message of the Kafka protocol on its way: its version is chosen,    *)
(* cut down to what the broker speaks, the message is encoded in two       *)
(* passes, and decoded at the other end.  Every request and response type  *)
(* of the client takes the role of the message, in every version, for      *)
(* several shapes (lengths of its arrays and strings, errors set or not).  *)
(***************************************************************************)
EXTENDS KafkaGroupMsgs, KafkaAdminMsgs, KafkaVersions, TLC

CONSTANTS ArrayLens,  \* the lengths of arrays, at each of two depths
          LongArray,  \* the length of one long array, at the first or second depth
          StrLens     \* the lengths of strings and byte arrays

VARIABLES m,          \* the message type
          shape,      \* what the message holds
          version,    \* m_version
          conf,       \* conf->Version, when the version was chosen from it
          release,    \* the release of the broker whose ApiVersions are known
          pc,
          sent,       \* the buffer: tokens, bytes reserved by PREP, values put
          reader,     \* the decoder
          m_flexible  \* its flexible_type counter

vars == <<m, shape, version, conf, release, pc, sent, reader, m_flexible>>

Msgs == GroupMsgs @@ DataMsgs @@ AdminMsgs
Meta_(x) == Msgs[x].meta
Versions(x) == Meta_(x).lo..Meta_(x).hi
Flexible(x, v) == v >= Meta_(x).flex

\* Only two decoders tell whether an error is set.
Sizes == (ArrayLens \X ArrayLens) \cup {<<LongArray, 0>>, <<1, LongArray, 0>>}
Shapes(x) == [sizes : Sizes, str : StrLens,
              err : IF x \in {"ApiVersionsResponse", "CreateTopicsResponse"} THEN BOOLEAN ELSE {FALSE}]
OneShape == [sizes |-> <<0, 0>>, str |-> 0, err |-> FALSE]

Nothing_ == [wire |-> <<>>, prep |-> 0, put |-> <<>>]

Init == /\ m \in DOMAIN Msgs
        /\ shape \in Shapes(m)
        /\ version = 0 /\ conf = 0 /\ release = 0
        /\ pc = "new" /\ sent = Nothing_ /\ reader = Reader(<<>>) /\ m_flexible = 0

----------------------------------------------------------------------------
(* Making a request: with a version of the caller, or for a release.       *)

New(v) == /\ pc = "new" /\ v \in Versions(m)
          /\ version' = v /\ pc' = "made"
          /\ UNCHANGED <<m, shape, conf, release, sent, reader, m_flexible>>

NewFor(c) == /\ pc = "new" /\ m \in DOMAIN Chosen /\ shape = OneShape
             /\ conf' = c /\ version' = Chosen[m][c] /\ pc' = "chosen"
             /\ UNCHANGED <<m, shape, release, sent, reader, m_flexible>>

\* The versions a broker of a release announces (external).
MaxVersion(x, r) ==
    LET known == {v \in Versions(x) : \A w \in 0..v : IsAtLeast(r, Meta_(x).required[w + 1])}
    IN  IF known = {} THEN -1 ELSE CHOOSE v \in known : \A w \in known : w <= v

\* RestrictApiVersion, for a broker whose ApiVersions hold the request's key.
Restricted(clientMax, lo, hi) ==
    LET min(a, b) == IF a < b THEN a ELSE b
        max(a, b) == IF a > b THEN a ELSE b
    IN  min(clientMax, max(lo, min(clientMax, hi)))

RestrictApiVersion(r) ==
    /\ pc = "chosen" /\ MaxVersion(m, r) >= 0
    /\ release' = r /\ version' = Restricted(version, 0, MaxVersion(m, r))
    /\ pc' = "restricted"
    /\ UNCHANGED <<m, shape, conf, sent, reader, m_flexible>>

----------------------------------------------------------------------------
(* Encoding and decoding.                                                  *)

Context(v) == [flex |-> Flexible(m, v), sizes |-> shape.sizes, str |-> shape.str,
               err |-> shape.err, depth |-> 0]

\* A broker that does not know the version of an ApiVersionsRequest answers
\* in version 0, with an error (external).
WireVersion == IF m = "ApiVersionsResponse" /\ shape.err THEN 0 ELSE version

\* Request::encode writes the header it declares; a broker writes the header
\* the protocol gives a response of that version (external).
ClientId == <<Tok("i16", 1), Tok("raw", 1)>>
HeaderTags(n) == IF n THEN <<Tok("uv", 0)>> ELSE <<>>
RequestHeader(h) == (IF h >= 1 THEN ClientId ELSE <<>>) \o HeaderTags(h >= 2)
HeaderOut ==
    CASE Msgs[m].kind = "request"  -> RequestHeader(Meta_(m).header[version])
      [] Msgs[m].kind = "response" -> HeaderTags(Flexible(m, version) /\ m # "ApiVersionsResponse")
      [] Msgs[m].kind = "payload"  -> <<>>

\* encode(): the PREP pass finds the length, the REAL pass writes; what PREP
\* counted too much stays in the buffer as zeros.
Encode ==
    /\ pc = "made"
    /\ LET body == PutAll(Msgs[m].encode[WireVersion], Context(WireVersion))
           spare == body.prep - Size(body.wire)
       IN  /\ sent' = [wire |-> HeaderOut \o body.wire \o RawBytes(NonNeg(spare)),
                       prep |-> body.prep + Size(HeaderOut), put |-> body.put]
           /\ pc' = IF body.ok THEN "encoded" ELSE "refused"
    /\ UNCHANGED <<m, shape, version, conf, release, reader, m_flexible>>

\* The other end's header: a broker reads the one the protocol prescribes
\* (external), ResponseReceiver drops the tags the response type declares.
HeaderIn(r) ==
    CASE Msgs[m].kind = "request" ->
           LET id == getString(r, [flex |-> FALSE], "client_id")
           IN  [getEmptyTaggedFieldArray(id, [flex |-> Flexible(m, version)]) EXCEPT !.got = <<>>]
      [] Msgs[m].kind = "response" ->
           getEmptyTaggedFieldArray(r, [flex |-> Meta_(m).header[version] >= 1])
      [] Msgs[m].kind = "payload" -> r

\* decode_version() and prepare_flexible_decoder: an answer with
\* ErrUnsupportedVersion is read as version 0 by ApiVersionsResponse::decode,
\* whose downgrade_flexible_decoder pops what the caller's finally() pops
\* again.  m_flexible is an uint16_t.
Decode ==
    /\ pc = "encoded"
    /\ LET r == HeaderIn(Reader(sent.wire))
           v == WireVersion
       IN  reader' = EndOfCall(GetAll(r, Msgs[m].decode[v], Context(v)))
    /\ m_flexible' = IF WireVersion # version /\ Flexible(m, version) THEN (0 - 1) % 65536 ELSE 0
    /\ pc' = "decoded"
    /\ UNCHANGED <<m, shape, version, conf, release, sent>>

Next == \/ \E v \in 0..15 : New(v)
        \/ \E c \in Releases : NewFor(c)
        \/ \E r \in Releases : RestrictApiVersion(r)
        \/ Encode
        \/ Decode

Spec == Init /\ [][Next]_vars

----------------------------------------------------------------------------
\* The type invariant.
TypeOK == /\ m \in DOMAIN Msgs /\ shape \in Shapes(m)
          /\ version \in 0..15
          /\ pc \in {"new", "made", "chosen", "restricted", "encoded", "refused", "decoded"}
          /\ pc \in {"made", "restricted", "encoded", "decoded"} => version \in Versions(m)
          /\ m_flexible \in 0..65535

\* An array's length on the wire, in fixed mode, has a byte of 0x80 or more, which
\* getArrayLength reads as a signed char. (The other values of four bytes are 0 or the
\* length of bytes, below 0x80.)
SignExtended ==
    \E i \in DOMAIN sent.wire :
        sent.wire[i].k = "i32" /\ OrOfChars(sent.wire[i].n) # sent.wire[i].n

\* Where encode() and decode() disagree today; each line is a defect.
Lossy ==
    \/ SignExtended                            \* 128 elements are read as -128
    \/ m \in {"DescribeGroupsRequest", "DeleteGroupsRequest", "DeleteTopicsRequest"}
       /\ Flexible(m, version)                 \* PREP and REAL differ
    \/ m \in {"ElectLeadersRequest", "ElectLeadersResponse"} /\ version < 2
                                               \* flexible header, fixed body
    \/ m = "DescribeAclsResponse" /\ version = 1              \* the same
    \/ m = "DescribeClientQuotasRequest" /\ shape.sizes[1] > 0
    \/ m = "DescribeGroupsResponse" /\ shape.sizes[1] > 0 /\ shape.sizes[2] > 0
                                               \* success taken for an error
    \/ m = "CreateTopicsResponse" /\ shape.err /\ version >= 5
                                               \* the tagged field is read twice
    \/ m = "FetchRequest" /\ version >= 7 /\ (shape.sizes[1] = 0 \/ shape.sizes[2] > 0)
                                               \* returns early, or out of bounds
    \/ m = "JoinGroupRequest" /\ version = 6 /\ shape.sizes[1] = 0
    \/ m = "OffsetCommitRequest" /\ shape.sizes[2] = 0        \* returns early
    \/ m = "OffsetFetchRequest" /\ version < 6 /\ shape.sizes[1] = 0
                                               \* "all partitions" is refused
    \/ m = "SaslAuthenticateResponse"          \* the message is dropped
    \/ m = "TxnOffsetCommitResponse" /\ shape.sizes[2] > 0    \* the errors are lost

\* What is decoded is what was encoded, to the last byte: the two halves of a
\* message agree on items, versions and tagged fields, and the header written
\* is the one the other end reads.
RoundTrip == pc = "decoded" /\ ~Lossy =>
    reader.st = "ok" /\ reader.wire = <<>> /\ reader.got = sent.put

\* The releases for which a request is made in a version of a later release:
\* CreateTopicsRequest compares with operator>=, MetadataRequest and
\* LeaveGroupRequest use another table than required_version().
VersionTooNew == \/ m = "CreateTopicsRequest" /\ conf < V2_4
                 \/ m = "MetadataRequest" /\ conf < V0_11
                 \/ m = "LeaveGroupRequest" /\ conf = V2_3

\* The version chosen for a release is one that release knows, by the table
\* of required_version(), when it knows the request at all.
ChosenIsSupported == pc = "chosen" /\ ~VersionTooNew /\ MaxVersion(m, conf) >= 0 =>
    IsAtLeast(conf, Meta_(m).required[version + 1])

\* With the broker's ApiVersions, whatever release was configured, the version
\* sent is one the broker announced.
RestrictedIsUnderstood == pc = "restricted" => version <= MaxVersion(m, release)

\* Versions as a whole, the types included: the version of a request suits the
\* release configured, and the broker once its ApiVersions are known.
VersionsAgree ==
  /\ TypeOK
  /\ ChosenIsSupported
  /\ RestrictedIsUnderstood

\* The asserts of the encoder and the decoder: putRawBytes never writes past
\* the bytes PREP reserved, and every pop of m_flexible has its push.
AssertsHold == /\ pc = "encoded" => Size(sent.wire) <= sent.prep
               /\ m_flexible # 65535
=============================================================================
