---------------------------- MODULE KafkaDataMsgs ----------------------------
(***************************************************************************)
(* The messages of producers, consumers and transactions, and the ones     *)
(* every connection exchanges: ApiVersions, SASL and Metadata.             *)
(***************************************************************************)
EXTENDS KafkaWire

----------------------------------------------------------------------------
ApiVersionsRequest_encode(v) ==
    <<Opt(v >= 3, All(<<Str("client_software_name"), Str("client_software_version"), Tags>>))>>
ApiVersionsRequest_decode(v) ==
    <<Opt(v >= 3, All(<<Str("client_software_name"), Str("client_software_version")>>)), Tags>>
ApiVersionsRequest_meta == Meta(0, 3, 3, From(3, 1), <<V0_10_0, V0_11, V2_0, V2_4>>)

ApiVersionsResponseKey_encode(v) ==
    <<I16("api_key"), I16("min_version"), I16("max_version"), Opt(v >= 3, Tags)>>
ApiVersionsResponseKey_decode(v) ==
    <<I16("api_key"), I16("min_version"), I16("max_version"), Opt(v >= 3, Tags)>>
ApiVersionsResponse_encode(v) ==
    <<I16("code"), Arr("api_keys", ApiVersionsResponseKey_encode(v)),
      Opt(v >= 1, Dur("throttle_time")), Opt(v >= 3, Tags)>>
\* For an answer that is not ErrUnsupportedVersion; KafkaCodec models that one.
ApiVersionsResponse_decode(v) ==
    <<I16("code"), Arr("api_keys", ApiVersionsResponseKey_decode(v)),
      Opt(v >= 1, Dur("throttle_time")), Opt(v >= 3, Tags)>>
ApiVersionsResponse_meta == Meta(0, 3, 3, Always(0), <<V0_10_0, V0_11, V2_0, V2_4>>)

SaslHandshakeRequest_encode(v) == <<Str("mechanism")>>
SaslHandshakeRequest_decode(v) == <<Str("mechanism")>>
SaslHandshakeRequest_meta == Meta(0, 1, Never, Always(1), <<V0_10_0, V1_0>>)
SaslHandshakeResponse_encode(v) == <<KErr("err"), Strs("enabled_mechanisms")>>
SaslHandshakeResponse_decode(v) == <<KErr("err"), Strs("enabled_mechanisms")>>
SaslHandshakeResponse_meta == Meta(0, 1, Never, Always(0), <<V0_10_0, V1_0>>)

SaslAuthenticateRequest_encode(v) == <<Bytes("sasl_auth_bytes")>>
SaslAuthenticateRequest_decode(v) == <<Bytes("sasl_auth_bytes")>>
SaslAuthenticateRequest_meta == Meta(0, 1, Never, Always(1), <<V1_0, V2_2>>)
SaslAuthenticateResponse_encode(v) ==
    <<KErr("err"), NStr("message"), Bytes("sasl_auth_bytes"),
      Opt(v > 0, I64("session_lifetime_ms"))>>
\* The error message is read into a local string and dropped.
SaslAuthenticateResponse_decode(v) ==
    <<KErr("err"), Lost(<<NStr("message")>>), Bytes("sasl_auth_bytes"),
      Opt(v > 0, I64("session_lifetime_ms"))>>
SaslAuthenticateResponse_meta == Meta(0, 1, Never, Always(0), <<V1_0, V2_2>>)

----------------------------------------------------------------------------
\* No topics stand for all of them, from version 1 on.
MetadataRequest_encode(v) ==
    LET topic == IF v <= 9 THEN <<Str("topic"), Tags>> ELSE <<Uuid("uuid"), NStr("topic"), Tags>>
    IN  <<IF v = 0 THEN Arr("topics", topic) ELSE NArr("topics", topic),
          Opt(v > 3, Bool("allow_auto_topic_creation")),
          Opt(v > 7, All(<<Bool("include_cluster_authorized_operations"),
                           Bool("include_topic_authorized_operations")>>)), Tags>>
MetadataRequest_decode(v) ==
    <<Arr("topics", IF v <= 9 THEN <<Str("topic"), Tags>>
                    ELSE <<Uuid("uuid"), NStr("topic"), Tags>>),
      Opt(v >= 4, Bool("allow_auto_topic_creation")),
      Opt(v > 7, All(<<Bool("include_cluster_authorized_operations"),
                       Bool("include_topic_authorized_operations")>>)), Tags>>
MetadataRequest_meta == Meta(0, 10, 9, From(9, 1),
    <<V0_8_2, V0_10_0, V0_10_1, V0_11, V0_11, V1_0, V2_0, V2_1, V2_3, V2_4, V2_8>>)

\* Broker::encode and Broker::decode: a broker's address is host:port, and a
\* broker without a host cannot be encoded.
Broker_encode(v) ==
    <<I32("id"), Name("host"), I32("port"), Opt(v >= 1, NStr("rack")), Tags>>
Broker_decode(v) ==
    <<I32("id"), Name("host"), I32("port"), Opt(v >= 1, NStr("rack")), Opt(v >= 5, Tags)>>

PartitionMetadata_encode(v) ==
    <<KErr("err"), I32("id"), I32("leader"), Opt(v >= 7, I32("leader_epoch")),
      I32s("replicas"), I32s("isr"), Opt(v >= 5, I32s("offline_replicas")), Tags>>
PartitionMetadata_decode(v) ==
    <<KErr("err"), I32("id"), I32("leader"), Opt(v >= 7, I32("leader_epoch")),
      I32s("replicas"), I32s("isr"), Opt(v >= 5, I32s("offline_replicas")), Tags>>
TopicMetadata_encode(v) ==
    <<KErr("err"), Str("name"), Opt(v >= 10, Uuid("uuid")), Opt(v >= 1, Bool("is_internal")),
      Arr("partitions", PartitionMetadata_encode(v)),
      Opt(v >= 8, I32("topic_authorized_operations")), Tags>>
TopicMetadata_decode(v) ==
    <<KErr("err"), Str("name"), Opt(v >= 10, Uuid("uuid")), Opt(v >= 1, Bool("is_internal")),
      Arr("partitions", PartitionMetadata_decode(v)),
      Opt(v >= 8, I32("topic_authorized_operations")), Tags>>
MetadataResponse_encode(v) ==
    <<Opt(v >= 3, Dur("throttle_time")), Arr("brokers", Broker_encode(v)),
      Opt(v >= 2, NStr("cluster_id")), Opt(v >= 1, I32("controller_id")),
      Arr("topics", TopicMetadata_encode(v)),
      Opt(v >= 8, I32("cluster_authorized_operations")), Tags>>
MetadataResponse_decode(v) ==
    <<Opt(v >= 3, Dur("throttle_time")), Arr("brokers", Broker_decode(v)),
      Opt(v >= 2, NStr("cluster_id")), Opt(v >= 1, I32("controller_id")),
      Arr("topics", TopicMetadata_decode(v)),
      Opt(v >= 8, I32("cluster_authorized_operations")), Tags>>
MetadataResponse_meta == Meta(0, 10, 9, From(9, 0),
    <<V0_8_2, V0_10_0, V0_10_1, V0_11, V0_11, V1_0, V2_0, V2_1, V2_3, V2_4, V2_8>>)

----------------------------------------------------------------------------
(* The records of a partition are bytes here, never empty; the layout of   *)
(* records is KafkaRecord's.                                               *)

ProduceRequest_encode(v) ==
    <<Opt(v >= 3, NStr("transactional_id")), I16("acks"), Dur("timeout"),
      Arr("records", <<Str("topic"), Arr("partitions", <<I32("partition"), Blob("records")>>)>>)>>
ProduceRequest_decode(v) ==
    <<Opt(v >= 3, NStr("transactional_id")), I16("acks"), Dur("timeout"),
      ArrOrReturn("records", <<Str("topic"), Arr("partitions", <<I32("partition"), Blob("records")>>)>>)>>
ProduceRequest_meta == Meta(0, 9, 8, From(8, 1),
    <<V0_8_2, V0_9, V0_10_0, V0_11, V1_0, V1_0, V2_0, V2_1, V2_8, V3_0>>)

ProduceResponseBlock_encode(v) ==
    <<KErr("err"), I64("offset"), Opt(v >= 2, I64("timestamp")), Opt(v >= 5, I64("start_offset"))>>
ProduceResponseBlock_decode(v) ==
    <<KErr("err"), I64("offset"), Opt(v >= 2, I64("timestamp")), Opt(v >= 5, I64("start_offset"))>>
ProduceResponse_encode(v) ==
    <<Arr("blocks", <<Str("topic"),
          Arr("partitions", <<I32("partition"), Call(ProduceResponseBlock_encode(v))>>)>>),
      Opt(v >= 1, Dur("throttle_time"))>>
ProduceResponse_decode(v) ==
    <<Arr("blocks", <<Str("topic"),
          Arr("partitions", <<I32("partition"), Call(ProduceResponseBlock_decode(v))>>)>>),
      Opt(v >= 1, Dur("throttle_time"))>>
ProduceResponse_meta == Meta(0, 9, 8, From(8, 0),
    <<V0_8_2, V0_9, V0_10_0, V0_11, V1_0, V1_0, V2_0, V2_1, V2_8, V3_0>>)

----------------------------------------------------------------------------
FetchRequestBlock_encode(v) ==
    <<Opt(v >= 9, I32("current_leader_epoch")), I64("fetch_offset"),
      Opt(v >= 1, I64("log_start_offset")), I32("max_bytes")>>
FetchRequestBlock_decode(v) ==
    <<Opt(v >= 9, I32("current_leader_epoch")), I64("fetch_offset"),
      Opt(v >= 1, I64("log_start_offset")), I32("max_bytes")>>
FetchRequest_encode(v) ==
    <<I32("replica_id"), I32("max_wait_time"), I32("min_bytes"), Opt(v >= 3, I32("max_bytes")),
      Opt(v >= 4, I8("isolation")),
      Opt(v >= 7, All(<<I32("session_id"), I32("session_epoch")>>)),
      Arr("blocks", <<Str("topic"),
          Arr("partitions", <<I32("partition"), Call(FetchRequestBlock_encode(v))>>)>>),
      Opt(v >= 7, Arr("forgotten", <<Str("topic"), Arr("partitions", <<I32("partition")>>)>>)),
      Opt(v >= 11, Str("rack_id"))>>
\* No topics: decode() returns before the forgotten topics and the rack.  A
\* forgotten partition is written through an empty vector: undefined.
FetchRequest_decode(v) ==
    <<I32("replica_id"), I32("max_wait_time"), I32("min_bytes"), Opt(v >= 3, I32("max_bytes")),
      Opt(v >= 4, I8("isolation")),
      Opt(v >= 7, All(<<I32("session_id"), I32("session_epoch")>>)),
      ArrOrReturn("blocks", <<Str("topic"),
          Arr("partitions", <<I32("partition"), Call(FetchRequestBlock_decode(v))>>)>>),
      Opt(v >= 7, Arr("forgotten", <<Str("topic"), Arr("partitions", <<Fail>>)>>)),
      Opt(v >= 11, Str("rack_id"))>>
FetchRequest_meta == Meta(0, 11, Never, Always(1),
    <<V0_8_2, V0_9, V0_10_0, V0_10_1, V0_11, V0_11, V1_0, V1_1, V2_0, V2_1, V2_1, V2_3>>)

AbortedTransaction_encode == <<I64("producer_id"), I64("first_offset")>>
AbortedTransaction_decode == <<I64("producer_id"), I64("first_offset")>>
FetchResponseBlock_encode(v) ==
    <<KErr("err"), I64("high_water_mark_offset"),
      Opt(v >= 4, All(<<I64("last_stable_offset"), Opt(v >= 5, I64("log_start_offset")),
                        Arr("aborted_transactions", AbortedTransaction_encode)>>)),
      Opt(v >= 11, I32("preferred_read_replica")), Blob("records")>>
FetchResponseBlock_decode(v) ==
    <<KErr("err"), I64("high_water_mark_offset"),
      Opt(v >= 4, All(<<I64("last_stable_offset"), Opt(v >= 5, I64("log_start_offset")),
                        Arr("aborted_transactions", AbortedTransaction_decode)>>)),
      Opt(v >= 11, I32("preferred_read_replica")), Blob("records")>>
FetchResponse_encode(v) ==
    <<Opt(v >= 1, Dur("throttle_time")), Opt(v >= 7, All(<<I16("code"), I32("session_id")>>)),
      Arr("blocks", <<Str("topic"),
          Arr("partitions", <<I32("partition"), Call(FetchResponseBlock_encode(v))>>)>>)>>
FetchResponse_decode(v) ==
    <<Opt(v >= 1, Dur("throttle_time")), Opt(v >= 7, All(<<I16("code"), I32("session_id")>>)),
      Arr("blocks", <<Str("topic"),
          Arr("partitions", <<I32("partition"), Call(FetchResponseBlock_decode(v))>>)>>)>>
FetchResponse_meta == Meta(0, 15, Never, Always(0),
    <<V0_8_2, V0_9, V0_10_0, V0_10_1, V0_11, V0_11, V1_0, V1_1, V2_0, V2_1, V2_1, V2_3, V2_3, V2_3, V2_3, V2_3>>)

----------------------------------------------------------------------------
OffsetRequestBlock_encode(v) ==
    <<Opt(v >= 4, I32("leader_epoch")), I64("timestamp"), Opt(v = 0, I32("max_num_offsets"))>>
OffsetRequestBlock_decode(v) ==
    <<Opt(v >= 4, I32("leader_epoch")), I64("timestamp"), Opt(v = 0, I32("max_num_offsets"))>>
OffsetRequest_encode(v) ==
    <<I32("replica_id"), Opt(v >= 2, Bool("level")),
      Arr("blocks", <<Str("topic"),
          Arr("partitions", <<I32("partition"), Call(OffsetRequestBlock_encode(v))>>)>>)>>
OffsetRequest_decode(v) ==
    <<I32("replica_id"), Opt(v >= 2, Bool("level")),
      ArrOrReturn("blocks", <<Str("topic"),
          Arr("partitions", <<I32("partition"), Call(OffsetRequestBlock_decode(v))>>)>>)>>
OffsetRequest_meta == Meta(0, 5, Never, Always(1), <<V0_8_2, V0_10_1, V0_11, V2_0, V2_1, V2_2>>)

OffsetResponseBlock_encode(v) ==
    <<KErr("err"), Opt(v = 0, I64s("offsets")),
      Opt(v >= 1, All(<<I64("timestamp"), I64("offset")>>)), Opt(v >= 4, I32("leader_epoch"))>>
OffsetResponseBlock_decode(v) ==
    <<KErr("err"), Opt(v = 0, I64s("offsets")),
      Opt(v >= 1, All(<<I64("timestamp"), I64("offset")>>)), Opt(v >= 4, I32("leader_epoch"))>>
OffsetResponse_encode(v) ==
    <<Opt(v >= 2, Dur("throttle_time")),
      Arr("blocks", <<Str("topic"),
          Arr("partitions", <<I32("partition"), Call(OffsetResponseBlock_encode(v))>>)>>)>>
OffsetResponse_decode(v) ==
    <<Opt(v >= 2, Dur("throttle_time")),
      Arr("blocks", <<Str("topic"),
          Arr("partitions", <<I32("partition"), Call(OffsetResponseBlock_decode(v))>>)>>)>>
OffsetResponse_meta == Meta(0, 5, Never, Always(0), <<V0_8_2, V0_10_1, V0_11, V2_0, V2_1, V2_2>>)

----------------------------------------------------------------------------
InitProducerIDRequest_encode(v) ==
    <<NStr("transactional_id"), I32("transaction_timeout"),
      Opt(v >= 3, All(<<I64("producer_id"), I16("producer_epoch")>>)), Tags>>
InitProducerIDRequest_decode(v) ==
    <<NStr("transactional_id"), I32("transaction_timeout"),
      Opt(v >= 3, All(<<I64("producer_id"), I16("producer_epoch")>>)), Tags>>
InitProducerIDRequest_meta == Meta(0, 4, 2, From(2, 1), <<V0_11, V2_0, V2_4, V2_5, V2_7>>)
InitProducerIDResponse_encode(v) ==
    <<Dur("throttle_time"), KErr("err"), I64("producer_id"), I16("producer_epoch"), Tags>>
InitProducerIDResponse_decode(v) ==
    <<Dur("throttle_time"), KErr("err"), I64("producer_id"), I16("producer_epoch"), Tags>>
InitProducerIDResponse_meta == Meta(0, 4, 2, From(2, 0), <<V0_11, V2_0, V2_4, V2_5, V2_7>>)

AddPartitionsToTxnRequest_encode(v) ==
    <<Str("transactional_id"), I64("producer_id"), I16("producer_epoch"),
      Arr("topic_partitions", <<Str("topic"), I32s("partitions")>>)>>
AddPartitionsToTxnRequest_decode(v) ==
    <<Str("transactional_id"), I64("producer_id"), I16("producer_epoch"),
      Arr("topic_partitions", <<Str("topic"), I32s("partitions")>>)>>
AddPartitionsToTxnRequest_meta == Meta(0, 2, Never, Always(1), <<V0_11, V2_0, V2_7>>)
PartitionError_encode == <<I32("partition"), KErr("err")>>
PartitionError_decode == <<I32("partition"), KErr("err")>>
AddPartitionsToTxnResponse_encode(v) ==
    <<Dur("throttle_time"), Arr("errors", <<Str("topic"), Arr("partitions", PartitionError_encode)>>)>>
AddPartitionsToTxnResponse_decode(v) ==
    <<Dur("throttle_time"), Arr("errors", <<Str("topic"), Arr("partitions", PartitionError_decode)>>)>>
AddPartitionsToTxnResponse_meta == Meta(0, 2, Never, Always(0), <<V0_11, V2_0, V2_7>>)

AddOffsetsToTxnRequest_encode(v) ==
    <<Str("transactional_id"), I64("producer_id"), I16("producer_epoch"), Str("group_id")>>
AddOffsetsToTxnRequest_decode(v) ==
    <<Str("transactional_id"), I64("producer_id"), I16("producer_epoch"), Str("group_id")>>
AddOffsetsToTxnRequest_meta == Meta(0, 2, Never, Always(1), <<V0_11, V2_0, V2_7>>)
AddOffsetsToTxnResponse_encode(v) == <<Dur("throttle_time"), KErr("err")>>
AddOffsetsToTxnResponse_decode(v) == <<Dur("throttle_time"), KErr("err")>>
AddOffsetsToTxnResponse_meta == Meta(0, 2, Never, Always(0), <<V0_11, V2_0, V2_7>>)

PartitionOffsetMetadata_encode ==
    <<I32("partition"), I64("offset"), Str("metadata"), I32("leader_epoch")>>
PartitionOffsetMetadata_decode ==
    <<I32("partition"), I64("offset"), Str("metadata"), I32("leader_epoch")>>
TxnOffsetCommitRequest_encode(v) ==
    <<Str("transactional_id"), Str("group_id"), I64("producer_id"), I16("producer_epoch"),
      Arr("topics", <<Str("topic"), Arr("partitions", PartitionOffsetMetadata_encode)>>)>>
TxnOffsetCommitRequest_decode(v) ==
    <<Str("transactional_id"), Str("group_id"), I64("producer_id"), I16("producer_epoch"),
      Arr("topics", <<Str("topic"), Arr("partitions", PartitionOffsetMetadata_decode)>>)>>
TxnOffsetCommitRequest_meta == Meta(0, 2, Never, Always(1), <<V0_11, V2_0, V2_1>>)
TxnOffsetCommitResponse_encode(v) ==
    <<Dur("throttle_time"), Arr("topics", <<Str("topic"), Arr("errors", PartitionError_encode)>>)>>
\* The errors are decoded into the reserved space of a vector that stays empty.
TxnOffsetCommitResponse_decode(v) ==
    <<Dur("throttle_time"),
      Arr("topics", <<Str("topic"), Arr("errors", <<Lost(PartitionError_decode)>>)>>)>>
TxnOffsetCommitResponse_meta == Meta(0, 2, Never, Always(0), <<V0_11, V2_0, V2_1>>)

EndTxnRequest_encode(v) ==
    <<Str("transactional_id"), I64("producer_id"), I16("producer_epoch"), Bool("transaction_result")>>
EndTxnRequest_decode(v) ==
    <<Str("transactional_id"), I64("producer_id"), I16("producer_epoch"), Bool("transaction_result")>>
EndTxnRequest_meta == Meta(0, 2, Never, Always(1), <<V0_11, V2_0, V2_7>>)
EndTxnResponse_encode(v) == <<Dur("throttle_time"), KErr("err")>>
EndTxnResponse_decode(v) == <<Dur("throttle_time"), KErr("err")>>
EndTxnResponse_meta == Meta(0, 2, Never, Always(0), <<V0_11, V2_0, V2_7>>)

----------------------------------------------------------------------------
DataMsgs ==
    [ ApiVersionsRequest |-> Request(ApiVersionsRequest_encode, ApiVersionsRequest_decode, ApiVersionsRequest_meta),
      ApiVersionsResponse |-> Response(ApiVersionsResponse_encode, ApiVersionsResponse_decode, ApiVersionsResponse_meta),
      SaslHandshakeRequest |-> Request(SaslHandshakeRequest_encode, SaslHandshakeRequest_decode, SaslHandshakeRequest_meta),
      SaslHandshakeResponse |-> Response(SaslHandshakeResponse_encode, SaslHandshakeResponse_decode, SaslHandshakeResponse_meta),
      SaslAuthenticateRequest |-> Request(SaslAuthenticateRequest_encode, SaslAuthenticateRequest_decode, SaslAuthenticateRequest_meta),
      SaslAuthenticateResponse |-> Response(SaslAuthenticateResponse_encode, SaslAuthenticateResponse_decode, SaslAuthenticateResponse_meta),
      MetadataRequest |-> Request(MetadataRequest_encode, MetadataRequest_decode, MetadataRequest_meta),
      MetadataResponse |-> Response(MetadataResponse_encode, MetadataResponse_decode, MetadataResponse_meta),
      ProduceRequest |-> Request(ProduceRequest_encode, ProduceRequest_decode, ProduceRequest_meta),
      ProduceResponse |-> Response(ProduceResponse_encode, ProduceResponse_decode, ProduceResponse_meta),
      FetchRequest |-> Request(FetchRequest_encode, FetchRequest_decode, FetchRequest_meta),
      FetchResponse |-> Response(FetchResponse_encode, FetchResponse_decode, FetchResponse_meta),
      OffsetRequest |-> Request(OffsetRequest_encode, OffsetRequest_decode, OffsetRequest_meta),
      OffsetResponse |-> Response(OffsetResponse_encode, OffsetResponse_decode, OffsetResponse_meta),
      InitProducerIDRequest |-> Request(InitProducerIDRequest_encode, InitProducerIDRequest_decode, InitProducerIDRequest_meta),
      InitProducerIDResponse |-> Response(InitProducerIDResponse_encode, InitProducerIDResponse_decode, InitProducerIDResponse_meta),
      AddPartitionsToTxnRequest |-> Request(AddPartitionsToTxnRequest_encode, AddPartitionsToTxnRequest_decode, AddPartitionsToTxnRequest_meta),
      AddPartitionsToTxnResponse |-> Response(AddPartitionsToTxnResponse_encode, AddPartitionsToTxnResponse_decode, AddPartitionsToTxnResponse_meta),
      AddOffsetsToTxnRequest |-> Request(AddOffsetsToTxnRequest_encode, AddOffsetsToTxnRequest_decode, AddOffsetsToTxnRequest_meta),
      AddOffsetsToTxnResponse |-> Response(AddOffsetsToTxnResponse_encode, AddOffsetsToTxnResponse_decode, AddOffsetsToTxnResponse_meta),
      TxnOffsetCommitRequest |-> Request(TxnOffsetCommitRequest_encode, TxnOffsetCommitRequest_decode, TxnOffsetCommitRequest_meta),
      TxnOffsetCommitResponse |-> Response(TxnOffsetCommitResponse_encode, TxnOffsetCommitResponse_decode, TxnOffsetCommitResponse_meta),
      EndTxnRequest |-> Request(EndTxnRequest_encode, EndTxnRequest_decode, EndTxnRequest_meta),
      EndTxnResponse |-> Response(EndTxnResponse_encode, EndTxnResponse_decode, EndTxnResponse_meta) ]
=============================================================================
