--------------------------- MODULE KafkaAdminMsgs ---------------------------
(***************************************************************************)
(* The messages of the cluster administration: ACLs, quotas, configs,      *)
(* topics, partitions, log directories and SCRAM credentials.              *)
(***************************************************************************)
EXTENDS KafkaWire

----------------------------------------------------------------------------
Resource_encode(v) ==
    <<I8("resource_type"), Str("resource_name"), Opt(v = 1, I8("resource_pattern_type"))>>
Resource_decode(v) ==
    <<I8("resource_type"), Str("resource_name"), Opt(v = 1, I8("resource_pattern_type"))>>
Acl_encode == <<Str("principal"), Str("host"), I8("operation"), I8("permission_type")>>
Acl_decode == <<Str("principal"), Str("host"), I8("operation"), I8("permission_type")>>
ResourceAcls_encode(v) == Resource_encode(v) \o <<Arr("acls", Acl_encode)>>
ResourceAcls_decode(v) == Resource_decode(v) \o <<Arr("acls", Acl_decode)>>
AclFilter_encode(v) ==
    <<I8("resource_type"), NStr("resource_name"), Opt(v = 1, I8("resource_pattern_type_filter")),
      NStr("principal"), NStr("host"), I8("operation"), I8("permission_type")>>
AclFilter_decode(v) ==
    <<I8("resource_type"), NStr("resource_name"), Opt(v = 1, I8("resource_pattern_type_filter")),
      NStr("principal"), NStr("host"), I8("operation"), I8("permission_type")>>

AclCreation_encode(v) == Resource_encode(v) \o Acl_encode
AclCreation_decode(v) == Resource_decode(v) \o Acl_decode
CreateAclsRequest_encode(v) == <<Arr("acl_creations", AclCreation_encode(v))>>
CreateAclsRequest_decode(v) == <<Arr("acl_creations", AclCreation_decode(v))>>
CreateAclsRequest_meta == Meta(0, 1, Never, Always(1), <<V0_11, V2_0>>)
AclCreationResponse_encode == <<KErr("err"), NStr("err_msg")>>
AclCreationResponse_decode == <<KErr("err"), NStr("err_msg")>>
CreateAclsResponse_encode(v) ==
    <<Dur("throttle_time"), Arr("acl_creation_responses", AclCreationResponse_encode)>>
CreateAclsResponse_decode(v) ==
    <<Dur("throttle_time"), Arr("acl_creation_responses", AclCreationResponse_decode)>>
CreateAclsResponse_meta == Meta(0, 1, Never, Always(0), <<V0_11, V2_0>>)

DeleteAclsRequest_encode(v) == <<Arr("filters", AclFilter_encode(v))>>
DeleteAclsRequest_decode(v) == <<Arr("filters", AclFilter_decode(v))>>
DeleteAclsRequest_meta == Meta(0, 1, Never, Always(1), <<V0_11, V2_0>>)
MatchingAcl_encode(v) == <<KErr("err"), NStr("err_msg")>> \o Resource_encode(v) \o Acl_encode
MatchingAcl_decode(v) == <<KErr("err"), NStr("err_msg")>> \o Resource_decode(v) \o Acl_decode
FilterResponse_encode(v) ==
    <<KErr("err"), NStr("err_msg"), Arr("matching_acls", MatchingAcl_encode(v))>>
FilterResponse_decode(v) ==
    <<KErr("err"), NStr("err_msg"), Arr("matching_acls", MatchingAcl_decode(v))>>
DeleteAclsResponse_encode(v) ==
    <<Dur("throttle_time"), Arr("filter_responses", FilterResponse_encode(v))>>
DeleteAclsResponse_decode(v) ==
    <<Dur("throttle_time"), Arr("filter_responses", FilterResponse_decode(v))>>
DeleteAclsResponse_meta == Meta(0, 1, Never, Always(0), <<V0_11, V2_0>>)

DescribeAclsRequest_encode(v) == AclFilter_encode(v)
DescribeAclsRequest_decode(v) == AclFilter_decode(v)
DescribeAclsRequest_meta == Meta(0, 1, Never, Always(1), <<V0_11, V2_0>>)
DescribeAclsResponse_encode(v) ==
    <<Dur("throttle_time"), KErr("err"), NStr("err_msg"),
      Arr("resource_acls", ResourceAcls_encode(v))>>
DescribeAclsResponse_decode(v) ==
    <<Dur("throttle_time"), KErr("err"), NStr("err_msg"),
      Arr("resource_acls", ResourceAcls_decode(v)), Opt(v >= 1, Tags)>>
DescribeAclsResponse_meta == Meta(0, 1, Never, From(1, 0), <<V0_11, V2_0>>)

----------------------------------------------------------------------------
\* A default match is sent as a null name, an exact one as the name.
QuotaEntityComponent_encode == <<Str("entity_type"), NStr("name"), Tags>>
QuotaEntityComponent_decode == <<Str("entity_type"), NStr("name"), Tags>>
ClientQuotasOp_encode == <<Str("key"), F64("value"), Bool("remove")>>
ClientQuotasOp_decode == <<Str("key"), F64("value"), Bool("remove")>>
AlterClientQuotasEntry_encode ==
    <<Arr("entity", QuotaEntityComponent_encode), Arr("ops", ClientQuotasOp_encode)>>
AlterClientQuotasEntry_decode ==
    <<Arr("entity", QuotaEntityComponent_decode), Arr("ops", ClientQuotasOp_decode)>>
AlterClientQuotasRequest_encode(v) ==
    <<Arr("entries", AlterClientQuotasEntry_encode), Bool("validate_only")>>
AlterClientQuotasRequest_decode(v) ==
    <<Arr("entries", AlterClientQuotasEntry_decode), Bool("validate_only")>>
AlterClientQuotasRequest_meta == Meta(0, 0, Never, Always(1), <<V2_6>>)
AlterClientQuotasEntryResponse_encode ==
    <<KErr("code"), NStr("message"), Arr("entity", QuotaEntityComponent_encode)>>
AlterClientQuotasEntryResponse_decode ==
    <<KErr("code"), NStr("message"), Arr("entity", QuotaEntityComponent_decode)>>
AlterClientQuotasResponse_encode(v) ==
    <<Dur("throttle_time"), Arr("entries", AlterClientQuotasEntryResponse_encode)>>
AlterClientQuotasResponse_decode(v) ==
    <<Dur("throttle_time"), Arr("entries", AlterClientQuotasEntryResponse_decode)>>
AlterClientQuotasResponse_meta == Meta(0, 0, Never, Always(0), <<V2_6>>)

QuotaFilterComponent_encode == <<Str("entity_type"), I8("match_type"), NStr("match"), Tags>>
QuotaFilterComponent_decode == <<Str("entity_type"), I8("match_type"), NStr("match"), Tags>>
DescribeClientQuotasRequest_encode(v) ==
    <<Arr("components", QuotaFilterComponent_encode), Bool("strict"), Tags>>
\* The result of the component's decode() is tested the wrong way round.
DescribeClientQuotasRequest_decode(v) ==
    <<Arr("components", <<CallInverted(QuotaFilterComponent_decode)>>), Bool("strict"), Tags>>
DescribeClientQuotasRequest_meta == Meta(0, 1, 1, From(1, 1), <<V2_6, V2_8>>)
DescribeClientQuotasEntry_encode ==
    <<Arr("entity", QuotaEntityComponent_encode),
      Arr("values", <<Str("key"), F64("value"), Tags>>), Tags>>
DescribeClientQuotasEntry_decode ==
    <<Arr("entity", QuotaEntityComponent_decode),
      Arr("values", <<Str("key"), F64("value"), Tags>>), Tags>>
DescribeClientQuotasResponse_encode(v) ==
    <<Dur("throttle_time"), I16("code"), NStr("message"),
      Arr("entries", DescribeClientQuotasEntry_encode), Tags>>
DescribeClientQuotasResponse_decode(v) ==
    <<I32("throttle_time"), I16("code"), NStr("message"),
      Arr("entries", DescribeClientQuotasEntry_decode), Opt(v >= 1, Tags)>>
DescribeClientQuotasResponse_meta == Meta(0, 1, 1, From(1, 0), <<V2_6, V2_8>>)

----------------------------------------------------------------------------
AlterConfigsResource_encode ==
    <<I8("type"), Str("name"), Arr("config_entries", <<Str("key"), NStr("value")>>)>>
AlterConfigsResource_decode ==
    <<I8("type"), Str("name"), Arr("config_entries", <<Str("key"), NStr("value")>>)>>
AlterConfigsRequest_encode(v) ==
    <<Arr("resources", AlterConfigsResource_encode), Bool("validate_only")>>
AlterConfigsRequest_decode(v) ==
    <<Arr("resources", AlterConfigsResource_decode), Bool("validate_only")>>
AlterConfigsRequest_meta == Meta(0, 1, Never, Always(1), <<V0_11, V2_0>>)
AlterConfigsResourceResponse_encode ==
    <<I16("code"), Str("message"), I8("type"), Str("name"), Tags>>
AlterConfigsResourceResponse_decode ==
    <<I16("code"), NStr("message"), I8("type"), Str("name"), Tags>>
AlterConfigsResponse_encode(v) ==
    <<Dur("throttle_time"), Arr("resources", AlterConfigsResourceResponse_encode)>>
AlterConfigsResponse_decode(v) ==
    <<Dur("throttle_time"), Arr("resources", AlterConfigsResourceResponse_decode)>>
AlterConfigsResponse_meta == Meta(0, 1, Never, Always(0), <<V0_11, V2_0>>)

IncrementalAlterConfigsEntry_encode == <<I8("operation"), NStr("value"), Tags>>
IncrementalAlterConfigsEntry_decode == <<I8("operation"), NStr("value"), Tags>>
IncrementalAlterConfigsResource_encode ==
    <<I8("type"), Str("name"),
      Arr("config_entries", <<Str("key")>> \o IncrementalAlterConfigsEntry_encode), Tags>>
IncrementalAlterConfigsResource_decode ==
    <<I8("type"), Str("name"),
      Arr("config_entries", <<Str("key")>> \o IncrementalAlterConfigsEntry_decode), Tags>>
IncrementalAlterConfigsRequest_encode(v) ==
    <<Arr("resources", IncrementalAlterConfigsResource_encode), Bool("validate_only"), Tags>>
IncrementalAlterConfigsRequest_decode(v) ==
    <<Arr("resources", IncrementalAlterConfigsResource_decode), Bool("validate_only"), Tags>>
IncrementalAlterConfigsRequest_meta == Meta(0, 1, 1, From(1, 1), <<V2_3, V2_4>>)
IncrementalAlterConfigsResponse_encode(v) ==
    <<Dur("throttle_time"), Arr("resources", AlterConfigsResourceResponse_encode), Tags>>
IncrementalAlterConfigsResponse_decode(v) ==
    <<Dur("throttle_time"), Arr("resources", AlterConfigsResourceResponse_decode), Tags>>
IncrementalAlterConfigsResponse_meta == Meta(0, 1, 1, From(1, 0), <<V2_3, V2_4>>)

DescribeConfigsRequest_encode(v) ==
    <<Arr("resources", <<I8("type"), Str("name"), NArr("config_names", <<Str("string")>>)>>),
      Opt(v >= 1, Bool("include_synonyms"))>>
DescribeConfigsRequest_decode(v) ==
    <<Arr("resources", <<I8("type"), Str("name"), Arr("config_names", <<Str("string")>>)>>),
      Opt(v >= 1, Bool("include_synonyms"))>>
DescribeConfigsRequest_meta == Meta(0, 4, Never, Always(1), <<V0_11, V1_1, V2_0, V2_0, V2_0>>)
ConfigSynonym_encode == <<Str("config_name"), Str("config_value"), I8("source")>>
ConfigSynonym_decode == <<Str("config_name"), Str("config_value"), I8("source")>>
ConfigEntry_encode(v) ==
    <<Str("name"), Str("value"), Bool("read_only"),
      IF v = 0 THEN Bool("default") ELSE I8("source"), Bool("sensitive"),
      Opt(v # 0, Arr("synonyms", ConfigSynonym_encode))>>
ConfigEntry_decode(v) ==
    <<Str("name"), Str("value"), Bool("read_only"),
      IF v = 0 THEN Bool("default") ELSE I8("source"), Bool("sensitive"),
      Opt(v > 0, Arr("synonyms", ConfigSynonym_decode))>>
ResourceResponse_encode(v) ==
    <<I16("code"), Str("message"), I8("type"), Str("name"), Arr("configs", ConfigEntry_encode(v))>>
ResourceResponse_decode(v) ==
    <<I16("code"), Str("message"), I8("type"), Str("name"), Arr("configs", ConfigEntry_decode(v))>>
DescribeConfigsResponse_encode(v) ==
    <<Dur("throttle_time"), Arr("resources", ResourceResponse_encode(v))>>
DescribeConfigsResponse_decode(v) ==
    <<Dur("throttle_time"), Arr("resources", ResourceResponse_decode(v))>>
DescribeConfigsResponse_meta == Meta(0, 4, Never, Always(0), <<V0_11, V1_1, V2_0, V2_0, V2_0>>)

----------------------------------------------------------------------------
TopicDetail_encode ==
    <<I32("num_partitions"), I16("replication_factor"),
      Arr("replica_assignment", <<I32("partition"), I32s("replicas"), Tags>>),
      Arr("config_entries", <<Str("key"), NStr("value"), Tags>>), Tags>>
TopicDetail_decode ==
    <<I32("num_partitions"), I16("replication_factor"),
      Arr("replica_assignment", <<I32("partition"), I32s("replicas"), Tags>>),
      Arr("config_entries", <<Str("key"), NStr("value"), Tags>>), Tags>>
CreateTopicsRequest_encode(v) ==
    <<Arr("topic_details", <<Str("topic")>> \o TopicDetail_encode), Dur("timeout"),
      Opt(v >= 1, Bool("validate_only")), Tags>>
CreateTopicsRequest_decode(v) ==
    <<Arr("topic_details", <<Str("topic")>> \o TopicDetail_decode), Dur("timeout"),
      Opt(v >= 1, Bool("validate_only")), Tags>>
CreateTopicsRequest_meta == Meta(0, 6, 5, From(5, 1),
    <<V0_10_1, V0_10_2, V0_11, V2_0, V2_4, V2_4, V2_8>>)

TopicError_encode(v) == <<I16("err"), Opt(v >= 1, NStr("err_msg"))>>
TopicError_decode(v) == <<I16("err"), Opt(v >= 1, NStr("err_msg"))>>
CreatableTopicConfigs_encode ==
    <<NStr("value"), Bool("read_only"), I8("config_source"), Bool("is_sensitive"), Tags>>
CreatableTopicConfigs_decode ==
    <<NStr("value"), Bool("read_only"), I8("config_source"), Bool("is_sensitive"), Tags>>
CreatableTopicResult_encode ==
    <<I32("num_partitions"), I16("replication_factor"),
      Arr("configs", <<Str("name")>> \o CreatableTopicConfigs_encode),
      TaggedErr("topic_config_error_code")>>
CreatableTopicResult_decode ==
    <<I32("num_partitions"), I16("replication_factor"),
      Arr("configs", <<Str("name")>> \o CreatableTopicConfigs_decode),
      TaggedErr("topic_config_error_code")>>
CreateTopicsResponse_encode(v) ==
    <<Opt(v >= 2, Dur("throttle_time")),
      Arr("topic_errors", <<Str("topic")>> \o TopicError_encode(v)
                          \o <<Opt(v >= 5, All(CreatableTopicResult_encode))>>), Tags>>
CreateTopicsResponse_decode(v) ==
    <<Opt(v >= 2, Dur("throttle_time")),
      Arr("topic_errors", <<Str("topic")>> \o TopicError_decode(v)
                          \o <<Opt(v >= 5, All(CreatableTopicResult_decode))>>), Tags>>
CreateTopicsResponse_meta == Meta(0, 6, 5, From(5, 0),
    <<V0_10_1, V0_10_2, V0_11, V2_0, V2_4, V2_4, V2_8>>)

\* TopicPartition, of a topic that gets more partitions.
TopicPartition_encode == <<I32("count"), NArr("assignments", <<I32s("replicas")>>)>>
TopicPartition_decode == <<I32("count"), ArrOrReturn("assignments", <<I32s("replicas")>>)>>
CreatePartitionsRequest_encode(v) ==
    <<Arr("topic_partitions", <<Str("topic")>> \o TopicPartition_encode),
      I32("timeout"), Bool("validate_only")>>
CreatePartitionsRequest_decode(v) ==
    <<Arr("topic_partitions", <<Str("topic"), Call(TopicPartition_decode)>>),
      Dur("timeout"), Bool("validate_only")>>
CreatePartitionsRequest_meta == Meta(0, 3, Never, Always(1), <<V1_0, V2_0, V2_0, V2_0>>)
TopicPartitionError_encode == <<KErr("err"), NStr("err_msg")>>
TopicPartitionError_decode == <<KErr("err"), NStr("err_msg")>>
CreatePartitionsResponse_encode(v) ==
    <<Dur("throttle_time"),
      Arr("topic_partition_errors", <<Str("topic")>> \o TopicPartitionError_encode)>>
CreatePartitionsResponse_decode(v) ==
    <<Dur("throttle_time"),
      Arr("topic_partition_errors", <<Str("topic")>> \o TopicPartitionError_decode)>>
CreatePartitionsResponse_meta == Meta(0, 3, Never, Always(0), <<V1_0, V2_0, V2_0, V2_0>>)

DeleteTopicsRequest_encode(v) == <<Strs("topics"), Dur("timeout"), Tags>>
DeleteTopicsRequest_decode(v) == <<Strs("topics"), I32("timeout"), Tags>>
DeleteTopicsRequest_meta == Meta(0, 4, 4, From(4, 1), <<V0_10_1, V0_11, V2_0, V2_1, V2_4>>)
DeleteTopicsResponse_encode(v) ==
    <<Opt(v >= 1, Dur("throttle_time")),
      Arr("topic_error_codes", <<Str("topic"), I16("err"), Tags>>), Tags>>
DeleteTopicsResponse_decode(v) ==
    <<Opt(v >= 1, Dur("throttle_time")),
      Arr("topic_error_codes", <<Str("topic"), I16("err"), Tags>>), Tags>>
DeleteTopicsResponse_meta == Meta(0, 4, 4, From(4, 0), <<V0_10_1, V0_11, V2_0, V2_1, V2_4>>)

DeleteRecordsRequestTopic_encode == <<Arr("partition_offsets", <<I32("partition"), I64("offset")>>)>>
DeleteRecordsRequestTopic_decode == <<Arr("partition_offsets", <<I32("partition"), I64("offset")>>)>>
DeleteRecordsRequest_encode(v) ==
    <<Arr("topics", <<Str("topic")>> \o DeleteRecordsRequestTopic_encode), I32("timeout")>>
DeleteRecordsRequest_decode(v) ==
    <<Arr("topics", <<Str("topic")>> \o DeleteRecordsRequestTopic_decode), Dur("timeout")>>
DeleteRecordsRequest_meta == Meta(0, 2, Never, Always(1), <<V0_11, V2_0, V0_11>>)
DeleteRecordsResponsePartition_encode == <<I64("low_watermark"), I16("err")>>
DeleteRecordsResponsePartition_decode == <<I64("low_watermark"), I16("err")>>
DeleteRecordsResponseTopic_encode ==
    <<Arr("partitions", <<I32("partition")>> \o DeleteRecordsResponsePartition_encode)>>
DeleteRecordsResponseTopic_decode ==
    <<Arr("partitions", <<I32("partition")>> \o DeleteRecordsResponsePartition_decode)>>
DeleteRecordsResponse_encode(v) ==
    <<Dur("throttle_time"), Arr("topics", <<Str("topic")>> \o DeleteRecordsResponseTopic_encode)>>
DeleteRecordsResponse_decode(v) ==
    <<Dur("throttle_time"), Arr("topics", <<Str("topic")>> \o DeleteRecordsResponseTopic_decode)>>
DeleteRecordsResponse_meta == Meta(0, 2, Never, Always(0), <<V0_11, V2_0, V0_11>>)

----------------------------------------------------------------------------
ElectLeadersRequest_encode(v) ==
    <<Opt(v > 0, I8("type")),
      Arr("topic_partitions", <<Str("topic"), I32s("partitions"), Tags>>), Dur("timeout"), Tags>>
ElectLeadersRequest_decode(v) ==
    <<Opt(v > 0, I8("type")),
      Arr("topic_partitions", <<Str("topic"), I32s("partitions"), Tags>>), Dur("timeout"), Tags>>
ElectLeadersRequest_meta == Meta(0, 2, 2, Always(2), <<V0_10_0, V0_11, V2_4>>)
PartitionResult_encode == <<KErr("code"), NStr("message"), Tags>>
PartitionResult_decode == <<KErr("code"), NStr("message"), Tags>>
ElectLeadersResponse_encode(v) ==
    <<Dur("throttle_time"), Opt(v > 0, KErr("code")),
      Arr("replica_election_results", <<Str("topic"),
          Arr("partitions", <<I32("partition")>> \o PartitionResult_encode), Tags>>), Tags>>
ElectLeadersResponse_decode(v) ==
    <<Dur("throttle_time"), Opt(v > 0, KErr("code")),
      Arr("replica_election_results", <<Str("topic"),
          Arr("partitions", <<I32("partition")>> \o PartitionResult_decode), Tags>>), Tags>>
ElectLeadersResponse_meta == Meta(0, 2, 2, Always(1), <<V0_10_0, V0_11, V2_4>>)

AlterPartitionReassignmentsBlock_encode == <<NI32s("replicas"), Tags>>
AlterPartitionReassignmentsBlock_decode == <<I32s("replicas"), Tags>>
AlterPartitionReassignmentsRequest_encode(v) ==
    <<I32("timeout"), Arr("blocks", <<Str("topic"),
        Arr("partitions", <<I32("partition")>> \o AlterPartitionReassignmentsBlock_encode), Tags>>),
      Tags>>
AlterPartitionReassignmentsRequest_decode(v) ==
    <<I32("timeout"), Arr("blocks", <<Str("topic"),
        Arr("partitions", <<I32("partition")>> \o AlterPartitionReassignmentsBlock_decode), Tags>>),
      Tags>>
AlterPartitionReassignmentsRequest_meta == Meta(0, 0, 0, Always(2), <<V2_4>>)
AlterPartitionReassignmentsErrorBlock_encode == <<KErr("code"), NStr("message"), Tags>>
AlterPartitionReassignmentsErrorBlock_decode == <<KErr("code"), NStr("message"), Tags>>
AlterPartitionReassignmentsResponse_encode(v) ==
    <<Dur("throttle_time"), KErr("code"), NStr("message"), Arr("errors", <<Str("topic"),
        Arr("partitions", <<I32("partition")>> \o AlterPartitionReassignmentsErrorBlock_encode),
        Tags>>), Tags>>
AlterPartitionReassignmentsResponse_decode(v) ==
    <<Dur("throttle_time"), KErr("code"), NStr("message"), Arr("errors", <<Str("topic"),
        Arr("partitions", <<I32("partition")>> \o AlterPartitionReassignmentsErrorBlock_decode),
        Tags>>), Tags>>
AlterPartitionReassignmentsResponse_meta == Meta(0, 0, 0, Always(1), <<V2_4>>)

ListPartitionReassignmentsRequest_encode(v) ==
    <<I32("timeout"), Arr("blocks", <<Str("topic"), I32s("partitions"), Tags>>), Tags>>
ListPartitionReassignmentsRequest_decode(v) ==
    <<I32("timeout"), Arr("blocks", <<Str("topic"), I32s("partitions"), Tags>>), Tags>>
ListPartitionReassignmentsRequest_meta == Meta(0, 1, 0, Always(2), <<V2_4, V2_4>>)
PartitionReplicaReassignmentsStatus_encode ==
    <<I32s("replicas"), I32s("adding_replicas"), I32s("removing_replicas"), Tags>>
PartitionReplicaReassignmentsStatus_decode ==
    <<I32s("replicas"), I32s("adding_replicas"), I32s("removing_replicas"), Tags>>
ListPartitionReassignmentsResponse_encode(v) ==
    <<Dur("throttle_time"), KErr("err"), NStr("message"), Arr("topic_status", <<Str("topic"),
        Arr("partitions", <<I32("partition")>> \o PartitionReplicaReassignmentsStatus_encode),
        Tags>>), Tags>>
ListPartitionReassignmentsResponse_decode(v) ==
    <<Dur("throttle_time"), KErr("err"), NStr("message"), Arr("topic_status", <<Str("topic"),
        Arr("partitions", <<I32("partition")>> \o PartitionReplicaReassignmentsStatus_decode),
        Tags>>), Tags>>
ListPartitionReassignmentsResponse_meta == Meta(0, 1, 0, Always(1), <<V2_4, V2_4>>)

----------------------------------------------------------------------------
DescribeLogDirsRequest_encode(v) ==
    <<NArr("describe_topics", <<Str("topic"), I32s("partition_ids"), Tags>>), Tags>>
DescribeLogDirsRequest_decode(v) ==
    <<Arr("describe_topics", <<Str("topic"), I32s("partition_ids"), Tags>>), Tags>>
DescribeLogDirsRequest_meta == Meta(0, 4, 2, From(2, 1), <<V1_0, V2_0, V2_6, V3_2, V3_3>>)
DescribeLogDirsResponsePartition_encode(v) ==
    <<I32("partition_id"), I64("size"), I64("offset_lag"), Bool("is_temporary"), Opt(v >= 2, Tags)>>
DescribeLogDirsResponsePartition_decode(v) ==
    <<I32("partition_id"), I64("size"), I64("offset_lag"), Bool("is_temporary"), Tags>>
DescribeLogDirsResponseTopic_encode(v) ==
    <<Str("topic"), Arr("partitions", DescribeLogDirsResponsePartition_encode(v)), Tags>>
DescribeLogDirsResponseTopic_decode(v) ==
    <<Str("topic"), Arr("partitions", DescribeLogDirsResponsePartition_decode(v)), Tags>>
DescribeLogDirsResponseDirMetadata_encode(v) ==
    <<KErr("code"), Str("path"), Arr("topics", DescribeLogDirsResponseTopic_encode(v)),
      Opt(v >= 4, All(<<I64("total_bytes"), I64("usable_bytes")>>)), Tags>>
DescribeLogDirsResponseDirMetadata_decode(v) ==
    <<KErr("code"), Str("path"), Arr("topics", DescribeLogDirsResponseTopic_decode(v)),
      Opt(v >= 4, All(<<I64("total_bytes"), I64("usable_bytes")>>)), Tags>>
DescribeLogDirsResponse_encode(v) ==
    <<Dur("throttle_time"), Opt(v >= 3, KErr("code")),
      Arr("log_dirs", DescribeLogDirsResponseDirMetadata_encode(v)), Tags>>
DescribeLogDirsResponse_decode(v) ==
    <<Dur("throttle_time"), Opt(v >= 3, KErr("code")),
      Arr("log_dirs", DescribeLogDirsResponseDirMetadata_decode(v)), Tags>>
DescribeLogDirsResponse_meta == Meta(0, 4, 2, From(2, 0), <<V1_0, V2_0, V2_6, V3_2, V3_3>>)

\* SaltedPassword returns ErrNoError, zero, and encode() takes zero for a
\* failure: a request with an upsertion is never encoded.
AlterUserScramCredentialsRequest_encode(v) ==
    <<Arr("deletions", <<Str("name"), I8("mechanism"), Tags>>),
      Arr("upsertions", <<Str("name"), I8("mechanism"), I32("iterations"), Bytes("salt"), Fail>>),
      Tags>>
AlterUserScramCredentialsRequest_decode(v) ==
    <<Arr("deletions", <<Str("name"), I8("mechanism"), Tags>>),
      Arr("upsertions", <<Str("name"), I8("mechanism"), I32("iterations"), Bytes("salt"),
                          Bytes("salted_password"), Tags>>), Tags>>
AlterUserScramCredentialsRequest_meta == Meta(0, 1, 0, Always(2), <<V2_7, V2_7>>)
AlterUserScramCredentialsResponse_encode(v) ==
    <<Dur("throttle_time"),
      Arr("results", <<Str("user"), KErr("code"), NStr("message"), Tags>>), Tags>>
AlterUserScramCredentialsResponse_decode(v) ==
    <<Dur("throttle_time"),
      Arr("results", <<Str("user"), KErr("code"), NStr("message"), Tags>>), Tags>>
AlterUserScramCredentialsResponse_meta == Meta(0, 1, 0, Always(2), <<V2_7, V2_7>>)

DescribeUserScramCredentialsRequest_encode(v) ==
    <<Arr("describe_users", <<Str("name"), Tags>>), Tags>>
DescribeUserScramCredentialsRequest_decode(v) ==
    <<Arr("describe_users", <<Str("name"), Tags>>), Tags>>
DescribeUserScramCredentialsRequest_meta == Meta(0, 1, 0, Always(2), <<V2_7, V2_7>>)
DescribeUserScramCredentialsResponse_encode(v) ==
    <<Dur("throttle_time"), KErr("code"), NStr("message"),
      Arr("results", <<Str("user"), KErr("code"), NStr("message"),
          Arr("credential_infos", <<I8("mechanism"), I32("iterations"), Tags>>), Tags>>), Tags>>
DescribeUserScramCredentialsResponse_decode(v) ==
    <<Dur("throttle_time"), KErr("code"), NStr("message"),
      Arr("results", <<Str("user"), KErr("code"), NStr("message"),
          Arr("credential_infos", <<I8("mechanism"), I32("iterations"), Tags>>), Tags>>), Tags>>
DescribeUserScramCredentialsResponse_meta == Meta(0, 1, 0, Always(2), <<V2_7, V2_7>>)

----------------------------------------------------------------------------
AdminMsgs ==
    [ CreateAclsRequest |-> Request(CreateAclsRequest_encode, CreateAclsRequest_decode, CreateAclsRequest_meta),
      CreateAclsResponse |-> Response(CreateAclsResponse_encode, CreateAclsResponse_decode, CreateAclsResponse_meta),
      DeleteAclsRequest |-> Request(DeleteAclsRequest_encode, DeleteAclsRequest_decode, DeleteAclsRequest_meta),
      DeleteAclsResponse |-> Response(DeleteAclsResponse_encode, DeleteAclsResponse_decode, DeleteAclsResponse_meta),
      DescribeAclsRequest |-> Request(DescribeAclsRequest_encode, DescribeAclsRequest_decode, DescribeAclsRequest_meta),
      DescribeAclsResponse |-> Response(DescribeAclsResponse_encode, DescribeAclsResponse_decode, DescribeAclsResponse_meta),
      AlterClientQuotasRequest |-> Request(AlterClientQuotasRequest_encode, AlterClientQuotasRequest_decode, AlterClientQuotasRequest_meta),
      AlterClientQuotasResponse |-> Response(AlterClientQuotasResponse_encode, AlterClientQuotasResponse_decode, AlterClientQuotasResponse_meta),
      DescribeClientQuotasRequest |-> Request(DescribeClientQuotasRequest_encode, DescribeClientQuotasRequest_decode, DescribeClientQuotasRequest_meta),
      DescribeClientQuotasResponse |-> Response(DescribeClientQuotasResponse_encode, DescribeClientQuotasResponse_decode, DescribeClientQuotasResponse_meta),
      AlterConfigsRequest |-> Request(AlterConfigsRequest_encode, AlterConfigsRequest_decode, AlterConfigsRequest_meta),
      AlterConfigsResponse |-> Response(AlterConfigsResponse_encode, AlterConfigsResponse_decode, AlterConfigsResponse_meta),
      IncrementalAlterConfigsRequest |-> Request(IncrementalAlterConfigsRequest_encode, IncrementalAlterConfigsRequest_decode, IncrementalAlterConfigsRequest_meta),
      IncrementalAlterConfigsResponse |-> Response(IncrementalAlterConfigsResponse_encode, IncrementalAlterConfigsResponse_decode, IncrementalAlterConfigsResponse_meta),
      DescribeConfigsRequest |-> Request(DescribeConfigsRequest_encode, DescribeConfigsRequest_decode, DescribeConfigsRequest_meta),
      DescribeConfigsResponse |-> Response(DescribeConfigsResponse_encode, DescribeConfigsResponse_decode, DescribeConfigsResponse_meta),
      CreateTopicsRequest |-> Request(CreateTopicsRequest_encode, CreateTopicsRequest_decode, CreateTopicsRequest_meta),
      CreateTopicsResponse |-> Response(CreateTopicsResponse_encode, CreateTopicsResponse_decode, CreateTopicsResponse_meta),
      CreatePartitionsRequest |-> Request(CreatePartitionsRequest_encode, CreatePartitionsRequest_decode, CreatePartitionsRequest_meta),
      CreatePartitionsResponse |-> Response(CreatePartitionsResponse_encode, CreatePartitionsResponse_decode, CreatePartitionsResponse_meta),
      DeleteTopicsRequest |-> Request(DeleteTopicsRequest_encode, DeleteTopicsRequest_decode, DeleteTopicsRequest_meta),
      DeleteTopicsResponse |-> Response(DeleteTopicsResponse_encode, DeleteTopicsResponse_decode, DeleteTopicsResponse_meta),
      DeleteRecordsRequest |-> Request(DeleteRecordsRequest_encode, DeleteRecordsRequest_decode, DeleteRecordsRequest_meta),
      DeleteRecordsResponse |-> Response(DeleteRecordsResponse_encode, DeleteRecordsResponse_decode, DeleteRecordsResponse_meta),
      ElectLeadersRequest |-> Request(ElectLeadersRequest_encode, ElectLeadersRequest_decode, ElectLeadersRequest_meta),
      ElectLeadersResponse |-> Response(ElectLeadersResponse_encode, ElectLeadersResponse_decode, ElectLeadersResponse_meta),
      AlterPartitionReassignmentsRequest |-> Request(AlterPartitionReassignmentsRequest_encode, AlterPartitionReassignmentsRequest_decode, AlterPartitionReassignmentsRequest_meta),
      AlterPartitionReassignmentsResponse |-> Response(AlterPartitionReassignmentsResponse_encode, AlterPartitionReassignmentsResponse_decode, AlterPartitionReassignmentsResponse_meta),
      ListPartitionReassignmentsRequest |-> Request(ListPartitionReassignmentsRequest_encode, ListPartitionReassignmentsRequest_decode, ListPartitionReassignmentsRequest_meta),
      ListPartitionReassignmentsResponse |-> Response(ListPartitionReassignmentsResponse_encode, ListPartitionReassignmentsResponse_decode, ListPartitionReassignmentsResponse_meta),
      DescribeLogDirsRequest |-> Request(DescribeLogDirsRequest_encode, DescribeLogDirsRequest_decode, DescribeLogDirsRequest_meta),
      DescribeLogDirsResponse |-> Response(DescribeLogDirsResponse_encode, DescribeLogDirsResponse_decode, DescribeLogDirsResponse_meta),
      AlterUserScramCredentialsRequest |-> Request(AlterUserScramCredentialsRequest_encode, AlterUserScramCredentialsRequest_decode, AlterUserScramCredentialsRequest_meta),
      AlterUserScramCredentialsResponse |-> Response(AlterUserScramCredentialsResponse_encode, AlterUserScramCredentialsResponse_decode, AlterUserScramCredentialsResponse_meta),
      DescribeUserScramCredentialsRequest |-> Request(DescribeUserScramCredentialsRequest_encode, DescribeUserScramCredentialsRequest_decode, DescribeUserScramCredentialsRequest_meta),
      DescribeUserScramCredentialsResponse |-> Response(DescribeUserScramCredentialsResponse_encode, DescribeUserScramCredentialsResponse_decode, DescribeUserScramCredentialsResponse_meta) ]
=============================================================================
