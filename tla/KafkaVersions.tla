--------------------------- MODULE KafkaVersions ---------------------------
(***************************************************************************)
(* The version of each request, chosen from the release the configuration  *)
(* names (conf->Version), where the request is made.                       *)
(***************************************************************************)
EXTENDS KafkaWire

\* `if (conf->Version.IsAtLeast(r)) version = v', for each <<r, v>> in turn
Newest(conf, base, steps) ==
    FoldLeft(LAMBDA v, s : IF IsAtLeast(conf, s[1]) THEN s[2] ELSE v, base, steps)

FetchRequest_version(conf) ==
    Newest(conf, 0, <<<<V0_9, 1>>, <<V0_10_0, 2>>, <<V0_10_1, 3>>, <<V0_11, 5>>, <<V1_0, 6>>,
                      <<V1_1, 7>>, <<V2_0, 8>>, <<V2_1, 10>>, <<V2_3, 11>>>>)
ProduceRequest_version(conf) ==
    Newest(conf, 0, <<<<V0_10_0, 2>>, <<V0_11, 3>>, <<V1_0, 5>>, <<V2_0, 6>>, <<V2_1, 7>>>>)
MetadataRequest_version(conf) ==
    Newest(conf, 0, <<<<V0_8_2, 1>>, <<V0_9, 2>>, <<V0_10_0, 3>>, <<V0_11, 4>>, <<V1_0, 5>>,
                      <<V2_0, 6>>, <<V2_1, 7>>, <<V2_3, 8>>, <<V2_4, 9>>, <<V2_8, 10>>>>)
OffsetRequest_version(conf) ==
    Newest(conf, 0, <<<<V0_10_1, 1>>, <<V0_11, 2>>, <<V2_0, 3>>, <<V2_1, 4>>, <<V2_2, 5>>>>)
\* FindCoordinator sets the version its constructor has set once more.
FindCoordinatorRequest_version(conf) == Newest(conf, 0, <<<<V0_11, 1>>, <<V2_0, 2>>>>)
SaslAuthenticateRequest_version(conf) == Newest(conf, 0, <<<<V2_2, 1>>>>)

InitProducerIDRequest_version(conf) ==
    Newest(conf, 0, <<<<V2_0, 1>>, <<V2_4, 2>>, <<V2_5, 3>>, <<V2_7, 4>>>>)
AddPartitionsToTxnRequest_version(conf) == Newest(conf, 0, <<<<V2_0, 1>>, <<V2_7, 2>>>>)
AddOffsetsToTxnRequest_version(conf) == Newest(conf, 0, <<<<V2_0, 1>>, <<V2_7, 2>>>>)
TxnOffsetCommitRequest_version(conf) == Newest(conf, 0, <<<<V2_0, 1>>, <<V2_1, 2>>>>)

JoinGroupRequest_version(conf) ==
    Newest(conf, 0, <<<<V0_10_1, 1>>, <<V0_11, 2>>, <<V2_0, 3>>, <<V2_2, 4>>, <<V2_3, 5>>,
                      <<V2_4, 6>>>>)
SyncGroupRequest_version(conf) ==
    Newest(conf, 0, <<<<V1_1, 1>>, <<V2_0, 2>>, <<V2_3, 3>>, <<V2_4, 4>>>>)

\* Mutant: version 4 one release early.
HeartbeatRequest_versionEarly(conf) ==
    Newest(conf, 0, <<<<V0_11, 1>>, <<V2_0, 2>>, <<V2_3, 4>>>>)

HeartbeatRequest_version(conf) ==
    Newest(conf, 0, <<<<V0_11, 1>>, <<V2_0, 2>>, <<V2_3, 3>>, <<V2_4, 4>>>>)
LeaveGroupRequest_version(conf) ==
    Newest(conf, 0, <<<<V0_11, 1>>, <<V2_0, 2>>, <<V2_3, 3>>, <<V2_4, 4>>>>)
OffsetFetchRequest_version(conf) ==
    Newest(conf, 0, <<<<V0_8_2, 1>>, <<V0_10_2, 2>>, <<V0_11, 3>>, <<V2_0, 4>>, <<V2_1, 5>>,
                      <<V2_4, 6>>, <<V2_5, 7>>>>)
OffsetCommitRequest_version(conf) ==
    Newest(conf, 1, <<<<V0_9, 2>>, <<V0_11, 3>>, <<V2_0, 4>>, <<V2_1, 6>>, <<V2_3, 7>>>>)

DescribeConfigsRequest_version(conf) == Newest(conf, 0, <<<<V1_1, 1>>, <<V2_0, 2>>>>)
CreatePartitionsRequest_version(conf) == Newest(conf, 0, <<<<V2_0, 1>>>>)
DeleteRecordsRequest_version(conf) == Newest(conf, 0, <<<<V2_0, 1>>>>)
AlterConfigsRequest_version(conf) == Newest(conf, 0, <<<<V2_0, 1>>>>)
IncrementalAlterConfigsRequest_version(conf) == Newest(conf, 0, <<<<V2_4, 1>>>>)
CreateAclsRequest_version(conf) == Newest(conf, 0, <<<<V2_0, 1>>>>)
DescribeAclsRequest_version(conf) == Newest(conf, 0, <<<<V2_0, 1>>>>)
DeleteAclsRequest_version(conf) == Newest(conf, 0, <<<<V2_0, 1>>>>)
ElectLeadersRequest_version(conf) == Newest(conf, 0, <<<<V0_11, 1>>, <<V2_4, 2>>>>)
DescribeGroupsRequest_version(conf) ==
    Newest(conf, 0, <<<<V1_1, 1>>, <<V2_0, 2>>, <<V2_3, 3>>, <<V2_4, 5>>>>)
ListGroupsRequest_version(conf) ==
    Newest(conf, 0, <<<<V0_11, 1>>, <<V2_0, 2>>, <<V2_4, 3>>, <<V2_6, 4>>, <<V3_8, 5>>>>)
DeleteGroupsRequest_version(conf) == Newest(conf, 0, <<<<V2_0, 1>>, <<V2_4, 2>>>>)
DescribeLogDirsRequest_version(conf) ==
    Newest(conf, 0, <<<<V2_0, 1>>, <<V2_6, 2>>, <<V3_2, 3>>, <<V3_3, 4>>>>)
DescribeClientQuotasRequest_version(conf) == Newest(conf, 0, <<<<V2_8, 1>>>>)
DeleteTopicsRequest_version(conf) ==
    Newest(conf, 0, <<<<V0_11, 1>>, <<V2_0, 2>>, <<V2_1, 3>>, <<V2_4, 4>>>>)
\* The one that compares with operator>=.
CreateTopicsRequest_version(conf) ==
    FoldLeft(LAMBDA v, s : IF GreaterOrEqual(conf, s[1]) THEN s[2] ELSE v, 0,
             <<<<V0_10_2, 1>>, <<V0_11, 2>>, <<V2_0, 3>>, <<V2_4, 5>>>>)

Releases == {V0_8_2, V0_9, V0_10_0, V0_10_1, V0_10_2, V0_11, V1_0, V1_1, V2_0, V2_1, V2_2, V2_3,
             V2_4, V2_5, V2_6, V2_7, V2_8, V3_0, V3_2, V3_3, V3_8}
\* The version chosen, by request and release.
Per(choose(_)) == [conf \in Releases |-> choose(conf)]
Chosen ==
    [ FetchRequest |-> Per(FetchRequest_version),
      ProduceRequest |-> Per(ProduceRequest_version),
      MetadataRequest |-> Per(MetadataRequest_version),
      OffsetRequest |-> Per(OffsetRequest_version),
      FindCoordinatorRequest |-> Per(FindCoordinatorRequest_version),
      SaslAuthenticateRequest |-> Per(SaslAuthenticateRequest_version),
      InitProducerIDRequest |-> Per(InitProducerIDRequest_version),
      AddPartitionsToTxnRequest |-> Per(AddPartitionsToTxnRequest_version),
      AddOffsetsToTxnRequest |-> Per(AddOffsetsToTxnRequest_version),
      TxnOffsetCommitRequest |-> Per(TxnOffsetCommitRequest_version),
      JoinGroupRequest |-> Per(JoinGroupRequest_version),
      SyncGroupRequest |-> Per(SyncGroupRequest_version),
      HeartbeatRequest |-> Per(HeartbeatRequest_version),
      LeaveGroupRequest |-> Per(LeaveGroupRequest_version),
      OffsetFetchRequest |-> Per(OffsetFetchRequest_version),
      OffsetCommitRequest |-> Per(OffsetCommitRequest_version),
      DescribeConfigsRequest |-> Per(DescribeConfigsRequest_version),
      CreatePartitionsRequest |-> Per(CreatePartitionsRequest_version),
      DeleteRecordsRequest |-> Per(DeleteRecordsRequest_version),
      AlterConfigsRequest |-> Per(AlterConfigsRequest_version),
      IncrementalAlterConfigsRequest |-> Per(IncrementalAlterConfigsRequest_version),
      CreateAclsRequest |-> Per(CreateAclsRequest_version),
      DescribeAclsRequest |-> Per(DescribeAclsRequest_version),
      DeleteAclsRequest |-> Per(DeleteAclsRequest_version),
      ElectLeadersRequest |-> Per(ElectLeadersRequest_version),
      DescribeGroupsRequest |-> Per(DescribeGroupsRequest_version),
      ListGroupsRequest |-> Per(ListGroupsRequest_version),
      DeleteGroupsRequest |-> Per(DeleteGroupsRequest_version),
      DescribeLogDirsRequest |-> Per(DescribeLogDirsRequest_version),
      DescribeClientQuotasRequest |-> Per(DescribeClientQuotasRequest_version),
      DeleteTopicsRequest |-> Per(DeleteTopicsRequest_version),
      CreateTopicsRequest |-> Per(CreateTopicsRequest_version) ]
=============================================================================
