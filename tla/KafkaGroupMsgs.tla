--------------------------- MODULE KafkaGroupMsgs ---------------------------
(***************************************************************************)
(* The messages of consumer groups and of the group coordinator: what      *)
(* encode() puts and decode() gets for every version, item by item, and    *)
(* what the type declares (X_meta).                                        *)
(***************************************************************************)
EXTENDS KafkaDataMsgs

----------------------------------------------------------------------------
HeartbeatRequest_encode(v) ==
    <<Str("group_id"), I32("generation_id"), Str("member_id"),
      Opt(v >= 3, NStr("group_instance_id")), Tags>>
HeartbeatRequest_decode(v) ==
    <<Str("group_id"), I32("generation_id"), Str("member_id"),
      Opt(v >= 3, NStr("group_instance_id")), Tags>>
HeartbeatRequest_meta == Meta(0, 4, 4, From(4, 1), <<V0_8_2, V0_11, V2_0, V2_3, V2_4>>)

\* Mutant: the tagged fields of the flexible version are left out.
HeartbeatResponse_encodeFixed(v) == <<Opt(v >= 1, Dur("throttle_time")), KErr("err")>>

HeartbeatResponse_encode(v) == <<Opt(v >= 1, Dur("throttle_time")), KErr("err"), Tags>>
HeartbeatResponse_decode(v) == <<Opt(v >= 1, Dur("throttle_time")), KErr("err"), Tags>>
HeartbeatResponse_meta == Meta(0, 4, 4, From(4, 0), <<V0_8_2, V0_11, V2_0, V2_3, V2_4>>)

----------------------------------------------------------------------------
GroupProtocol_encode == <<Str("name"), Bytes("metadata"), Tags>>
GroupProtocol_decode == <<Str("name"), Bytes("metadata"), Tags>>

\* The map m_group_protocols and the ordered list are encoded alike; setting
\* both is an error the caller gets.
JoinGroupRequest_encode(v) ==
    <<Str("group_id"), I32("session_timeout"), Opt(v >= 1, I32("rebalance_timeout")),
      Str("member_id"), Opt(v >= 5, NStr("group_instance_id")), Str("protocol_type"),
      Arr("protocols", GroupProtocol_encode), Tags>>
\* No protocols: decode() returns before it has read the tagged fields.
JoinGroupRequest_decode(v) ==
    <<Str("group_id"), I32("session_timeout"), Opt(v >= 1, I32("rebalance_timeout")),
      Str("member_id"), Opt(v >= 5, NStr("group_instance_id")), Str("protocol_type"),
      ArrOrReturn("protocols", GroupProtocol_decode), Tags>>
JoinGroupRequest_meta == Meta(0, 6, 6, From(6, 1),
    <<V0_10_0, V0_10_1, V0_11, V2_0, V2_2, V2_3, V2_4>>)

JoinGroupResponse_encode(v) ==
    <<Opt(v >= 2, Dur("throttle_time")), KErr("err"), I32("generation_id"),
      Str("group_protocol"), Str("leader_id"), Str("member_id"),
      Arr("members", <<Str("member_id"), Opt(v >= 5, NStr("group_instance_id")),
                       Bytes("metadata"), Tags>>), Tags>>
JoinGroupResponse_decode(v) ==
    <<Opt(v >= 2, Dur("throttle_time")), KErr("err"), I32("generation_id"),
      Str("group_protocol"), Str("leader_id"), Str("member_id"),
      Arr("members", <<Str("member_id"), Opt(v >= 5, NStr("group_instance_id")),
                       Bytes("metadata"), Tags>>), Tags>>
JoinGroupResponse_meta == Meta(0, 6, 6, From(6, 0),
    <<V0_10_0, V0_10_1, V0_11, V2_0, V2_2, V2_3, V2_4>>)

----------------------------------------------------------------------------
LeaveGroupRequest_encode(v) ==
    <<Str("group_id"), Opt(v < 3, Str("member_id")),
      Opt(v >= 3, Arr("members", <<Str("member_id"), NStr("group_instance_id"), Tags>>)), Tags>>
LeaveGroupRequest_decode(v) ==
    <<Str("group_id"), Opt(v < 3, Str("member_id")),
      Opt(v >= 3, Arr("members", <<Str("member_id"), NStr("group_instance_id"), Tags>>)), Tags>>
LeaveGroupRequest_meta == Meta(0, 4, 4, From(4, 1), <<V0_9, V0_11, V2_0, V2_4, V2_4>>)

LeaveGroupResponse_encode(v) ==
    <<Opt(v >= 1, Dur("throttle_time")), KErr("err"),
      Opt(v >= 3, Arr("members", <<Str("member_id"), NStr("group_instance_id"), KErr("err"), Tags>>)),
      Tags>>
LeaveGroupResponse_decode(v) ==
    <<Opt(v >= 1, Dur("throttle_time")), KErr("err"),
      Opt(v >= 3, Arr("members", <<Str("member_id"), NStr("group_instance_id"), KErr("err"), Tags>>)),
      Tags>>
LeaveGroupResponse_meta == Meta(0, 4, 4, From(4, 0), <<V0_9, V0_11, V2_0, V2_4, V2_4>>)

----------------------------------------------------------------------------
SyncGroupRequestAssignment_encode == <<Str("member_id"), Bytes("assignment"), Tags>>
SyncGroupRequestAssignment_decode == <<Str("member_id"), Bytes("assignment"), Tags>>

SyncGroupRequest_encode(v) ==
    <<Str("group_id"), I32("generation_id"), Str("member_id"),
      Opt(v >= 3, NStr("group_instance_id")),
      Arr("group_assignments", SyncGroupRequestAssignment_encode), Tags>>
SyncGroupRequest_decode(v) ==
    <<Str("group_id"), I32("generation_id"), Str("member_id"),
      Opt(v >= 3, NStr("group_instance_id")),
      Arr("group_assignments", SyncGroupRequestAssignment_decode), Tags>>
SyncGroupRequest_meta == Meta(0, 5, 4, From(4, 1), <<V0_9, V0_11, V2_0, V2_3, V2_4, V2_3>>)

SyncGroupResponse_encode(v) ==
    <<Opt(v >= 1, Dur("throttle_time")), KErr("err"), Bytes("member_assignment"), Tags>>
SyncGroupResponse_decode(v) ==
    <<Opt(v >= 1, Dur("throttle_time")), KErr("err"), Bytes("member_assignment"), Tags>>
SyncGroupResponse_meta == Meta(0, 5, 4, From(4, 0), <<V0_9, V0_11, V2_0, V2_3, V2_4, V2_3>>)

----------------------------------------------------------------------------
OffsetCommitRequestBlock_encode(v) ==
    <<I64("offset"), Opt(v = 1, I64("timestamp")), Opt(v >= 6, I32("committed_leader_epoch")),
      Str("metadata")>>
OffsetCommitRequestBlock_decode(v) ==
    <<I64("offset"), Opt(v = 1, I64("timestamp")), Opt(v >= 6, I32("committed_leader_epoch")),
      Str("metadata")>>

OffsetCommitRequest_encode(v) ==
    <<Str("consumer_group"),
      Opt(v >= 1, All(<<I32("consumer_group_generation"), Str("consumer_id")>>)),
      Opt(v \in 2..4, I64("retention_time")),
      Opt(v >= 7, NStr("group_instance_id")),
      Arr("blocks", <<Str("topic"),
          Arr("partitions", <<I32("partition"), Call(OffsetCommitRequestBlock_encode(v))>>)>>)>>
\* A topic without partitions ends the whole decode(), the topics after it
\* are left unread.
OffsetCommitRequest_decode(v) ==
    <<Str("consumer_group"),
      Opt(v >= 1, All(<<I32("consumer_group_generation"), Str("consumer_id")>>)),
      Opt(v \in 2..4, I64("retention_time")),
      Opt(v >= 7, NStr("group_instance_id")),
      ArrOrReturn("blocks", <<Str("topic"),
          ArrOrReturn("partitions", <<I32("partition"), Call(OffsetCommitRequestBlock_decode(v))>>)>>)>>
OffsetCommitRequest_meta == Meta(0, 7, Never, Always(1),
    <<V0_8_2, V0_8_2, V0_9, V0_11, V2_0, V2_1, V2_1, V2_3>>)

OffsetCommitResponse_encode(v) ==
    <<Opt(v >= 3, Dur("throttle_time")),
      Arr("errors", <<Str("topic"), Arr("partitions", <<I32("partition"), KErr("err")>>)>>)>>
OffsetCommitResponse_decode(v) ==
    <<Opt(v >= 3, Dur("throttle_time")),
      ArrOrReturn("errors", <<Str("topic"), Arr("partitions", <<I32("partition"), KErr("err")>>)>>)>>
OffsetCommitResponse_meta == Meta(0, 7, Never, Always(0),
    <<V0_8_2, V0_8_2, V0_9, V0_11, V2_0, V2_1, V2_1, V2_3>>)

----------------------------------------------------------------------------
\* No partitions stand for all of them, from version 2 on.
OffsetFetchRequest_encode(v) ==
    LET topics == <<Str("topic"), I32s("partitions"), Tags>>
    IN  <<Str("consumer_group"),
          IF v >= 2 THEN NArr("partitions", topics) ELSE Arr("partitions", topics),
          Opt(v >= 7, Bool("require_stable")), Tags>>
OffsetFetchRequest_decode(v) ==
    LET topics == <<Str("topic"), I32s("partitions"), Tags>>
    IN  <<Str("consumer_group"),
          IF v < 2 THEN ArrNotEmpty("partitions", topics) ELSE ArrNotNull("partitions", topics),
          Opt(v >= 7, Bool("require_stable")), Tags>>
OffsetFetchRequest_meta == Meta(0, 7, 6, From(6, 1),
    <<V0_8_2, V0_8_2, V0_10_2, V0_11, V2_0, V2_1, V2_4, V2_5>>)

OffsetFetchResponseBlock_encode(v) ==
    <<I64("offset"), Opt(v >= 5, I32("leader_epoch")), Str("metadata"), KErr("err"), Tags>>
OffsetFetchResponseBlock_decode(v) ==
    <<I64("offset"), Opt(v >= 5, I32("leader_epoch")), Str("metadata"), KErr("err"), Tags>>

OffsetFetchResponse_encode(v) ==
    <<Opt(v >= 3, Dur("throttle_time")),
      Arr("blocks", <<Str("topic"),
          Arr("partitions", <<I32("partition"), Call(OffsetFetchResponseBlock_encode(v))>>), Tags>>),
      Opt(v >= 2, KErr("err")), Tags>>
OffsetFetchResponse_decode(v) ==
    <<Opt(v >= 3, Dur("throttle_time")),
      Arr("blocks", <<Str("topic"),
          Arr("partitions", <<I32("partition"), Call(OffsetFetchResponseBlock_decode(v))>>), Tags>>),
      Opt(v >= 2, KErr("err")), Tags>>
OffsetFetchResponse_meta == Meta(0, 7, 6, From(6, 0),
    <<V0_8_2, V0_8_2, V0_10_2, V0_11, V2_0, V2_1, V2_4, V2_5>>)

----------------------------------------------------------------------------
DescribeGroupsRequest_encode(v) ==
    <<Strs("groups"), Opt(v >= 3, Bool("include_authorized_operations")), Tags>>
DescribeGroupsRequest_decode(v) ==
    <<Strs("groups"), Opt(v >= 3, Bool("include_authorized_operations")), Tags>>
DescribeGroupsRequest_meta == Meta(0, 5, 5, From(5, 1), <<V0_9, V0_11, V2_0, V2_3, V2_4, V2_4>>)

GroupMemberDescription_encode(v) ==
    <<Str("member_id"), Opt(v >= 4, NStr("group_instance_id")), Str("client_id"),
      Str("client_host"), Bytes("member_metadata"), Bytes("member_assignment"), Tags>>
GroupMemberDescription_decode(v) ==
    <<Str("member_id"), Opt(v >= 4, NStr("group_instance_id")), Str("client_id"),
      Str("client_host"), Bytes("member_metadata"), Bytes("member_assignment"), Tags>>
GroupDescription_encode(v) ==
    <<I16("code"), Str("group_id"), Str("state"), Str("protocol_type"), Str("protocol"),
      Arr("members", GroupMemberDescription_encode(v)),
      Opt(v >= 3, I32("authorized_operations")), Tags>>
\* The result of the member's decode() is tested the wrong way round.
GroupDescription_decode(v) ==
    <<I16("code"), Str("group_id"), Str("state"), Str("protocol_type"), Str("protocol"),
      Arr("members", <<CallInverted(GroupMemberDescription_decode(v))>>),
      Opt(v >= 3, I32("authorized_operations")), Tags>>
DescribeGroupsResponse_encode(v) ==
    <<Opt(v >= 1, Dur("throttle_time")), Arr("groups", GroupDescription_encode(v)), Tags>>
DescribeGroupsResponse_decode(v) ==
    <<Opt(v >= 1, Dur("throttle_time")), Arr("groups", <<Call(GroupDescription_decode(v))>>), Tags>>
DescribeGroupsResponse_meta == Meta(0, 5, 5, From(5, 0), <<V0_9, V0_11, V2_0, V2_3, V2_4, V2_4>>)

----------------------------------------------------------------------------
ListGroupsRequest_encode(v) ==
    <<Opt(v >= 4, Arr("states_filter", <<Str("string")>>)),
      Opt(v >= 5, Arr("types_filter", <<Str("string")>>)), Tags>>
ListGroupsRequest_decode(v) ==
    <<Opt(v >= 4, Strs("states_filter")), Opt(v >= 5, Strs("types_filter")), Tags>>
ListGroupsRequest_meta == Meta(0, 5, 3, From(3, 1), <<V0_9, V0_11, V2_0, V2_4, V2_6, V3_8>>)

ListGroupsResponse_encode(v) ==
    <<Opt(v >= 1, Dur("throttle_time")), KErr("err"),
      Arr("groups", <<Str("group_id"), Str("protocol_type"), Opt(v >= 4, Str("group_state")),
                      Opt(v >= 5, Str("group_type")), Tags>>), Tags>>
ListGroupsResponse_decode(v) ==
    <<Opt(v >= 1, Dur("throttle_time")), KErr("err"),
      Arr("groups", <<Str("group_id"), Str("protocol_type"),
                      Opt(v >= 4, All(<<Str("group_state"), Opt(v >= 5, Str("group_type"))>>)),
                      Tags>>), Tags>>
ListGroupsResponse_meta == Meta(0, 5, 3, From(3, 0), <<V0_9, V0_11, V2_0, V2_4, V2_6, V3_8>>)

DeleteGroupsRequest_encode(v) == <<Strs("groups"), Tags>>
DeleteGroupsRequest_decode(v) == <<Strs("groups"), Tags>>
DeleteGroupsRequest_meta == Meta(0, 2, 2, From(2, 1), <<V1_1, V2_0, V2_4>>)

DeleteGroupsResponse_encode(v) ==
    <<Dur("throttle_time"), Arr("group_error_codes", <<Str("group"), I16("err"), Tags>>), Tags>>
DeleteGroupsResponse_decode(v) ==
    <<Dur("throttle_time"), Arr("group_error_codes", <<Str("group"), I16("err"), Tags>>), Tags>>
DeleteGroupsResponse_meta == Meta(0, 2, 2, From(2, 0), <<V1_1, V2_0, V2_4>>)

DeleteOffsetsRequest_encode(v) ==
    <<Str("group"), Arr("partitions", <<Str("topic"), I32s("partitions")>>)>>
DeleteOffsetsRequest_decode(v) ==
    <<Str("group"), ArrOrReturn("partitions", <<Str("topic"), I32s("partitions")>>)>>
DeleteOffsetsRequest_meta == Meta(0, 2, Never, Always(1), <<V2_4, V2_4, V2_4>>)

DeleteOffsetsResponse_encode(v) ==
    <<I16("code"), Dur("throttle_time"),
      Arr("errors", <<Str("topic"), Arr("partitions", <<I32("partition"), I16("err")>>)>>)>>
DeleteOffsetsResponse_decode(v) ==
    <<I16("code"), Dur("throttle_time"),
      ArrOrReturn("errors", <<Str("topic"), Arr("partitions", <<I32("partition"), I16("err")>>)>>)>>
DeleteOffsetsResponse_meta == Meta(0, 2, Never, Always(0), <<V2_4, V2_4, V2_4>>)

----------------------------------------------------------------------------
FindCoordinatorRequest_encode(v) ==
    <<Str("coordinator_key"), Opt(v >= 1, I8("coordinator_type"))>>
FindCoordinatorRequest_decode(v) ==
    <<Str("coordinator_key"), Opt(v >= 1, I8("coordinator_type"))>>
FindCoordinatorRequest_meta == Meta(0, 3, Never, Always(1), <<V0_8_2, V0_11, V2_0, V0_8_2>>)

FindCoordinatorResponse_encode(v) ==
    <<Opt(v >= 1, Dur("throttle_time")), KErr("err"), Opt(v >= 1, NStr("err_msg")),
      Call(Broker_encode(0))>>
FindCoordinatorResponse_decode(v) ==
    <<Opt(v >= 1, Dur("throttle_time")), KErr("err"), Opt(v >= 1, NStr("err_msg")),
      Call(Broker_decode(0))>>
FindCoordinatorResponse_meta == Meta(0, 3, Never, Always(0), <<V0_8_2, V0_11, V2_0, V0_8_2>>)

\* ConsumerMetadata messages are FindCoordinator messages for a group.
ConsumerMetadataRequest_encode(v) ==
    <<Str("coordinator_key"), Opt(v >= 1, I8("coordinator_type"))>>
ConsumerMetadataRequest_decode(v) == <<Call(FindCoordinatorRequest_decode(v))>>
ConsumerMetadataRequest_meta == Meta(0, 2, Never, Always(1), <<V0_9, V0_9, V0_9>>)

ConsumerMetadataResponse_encode(v) == <<Call(FindCoordinatorResponse_encode(v))>>
ConsumerMetadataResponse_decode(v) == <<Call(FindCoordinatorResponse_decode(v))>>
ConsumerMetadataResponse_meta == Meta(0, 2, Never, Always(0), <<V0_8_2, V0_11, V2_0>>)

----------------------------------------------------------------------------
(* What members send each other through the coordinator: subscriptions,    *)
(* assignments and the sticky strategy's user data.  They carry their own  *)
(* version and are never flexible.                                         *)

OwnedPartition_encode == <<Str("topic"), I32s("partitions")>>
OwnedPartition_decode == <<Str("topic"), I32s("partitions")>>
ConsumerGroupMemberMetadata_encode(v) ==
    <<I16("version"), Strs("topics"), Bytes("user_data"),
      Opt(v >= 1, Arr("owned_partitions", OwnedPartition_encode)),
      Opt(v >= 2, I32("generation_id")), Opt(v >= 3, NStr("rack_id"))>>
ConsumerGroupMemberMetadata_decode(v) ==
    <<I16("version"), Strs("topics"), Bytes("user_data"),
      Opt(v >= 1, Arr("owned_partitions", OwnedPartition_decode)),
      Opt(v >= 2, I32("generation_id")), Opt(v >= 3, NStr("rack_id"))>>

ConsumerGroupMemberAssignment_encode(v) ==
    <<I16("version"), Arr("topics", <<Str("topic"), I32s("partitions")>>), Bytes("userdata")>>
ConsumerGroupMemberAssignment_decode(v) ==
    <<I16("version"), Arr("topics", <<Str("topic"), I32s("partitions")>>), Bytes("userdata")>>

\* StickyAssignorUserDataV0 and V1.
StickyAssignorUserData_encode(v) ==
    <<Arr("topics", <<Str("topic"), I32s("partitions")>>), Opt(v >= 1, I32("generation"))>>
StickyAssignorUserData_decode(v) ==
    <<Arr("topics", <<Str("topic"), I32s("partitions")>>), Opt(v >= 1, I32("generation"))>>

----------------------------------------------------------------------------
GroupMsgs ==
    [ HeartbeatRequest |-> Request(HeartbeatRequest_encode, HeartbeatRequest_decode, HeartbeatRequest_meta),
      HeartbeatResponse |-> Response(HeartbeatResponse_encode, HeartbeatResponse_decode, HeartbeatResponse_meta),
      JoinGroupRequest |-> Request(JoinGroupRequest_encode, JoinGroupRequest_decode, JoinGroupRequest_meta),
      JoinGroupResponse |-> Response(JoinGroupResponse_encode, JoinGroupResponse_decode, JoinGroupResponse_meta),
      LeaveGroupRequest |-> Request(LeaveGroupRequest_encode, LeaveGroupRequest_decode, LeaveGroupRequest_meta),
      LeaveGroupResponse |-> Response(LeaveGroupResponse_encode, LeaveGroupResponse_decode, LeaveGroupResponse_meta),
      SyncGroupRequest |-> Request(SyncGroupRequest_encode, SyncGroupRequest_decode, SyncGroupRequest_meta),
      SyncGroupResponse |-> Response(SyncGroupResponse_encode, SyncGroupResponse_decode, SyncGroupResponse_meta),
      OffsetCommitRequest |-> Request(OffsetCommitRequest_encode, OffsetCommitRequest_decode, OffsetCommitRequest_meta),
      OffsetCommitResponse |-> Response(OffsetCommitResponse_encode, OffsetCommitResponse_decode, OffsetCommitResponse_meta),
      OffsetFetchRequest |-> Request(OffsetFetchRequest_encode, OffsetFetchRequest_decode, OffsetFetchRequest_meta),
      OffsetFetchResponse |-> Response(OffsetFetchResponse_encode, OffsetFetchResponse_decode, OffsetFetchResponse_meta),
      DescribeGroupsRequest |-> Request(DescribeGroupsRequest_encode, DescribeGroupsRequest_decode, DescribeGroupsRequest_meta),
      DescribeGroupsResponse |-> Response(DescribeGroupsResponse_encode, DescribeGroupsResponse_decode, DescribeGroupsResponse_meta),
      ListGroupsRequest |-> Request(ListGroupsRequest_encode, ListGroupsRequest_decode, ListGroupsRequest_meta),
      ListGroupsResponse |-> Response(ListGroupsResponse_encode, ListGroupsResponse_decode, ListGroupsResponse_meta),
      DeleteGroupsRequest |-> Request(DeleteGroupsRequest_encode, DeleteGroupsRequest_decode, DeleteGroupsRequest_meta),
      DeleteGroupsResponse |-> Response(DeleteGroupsResponse_encode, DeleteGroupsResponse_decode, DeleteGroupsResponse_meta),
      DeleteOffsetsRequest |-> Request(DeleteOffsetsRequest_encode, DeleteOffsetsRequest_decode, DeleteOffsetsRequest_meta),
      DeleteOffsetsResponse |-> Response(DeleteOffsetsResponse_encode, DeleteOffsetsResponse_decode, DeleteOffsetsResponse_meta),
      FindCoordinatorRequest |-> Request(FindCoordinatorRequest_encode, FindCoordinatorRequest_decode, FindCoordinatorRequest_meta),
      FindCoordinatorResponse |-> Response(FindCoordinatorResponse_encode, FindCoordinatorResponse_decode, FindCoordinatorResponse_meta),
      ConsumerMetadataRequest |-> Request(ConsumerMetadataRequest_encode, ConsumerMetadataRequest_decode, ConsumerMetadataRequest_meta),
      ConsumerMetadataResponse |-> Response(ConsumerMetadataResponse_encode, ConsumerMetadataResponse_decode, ConsumerMetadataResponse_meta),
      ConsumerGroupMemberMetadata |-> Payload(ConsumerGroupMemberMetadata_encode, ConsumerGroupMemberMetadata_decode, 3),
      ConsumerGroupMemberAssignment |-> Payload(ConsumerGroupMemberAssignment_encode, ConsumerGroupMemberAssignment_decode, 1),
      StickyAssignorUserData |-> Payload(StickyAssignorUserData_encode, StickyAssignorUserData_decode, 1) ]
=============================================================================
