------------------------------- MODULE MsgAdmin ------------------------------
(***************************************************************************)
(* The schemas of the messages about administration: configurations,       *)
(* quotas, authentication and authorisation.  Each definition is one struct*)
(* of kafka-protocol/src/messages/<file>.rs: the versions that it is valid *)
(* for, the flexible ones among them, and its fields in the order in which *)
(* they are written, with the default that impl Default gives them.        *)
(***************************************************************************)
EXTENDS WireCodec

\* alter_client_quotas_request.rs
AlterClientQuotasRequestEntityData == Struct(0..1, {1}, <<
  Field("entity_type", Str, Empty),
  Field("entity_name", Opt(Str), Some(Empty))>>)
OpData == Struct(0..1, {1}, <<
  Field("key", Str, Empty),
  Field("value", Float64, Long(0)),
  Field("remove", Boolean, FALSE)>>)
AlterClientQuotasRequestEntryData == Struct(0..1, {1}, <<
  Field("entity", Array(Of(AlterClientQuotasRequestEntityData)), Empty),
  Field("ops", Array(Of(OpData)), Empty)>>)
AlterClientQuotasRequest == Struct(0..1, {1}, <<
  Field("entries", Array(Of(AlterClientQuotasRequestEntryData)), Empty),
  Field("validate_only", Boolean, FALSE)>>)

\* alter_client_quotas_response.rs
AlterClientQuotasResponseEntityData == Struct(0..1, {1}, <<
  Field("entity_type", Str, Empty),
  Field("entity_name", Opt(Str), Some(Empty))>>)
AlterClientQuotasResponseEntryData == Struct(0..1, {1}, <<
  Field("error_code", Int16, 0),
  Field("error_message", Opt(Str), Some(Empty)),
  Field("entity", Array(Of(AlterClientQuotasResponseEntityData)), Empty)>>)
AlterClientQuotasResponse == Struct(0..1, {1}, <<
  Field("throttle_time_ms", Int32, 0),
  Field("entries", Array(Of(AlterClientQuotasResponseEntryData)), Empty)>>)

\* alter_configs_request.rs
AlterConfigsRequestAlterableConfig == Struct(0..2, {2}, <<
  Field("name", Str, Empty),
  Field("value", Opt(Str), Some(Empty))>>)
AlterConfigsRequestAlterConfigsResource == Struct(0..2, {2}, <<
  Field("resource_type", Int8, 0),
  Field("resource_name", Str, Empty),
  Field("configs", Array(Of(AlterConfigsRequestAlterableConfig)), Empty)>>)
AlterConfigsRequest == Struct(0..2, {2}, <<
  Field("resources", Array(Of(AlterConfigsRequestAlterConfigsResource)), Empty),
  Field("validate_only", Boolean, FALSE)>>)

\* alter_configs_response.rs
AlterConfigsResponseAlterConfigsResourceResponse == Struct(0..2, {2}, <<
  Field("error_code", Int16, 0),
  Field("error_message", Opt(Str), Some(Empty)),
  Field("resource_type", Int8, 0),
  Field("resource_name", Str, Empty)>>)
AlterConfigsResponse == Struct(0..2, {2}, <<
  Field("throttle_time_ms", Int32, 0),
  Field("responses", Array(Of(AlterConfigsResponseAlterConfigsResourceResponse)), Empty)>>)

\* alter_user_scram_credentials_request.rs
ScramCredentialDeletion == Struct({0}, {0}, <<
  Field("name", Str, Empty),
  Field("mechanism", Int8, 0)>>)
ScramCredentialUpsertion == Struct({0}, {0}, <<
  Field("name", Str, Empty),
  Field("mechanism", Int8, 0),
  Field("iterations", Int32, 0),
  Field("salt", Bytes, Empty),
  Field("salted_password", Bytes, Empty)>>)
AlterUserScramCredentialsRequest == Struct({0}, {0}, <<
  Field("deletions", Array(Of(ScramCredentialDeletion)), Empty),
  Field("upsertions", Array(Of(ScramCredentialUpsertion)), Empty)>>)

\* alter_user_scram_credentials_response.rs
AlterUserScramCredentialsResult == Struct({0}, {0}, <<
  Field("user", Str, Empty),
  Field("error_code", Int16, 0),
  Field("error_message", Opt(Str), Some(Empty))>>)
AlterUserScramCredentialsResponse == Struct({0}, {0}, <<
  Field("throttle_time_ms", Int32, 0),
  Field("results", Array(Of(AlterUserScramCredentialsResult)), Empty)>>)

\* create_acls_request.rs
AclCreation == Struct(1..3, 2..3, <<
  Field("resource_type", Int8, 0),
  Field("resource_name", Str, Empty),
  Field("resource_pattern_type", Int8, 3),
  Field("principal", Str, Empty),
  Field("host", Str, Empty),
  Field("operation", Int8, 0),
  Field("permission_type", Int8, 0)>>)
CreateAclsRequest == Struct(1..3, 2..3, <<Field("creations", Array(Of(AclCreation)), Empty)>>)

\* create_acls_response.rs
AclCreationResult == Struct(1..3, 2..3, <<
  Field("error_code", Int16, 0),
  Field("error_message", Opt(Str), Some(Empty))>>)
CreateAclsResponse == Struct(1..3, 2..3, <<
  Field("throttle_time_ms", Int32, 0),
  Field("results", Array(Of(AclCreationResult)), Empty)>>)

\* create_delegation_token_request.rs
CreatableRenewers == Struct(1..3, 2..3, <<
  Field("principal_type", Str, Empty),
  Field("principal_name", Str, Empty)>>)
CreateDelegationTokenRequest == Struct(1..3, 2..3, <<
  StrictIn({3}, "owner_principal_type", Opt(Str), Some(Empty)),
  StrictIn({3}, "owner_principal_name", Opt(Str), Some(Empty)),
  Field("renewers", Array(Of(CreatableRenewers)), Empty),
  Field("max_lifetime_ms", Int64, Long(0))>>)

\* create_delegation_token_response.rs
CreateDelegationTokenResponse == Struct(1..3, 2..3, <<
  Field("error_code", Int16, 0),
  Field("principal_type", Str, Empty),
  Field("principal_name", Str, Empty),
  StrictIn({3}, "token_requester_principal_type", Str, Empty),
  StrictIn({3}, "token_requester_principal_name", Str, Empty),
  Field("issue_timestamp_ms", Int64, Long(0)),
  Field("expiry_timestamp_ms", Int64, Long(0)),
  Field("max_timestamp_ms", Int64, Long(0)),
  Field("token_id", Str, Empty),
  Field("hmac", Bytes, Empty),
  Field("throttle_time_ms", Int32, 0)>>)

\* default_principal_data.rs
DefaultPrincipalData == Struct({0}, {0}, <<
  Field("_type", Str, Empty),
  Field("name", Str, Empty),
  Field("token_authenticated", Boolean, FALSE)>>)

\* delete_acls_request.rs
DeleteAclsFilter == Struct(1..3, 2..3, <<
  Field("resource_type_filter", Int8, 0),
  Field("resource_name_filter", Opt(Str), Some(Empty)),
  Field("pattern_type_filter", Int8, 3),
  Field("principal_filter", Opt(Str), Some(Empty)),
  Field("host_filter", Opt(Str), Some(Empty)),
  Field("operation", Int8, 0),
  Field("permission_type", Int8, 0)>>)
DeleteAclsRequest == Struct(1..3, 2..3, <<
  Field("filters", Array(Of(DeleteAclsFilter)), Empty)>>)

\* delete_acls_response.rs
DeleteAclsMatchingAcl == Struct(1..3, 2..3, <<
  Field("error_code", Int16, 0),
  Field("error_message", Opt(Str), Some(Empty)),
  Field("resource_type", Int8, 0),
  Field("resource_name", Str, Empty),
  Field("pattern_type", Int8, 3),
  Field("principal", Str, Empty),
  Field("host", Str, Empty),
  Field("operation", Int8, 0),
  Field("permission_type", Int8, 0)>>)
DeleteAclsFilterResult == Struct(1..3, 2..3, <<
  Field("error_code", Int16, 0),
  Field("error_message", Opt(Str), Some(Empty)),
  Field("matching_acls", Array(Of(DeleteAclsMatchingAcl)), Empty)>>)
DeleteAclsResponse == Struct(1..3, 2..3, <<
  Field("throttle_time_ms", Int32, 0),
  Field("filter_results", Array(Of(DeleteAclsFilterResult)), Empty)>>)

\* describe_acls_request.rs
DescribeAclsRequest == Struct(1..3, 2..3, <<
  Field("resource_type_filter", Int8, 0),
  Field("resource_name_filter", Opt(Str), Some(Empty)),
  Field("pattern_type_filter", Int8, 3),
  Field("principal_filter", Opt(Str), Some(Empty)),
  Field("host_filter", Opt(Str), Some(Empty)),
  Field("operation", Int8, 0),
  Field("permission_type", Int8, 0)>>)

\* describe_acls_response.rs
AclDescription == Struct(1..3, 2..3, <<
  Field("principal", Str, Empty),
  Field("host", Str, Empty),
  Field("operation", Int8, 0),
  Field("permission_type", Int8, 0)>>)
DescribeAclsResource == Struct(1..3, 2..3, <<
  Field("resource_type", Int8, 0),
  Field("resource_name", Str, Empty),
  Field("pattern_type", Int8, 3),
  Field("acls", Array(Of(AclDescription)), Empty)>>)
DescribeAclsResponse == Struct(1..3, 2..3, <<
  Field("throttle_time_ms", Int32, 0),
  Field("error_code", Int16, 0),
  Field("error_message", Opt(Str), Some(Empty)),
  Field("resources", Array(Of(DescribeAclsResource)), Empty)>>)

\* describe_client_quotas_request.rs
ComponentData == Struct(0..1, {1}, <<
  Field("entity_type", Str, Empty),
  Field("match_type", Int8, 0),
  Field("_match", Opt(Str), Some(Empty))>>)
DescribeClientQuotasRequest == Struct(0..1, {1}, <<
  Field("components", Array(Of(ComponentData)), Empty),
  Field("strict", Boolean, FALSE)>>)

\* describe_client_quotas_response.rs
DescribeClientQuotasResponseEntityData == Struct(0..1, {1}, <<
  Field("entity_type", Str, Empty),
  Field("entity_name", Opt(Str), Some(Empty))>>)
ValueData == Struct(0..1, {1}, <<Field("key", Str, Empty), Field("value", Float64, Long(0))>>)
DescribeClientQuotasResponseEntryData == Struct(0..1, {1}, <<
  Field("entity", Array(Of(DescribeClientQuotasResponseEntityData)), Empty),
  Field("values", Array(Of(ValueData)), Empty)>>)
DescribeClientQuotasResponse == Struct(0..1, {1}, <<
  Field("throttle_time_ms", Int32, 0),
  Field("error_code", Int16, 0),
  Field("error_message", Opt(Str), Some(Empty)),
  Field("entries", Opt(Array(Of(DescribeClientQuotasResponseEntryData))), Some(Empty))>>)

\* describe_configs_request.rs
DescribeConfigsResource == Struct(1..4, {4}, <<
  Field("resource_type", Int8, 0),
  Field("resource_name", Str, Empty),
  Field("configuration_keys", Opt(Array(Str)), Some(Empty))>>)
DescribeConfigsRequest == Struct(1..4, {4}, <<
  Field("resources", Array(Of(DescribeConfigsResource)), Empty),
  Field("include_synonyms", Boolean, FALSE),
  StrictIn(3..4, "include_documentation", Boolean, FALSE)>>)

\* describe_configs_response.rs
DescribeConfigsSynonym == Struct(1..4, {4}, <<
  Field("name", Str, Empty),
  Field("value", Opt(Str), Some(Empty)),
  Field("source", Int8, 0)>>)
DescribeConfigsResourceResult == Struct(1..4, {4}, <<
  Field("name", Str, Empty),
  Field("value", Opt(Str), Some(Empty)),
  Field("read_only", Boolean, FALSE),
  Field("config_source", Int8, -1),
  Field("is_sensitive", Boolean, FALSE),
  Field("synonyms", Array(Of(DescribeConfigsSynonym)), Empty),
  FieldIn(3..4, "config_type", Int8, 0),
  FieldIn(3..4, "documentation", Opt(Str), Some(Empty))>>)
DescribeConfigsResult == Struct(1..4, {4}, <<
  Field("error_code", Int16, 0),
  Field("error_message", Opt(Str), Some(Empty)),
  Field("resource_type", Int8, 0),
  Field("resource_name", Str, Empty),
  Field("configs", Array(Of(DescribeConfigsResourceResult)), Empty)>>)
DescribeConfigsResponse == Struct(1..4, {4}, <<
  Field("throttle_time_ms", Int32, 0),
  Field("results", Array(Of(DescribeConfigsResult)), Empty)>>)

\* describe_delegation_token_request.rs
DescribeDelegationTokenOwner == Struct(1..3, 2..3, <<
  Field("principal_type", Str, Empty),
  Field("principal_name", Str, Empty)>>)
DescribeDelegationTokenRequest == Struct(1..3, 2..3, <<
  Field("owners", Opt(Array(Of(DescribeDelegationTokenOwner))), Some(Empty))>>)

\* describe_delegation_token_response.rs
DescribedDelegationTokenRenewer == Struct(1..3, 2..3, <<
  Field("principal_type", Str, Empty),
  Field("principal_name", Str, Empty)>>)
DescribedDelegationToken == Struct(1..3, 2..3, <<
  Field("principal_type", Str, Empty),
  Field("principal_name", Str, Empty),
  StrictIn({3}, "token_requester_principal_type", Str, Empty),
  StrictIn({3}, "token_requester_principal_name", Str, Empty),
  Field("issue_timestamp", Int64, Long(0)),
  Field("expiry_timestamp", Int64, Long(0)),
  Field("max_timestamp", Int64, Long(0)),
  Field("token_id", Str, Empty),
  Field("hmac", Bytes, Empty),
  Field("renewers", Array(Of(DescribedDelegationTokenRenewer)), Empty)>>)
DescribeDelegationTokenResponse == Struct(1..3, 2..3, <<
  Field("error_code", Int16, 0),
  Field("tokens", Array(Of(DescribedDelegationToken)), Empty),
  Field("throttle_time_ms", Int32, 0)>>)

\* describe_user_scram_credentials_request.rs
UserName == Struct({0}, {0}, <<Field("name", Str, Empty)>>)
DescribeUserScramCredentialsRequest == Struct({0}, {0}, <<
  Field("users", Opt(Array(Of(UserName))), Some(Empty))>>)

\* describe_user_scram_credentials_response.rs
CredentialInfo == Struct({0}, {0}, <<
  Field("mechanism", Int8, 0),
  Field("iterations", Int32, 0)>>)
DescribeUserScramCredentialsResult == Struct({0}, {0}, <<
  Field("user", Str, Empty),
  Field("error_code", Int16, 0),
  Field("error_message", Opt(Str), Some(Empty)),
  Field("credential_infos", Array(Of(CredentialInfo)), Empty)>>)
DescribeUserScramCredentialsResponse == Struct({0}, {0}, <<
  Field("throttle_time_ms", Int32, 0),
  Field("error_code", Int16, 0),
  Field("error_message", Opt(Str), Some(Empty)),
  Field("results", Array(Of(DescribeUserScramCredentialsResult)), Empty)>>)

\* expire_delegation_token_request.rs
ExpireDelegationTokenRequest == Struct(1..2, {2}, <<
  Field("hmac", Bytes, Empty),
  Field("expiry_time_period_ms", Int64, Long(0))>>)

\* expire_delegation_token_response.rs
ExpireDelegationTokenResponse == Struct(1..2, {2}, <<
  Field("error_code", Int16, 0),
  Field("expiry_timestamp_ms", Int64, Long(0)),
  Field("throttle_time_ms", Int32, 0)>>)

\* incremental_alter_configs_request.rs
IncrementalAlterConfigsRequestAlterableConfig == Struct(0..1, {1}, <<
  Field("name", Str, Empty),
  Field("config_operation", Int8, 0),
  Field("value", Opt(Str), Some(Empty))>>)
IncrementalAlterConfigsRequestAlterConfigsResource == Struct(0..1, {1}, <<
  Field("resource_type", Int8, 0),
  Field("resource_name", Str, Empty),
  Field("configs", Array(Of(IncrementalAlterConfigsRequestAlterableConfig)), Empty)>>)
IncrementalAlterConfigsRequest == Struct(0..1, {1}, <<
  Field("resources", Array(Of(IncrementalAlterConfigsRequestAlterConfigsResource)), Empty),
  Field("validate_only", Boolean, FALSE)>>)

\* incremental_alter_configs_response.rs
IncrementalAlterConfigsResponseAlterConfigsResourceResponse == Struct(0..1, {1}, <<
  Field("error_code", Int16, 0),
  Field("error_message", Opt(Str), Some(Empty)),
  Field("resource_type", Int8, 0),
  Field("resource_name", Str, Empty)>>)
IncrementalAlterConfigsResponse == Struct(0..1, {1}, <<
  Field("throttle_time_ms", Int32, 0),
  Field("responses", Array(Of(IncrementalAlterConfigsResponseAlterConfigsResourceResponse)),
      Empty)>>)

\* list_config_resources_request.rs
ListConfigResourcesRequest == Struct(0..1, 0..1, <<
  StrictIn({1}, "resource_types", Array(Int8), Empty)>>)

\* list_config_resources_response.rs
ConfigResource == Struct(0..1, 0..1, <<
  Field("resource_name", Str, Empty),
  FieldIn({1}, "resource_type", Int8, 16)>>)
ListConfigResourcesResponse == Struct(0..1, 0..1, <<
  Field("throttle_time_ms", Int32, 0),
  Field("error_code", Int16, 0),
  Field("config_resources", Array(Of(ConfigResource)), Empty)>>)

\* renew_delegation_token_request.rs
RenewDelegationTokenRequest == Struct(1..2, {2}, <<
  Field("hmac", Bytes, Empty),
  Field("renew_period_ms", Int64, Long(0))>>)

\* renew_delegation_token_response.rs
RenewDelegationTokenResponse == Struct(1..2, {2}, <<
  Field("error_code", Int16, 0),
  Field("expiry_timestamp_ms", Int64, Long(0)),
  Field("throttle_time_ms", Int32, 0)>>)

\* sasl_authenticate_request.rs
SaslAuthenticateRequest == Struct(0..2, {2}, <<Field("auth_bytes", Bytes, Empty)>>)

\* sasl_authenticate_response.rs
SaslAuthenticateResponse == Struct(0..2, {2}, <<
  Field("error_code", Int16, 0),
  Field("error_message", Opt(Str), Some(Empty)),
  Field("auth_bytes", Bytes, Empty),
  FieldIn(1..2, "session_lifetime_ms", Int64, Long(0))>>)

\* sasl_handshake_request.rs
SaslHandshakeRequest == Struct(0..1, {}, <<Field("mechanism", Str, Empty)>>)

\* sasl_handshake_response.rs
SaslHandshakeResponse == Struct(0..1, {}, <<
  Field("error_code", Int16, 0),
  Field("mechanisms", Array(Str), Empty)>>)

=============================================================================
