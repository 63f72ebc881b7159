---------------------------- MODULE AssetClasses ----------------------------
(***************************************************************************)
(* What the asset inventory knows of the assets: one class per category,   *)
(* with its columns (Components/AssetsInventory), and the sidebar.         *)
(***************************************************************************)
\* The classes: columns with the fields whose value is searched, those
\* dereferenced when the rows are built and when they are drawn, and the
\* field listed, if `when' is not null, with links to category `to'.

Text(key, field) ==
    [key |-> key, value |-> {field}, built |-> {}, drawn |-> {},
     when |-> "", lists |-> "", to |-> ""]
Arn == [Text("arn", "arn") EXCEPT !.built = {"arn"}]
Name(key, field, value) ==
    [Text(key, field) EXCEPT !.drawn = {field}, !.value = value]
List(field, to) ==
    [Text(field, field) EXCEPT !.when = field, !.lists = field, !.to = to]
Headers(n, keys) == [css |-> n, keys |-> keys]

IAMUsersHeader == Headers(7, <<"arn", "create_date", "password_last_used",
    "iam_groups", "iam_policies", "iam_roles", "access_keys">>)
IAMUsers == <<Arn, Text("create_date", "create_date"),
    Text("password_last_used", "password_last_used"),
    List("iam_groups", "iamGroups"), List("iam_policies", "iamPolicies"),
    List("iam_roles", "iamRoles"), List("access_keys", "")>>

IAMGroupsHeader == Headers(5, <<"arn", "create_date", "iam_users",
    "iam_roles", "iam_policies">>)
\* Mutant: the users of a group link to the roles.
GroupsToRoles == <<Arn, Text("create_date", "create_date"),
    List("iam_users", "iamRoles"), List("iam_roles", "iamRoles"),
    List("iam_policies", "iamPolicies")>>
IAMGroups == <<Arn, Text("create_date", "create_date"),
    List("iam_users", "iamUsers"), List("iam_roles", "iamRoles"),
    List("iam_policies", "iamPolicies")>>

IAMRolesHeader == Headers(5, <<"arn", "create_date", "iam_roles",
    "iam_policies", "trusted_principals">>)
IAMRoles == <<Arn, Text("create_date", "create_date"),
    List("iam_roles", "iamRoles"), List("iam_policies", "iamPolicies"),
    List("trusted_principals", "")>>

IAMPoliciesHeader == Headers(5, <<"id", "policy_type", "iam_users",
    "iam_groups", "iam_roles">>)
IAMPolicies == <<Name("id", "name", {"id"}),
    Text("policy_type", "policy_type"), List("iam_users", "iamUsers"),
    List("iam_groups", "iamGroups"), List("iam_roles", "iamRoles")>>

EC2Header == Headers(8, <<"instance_id", "launch_time", "state",
    "publicly_exposed", "iam_roles", "key_pairs", "vpc", "region">>)
\* The list under key pairs is that of the roles.
EC2Instance == <<Name("instance_id", "instance_id", {"instance_id", "account_id"}),
    Text("launch_time", "launch_time"), Text("state", "state"),
    Text("publicly_exposed", "publicly_exposed"), List("iam_roles", "iamRoles"),
    [List("key_pairs", "kmsKeys") EXCEPT !.lists = "iam_roles"],
    List("vpc", "vpcs"), Text("region", "region")>>

LambdaFnHeader == Headers(5, <<"arn", "modified_date", "state", "runtime",
    "iam_roles">>)
LambdaFunction == <<Name("arn", "name", {"name", "account_id"}),
    Text("modified_date", "modified_date"), Text("state", "state"),
    Text("runtime", "runtime"), List("iam_roles", "iamRoles")>>

S3BucketHeader == Headers(5, <<"arn", "region", "default_encryption",
    "versioning_status", "mfa_delete">>)
S3Bucket == <<Name("arn", "name", {"name", "account_id"}),
    Text("region", "region"), Text("default_encryption", "default_encryption"),
    Text("versioning_status", "versioning_status"), Text("mfa_delete", "mfa_delete")>>

RDSInstanceHeader == Headers(8, <<"arn", "availability_zone",
    "endpoint_address", "endpoint_port", "engine", "create_date",
    "publicly_accessible", "storage_encrypted">>)
RDSInstance == <<Name("arn", "user_identifier", {"arn"}),
    Text("availability_zone", "availability_zone"),
    Name("endpoint_address", "endpoint_address", {"endpoint_address"}),
    [Text("endpoint_port", "endpoint_port") EXCEPT !.built = {"endpoint_port"}],
    Text("engine", "engine"), Text("create_date", "create_time"),
    Text("publicly_accessible", "publicly_accessible"),
    Text("storage_encrypted", "storage_encrypted")>>

VPCHeader == Headers(6, <<"arn", "primary_cidr_block", "state", "is_default",
    "region", "subnet_ids">>)
VPC == <<Name("arn", "id", {"id", "account_id"}),
    Text("primary_cidr_block", "primary_cidr_block"), Text("state", "state"),
    Text("is_default", "is_default"), Text("region", "region"),
    List("subnet_ids", "")>>

SecurityGroupHeader == Headers(4, <<"arn", "name", "vpc", "region">>)
SecurityGroup == <<Name("arn", "id", {"id", "account_id"}),
    Name("name", "name", {"name"}), List("vpc", "vpcs"), Text("region", "region")>>

InternetGatewayHeader == Headers(3, <<"arn", "vpc", "region">>)
InternetGateway == <<Arn, List("vpc", "vpcs"), Text("region", "region")>>

ELBV2Header == Headers(5, <<"arn", "scheme", "publicly_exposed",
    "create_date", "region">>)
ELBV2 == <<Name("arn", "dns_name", {"dns_name", "account_id"}),
    Text("scheme", "scheme"), Text("publicly_exposed", "publicly_exposed"),
    Text("create_date", "created_time"), Text("region", "region")>>

KmsKeyHeader == Headers(3, <<"arn", "creation_date", "enabled">>)
KMSKey == <<Name("arn", "id", {"id", "account_id"}),
    Text("creation_date", "creation_date"), Text("enabled", "enabled")>>

Class(header, columns) == [header |-> header, columns |-> columns]

assetToObjects == [
    iamRoles |-> Class(IAMRolesHeader, IAMRoles),
    iamUsers |-> Class(IAMUsersHeader, IAMUsers),
    iamPolicies |-> Class(IAMPoliciesHeader, IAMPolicies),
    iamGroups |-> Class(IAMGroupsHeader, IAMGroups),
    ec2Instances |-> Class(EC2Header, EC2Instance),
    lambdaFunctions |-> Class(LambdaFnHeader, LambdaFunction),
    s3Buckets |-> Class(S3BucketHeader, S3Bucket),
    vpcs |-> Class(VPCHeader, VPC),
    internetGateways |-> Class(InternetGatewayHeader, InternetGateway),
    securityGroups |-> Class(SecurityGroupHeader, SecurityGroup),
    elasticLoadBalancersV2 |-> Class(ELBV2Header, ELBV2),
    kmsKeys |-> Class(KmsKeyHeader, KMSKey),
    rdsInstances |-> Class(RDSInstanceHeader, RDSInstance)]

Categories == DOMAIN assetToObjects

navigation == <<
    [name |-> "IAM", children |-> <<"iamGroups", "iamPolicies", "iamRoles", "iamUsers">>],
    [name |-> "Compute", children |-> <<"ec2Instances", "lambdaFunctions">>],
    [name |-> "Storage", children |-> <<"s3Buckets", "rdsInstances">>],
    [name |-> "Network", children |->
        <<"vpcs", "internetGateways", "securityGroups", "elasticLoadBalancersV2">>],
    [name |-> "Security", children |-> <<"kmsKeys">>]>>
=============================================================================
