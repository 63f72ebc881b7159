------------------------------ MODULE MCFrontend ------------------------------
(* What the pages of Frontend show in the runs of TLC.                     *)
EXTENDS Frontend, TLC

\* The submissions of the form differ in nothing.
FormSymmetry == Permutations(FormSlots)

-----------------------------------------------------------------------------
\* Two misconfigurations of different severity, one of which has a passed
\* alert, an attack path without alerts, and a vulnerability.
MCRuleCategory == [s3 |-> "misconfiguration", mfa |-> "misconfiguration",
                   path |-> "attackpath", cve |-> "vulnerability"]
MCRuleSeverity == [s3 |-> "High", mfa |-> "Critical", path |-> "Low", cve |-> "Moderate"]
MCRuleRisks == [s3 |-> {"Vulnerability"}, mfa |-> {}, path |-> {}, cve |-> {"Vulnerability"}]
MCRuleWords == [s3 |-> {"bucket"}, mfa |-> {"user"}, path |-> {"user"}, cve |-> {}]

\* The page of rules has an empty tab, that of attack paths.
MCRulesListed == <<"s3", "mfa", "cve">>

MCAlertedRules == <<"s3", "mfa", "path", "cve">>
MCRuleOfAlert == [bucket1 |-> "s3", bucket2 |-> "s3", root |-> "mfa", vm |-> "cve"]
MCAccountOfAlert == [bucket1 |-> "111", bucket2 |-> "222", root |-> "111", vm |-> "111"]
MCStatusOfAlert == [bucket1 |-> "failed", bucket2 |-> "passed", root |-> "failed", vm |-> "failed"]

\* Alerts in two categories that an address may name.
MCPageCategoryOf ==
    [bucket |-> "misconfiguration", user |-> "misconfiguration", path |-> "attackpath"]

\* Two radio buttons, one, and the bucket's own.
MCExploreCategory == [user |-> "iamUsers", vm |-> "ec2Instances", bucket |-> "s3Buckets"]

\* A framework with an empty control and a rule in two controls; with another
\* group, and beside a framework of one rule.
OneFramework == [cis |-> << << <<"mfa">>, <<>>, <<"logs", "mfa">> >> >>]
TwoFrameworks == [cis |-> << << <<"mfa">>, <<>> >>, << <<"mfa", "logs">> >> >>,
                  pci |-> << << <<"logs">> >> >>]

-----------------------------------------------------------------------------
\* One or two assets in each category of the inventory, linked to each other;
\* no name is part of another.  Fields that only texts read are left out.  A
\* database that is being made has no endpoint yet, and the instance a key pair.
Alice == [arn |-> {"alice"}, account_id |-> {"acc"}, iam_groups |-> {"admins"},
          iam_policies |-> {"readall"}, iam_roles |-> {"reader"}, access_keys |-> {"key"}]
Bob == [arn |-> {"bob"}, account_id |-> {"acc"}, iam_groups |-> {},
        iam_policies |-> {}, iam_roles |-> {}, access_keys |-> {}]
Admins == [arn |-> {"admins"}, account_id |-> {"acc"}, iam_users |-> {"alice"},
           iam_roles |-> {}, iam_policies |-> {"readall"}]
Reader == [arn |-> {"reader"}, account_id |-> {"acc"}, iam_roles |-> {"writer"},
           iam_policies |-> {"readall"}, trusted_principals |-> {"alice"}]
Writer == [arn |-> {"writer"}, account_id |-> {"acc"}, iam_roles |-> {},
           iam_policies |-> {}, trusted_principals |-> {}]
ReadAll == [id |-> {"readall"}, account_id |-> {"acc"}, name |-> {"all"},
            iam_users |-> {"alice"}, iam_groups |-> {"admins"}, iam_roles |-> {"reader"}]
Machine(roles, keys) ==
    [instance_id |-> {"vm"}, account_id |-> {"acc"}, iam_roles |-> roles,
     key_pairs |-> keys, vpc |-> {"net"}]
Net == [id |-> {"net"}, account_id |-> {"acc"}, subnet_ids |-> {"sub"}]

AllAssets ==
    [iamUsers |-> {Alice, Bob}, iamGroups |-> {Admins}, iamRoles |-> {Reader, Writer},
     iamPolicies |-> {ReadAll}, vpcs |-> {Net},
     ec2Instances |-> {Machine({"reader"}, {"pair"})},
     lambdaFunctions |-> {[arn |-> {"fn"}, account_id |-> {"acc"}, name |-> {"f"},
                           iam_roles |-> {"reader"}]},
     s3Buckets |-> {[name |-> {"bucket"}, account_id |-> {"acc"}]},
     rdsInstances |-> {[arn |-> {"db"}, account_id |-> {"acc"}, user_identifier |-> {"base"},
                        endpoint_address |-> {"host"}, endpoint_port |-> {"5432"}],
                       [arn |-> {"new"}, account_id |-> {"acc"}, user_identifier |-> {"made"}]},
     internetGateways |-> {[arn |-> {"gate"}, account_id |-> {"acc"}, vpc |-> {"net"}]},
     securityGroups |-> {[id |-> {"sg"}, account_id |-> {"acc"}, name |-> {"open"},
                          vpc |-> {}]},
     elasticLoadBalancersV2 |-> {[dns_name |-> {"lb"}, account_id |-> {"acc"},
                                  name |-> {"front"}]},
     kmsKeys |-> {[id |-> {"kms"}, account_id |-> {"acc"}]}]

\* Five of the categories, with an instance that has a key pair but no role.
SomeAssets == [c \in {"iamUsers", "iamGroups", "iamRoles", "vpcs"} |-> AllAssets[c]]
    @@ [ec2Instances |-> {Machine({}, {"pair"})}]
=============================================================================
