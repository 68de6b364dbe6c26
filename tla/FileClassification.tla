------------------------- MODULE FileClassification -------------------------
(***************************************************************************)
(* What the scan learns of a file from its path alone: the category flags  *)
(* (scanners/file_classifier.py) and the banking domains they stand for    *)
(* (scanners/domain_mapper.py).  A path is the set of keywords in it.      *)
(***************************************************************************)
EXTENDS Naturals

\* The domains that a flag or a word of terminology stands for, the flags
\* with the keywords that set them.
FlagKeywords ==
  [database_schema_or_migration |->
     {"migration", "schema", "alembic", "flyway", "liquibase", "ddl"},
   api_definition |->
     {"openapi", "swagger", "api_spec", "routes", "endpoints", ".proto"},
   auth_config |->
     {"auth", "oauth", "oidc", "saml", "jwt", "login", "credential"},
   logging_config |-> {"logging", "logger", "log4j", "logback"},
   monitoring_config |->
     {"prometheus", "grafana", "monitoring", "metrics", "alertmanager"},
   audit_related |-> {"audit", "compliance_log", "activity_log"},
   payment_related |->
     {"payment", "settlement", "transfer", "wire", "ach", "swift",
      "card_processing"},
   account_related |-> {"account", "ledger", "balance", "statement"},
   credit_lending_related |->
     {"credit", "loan", "lending", "underwriting", "collections"},
   investment_related |->
     {"investment", "portfolio", "trading", "trade", "brokerage", "securities"},
   customer_identity_related |->
     {"customer", "kyc", "identity", "onboarding", "profile"},
   data_governance_related |->
     {"retention", "classification", "governance", "data_policy"},
   security_controls |->
     {"security", "iam", "rbac", "acl", "permission", "encryption", "tls"},
   is_infrastructure_as_code |->
     {"terraform", ".tf", "kubernetes", "k8s", "helm", "ansible",
      "cloudformation"},
   is_deployment_or_environment |->
     {"dockerfile", "docker-compose", ".github/workflows", "deployment",
      "deploy/", "ci/", "cd/"}]

FlagDomain ==
  [payment_related |-> "payments",
   account_related |-> "core_banking",
   credit_lending_related |-> "credit_lending",
   investment_related |-> "investments_trading",
   customer_identity_related |-> "onboarding_identity_access",
   auth_config |-> "onboarding_identity_access",
   audit_related |-> "human_approval_auditability",
   logging_config |-> "monitoring_observability",
   monitoring_config |-> "monitoring_observability",
   data_governance_related |-> "privacy_data_protection",
   security_controls |-> "application_security",
   database_schema_or_migration |-> "database_controls_sod",
   api_definition |-> "infrastructure_api_security",
   is_infrastructure_as_code |-> "infrastructure_api_security",
   is_deployment_or_environment |-> "change_management"]

TerminologyDomain ==
  [fraud |-> "fraud_controls", aml |-> "fraud_controls",
   sanctions |-> "fraud_controls",
   reconcil |-> "transaction_processing_reporting",
   ledger |-> "transaction_processing_reporting",
   disaster_recovery |-> "business_continuity_dr",
   backup |-> "business_continuity_dr", failover |-> "business_continuity_dr",
   model_governance |-> "model_ai_governance",
   ml_model |-> "model_ai_governance"]

SecretLikeWords == {"secret", "credential", "password", "key", "token"}

CategoryFlags(words) ==
  {flag \in DOMAIN FlagKeywords : FlagKeywords[flag] \cap words # {}}

\* map_file_to_domains: a domain is mapped once, whatever stands for it.
MapFileToDomains(words) ==
  {FlagDomain[flag] : flag \in CategoryFlags(words)}
    \cup {TerminologyDomain[word] : word \in words \cap DOMAIN TerminologyDomain}

LooksSensitiveByName(words) == words \cap SecretLikeWords # {}
=============================================================================
