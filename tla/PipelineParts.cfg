SPECIFICATION PipelinesSpec
CONSTANTS
    EnrichSetting <- EnrichValues
    PaidSetting <- PaidValues
    BuildSetting <- BuildValues
    AuditSetting <- AuditValues
    CatalogSetting <- CatalogValues
    SchemaSetting <- SchemaValues
INVARIANTS ExtractionIsSound EnrichmentIsSound BriefIsSound ReportIsSound PulseRunIsSound PulseEventsAreSound StoresAreSound
PROPERTY AskedOnce
CHECK_DEADLOCK FALSE
