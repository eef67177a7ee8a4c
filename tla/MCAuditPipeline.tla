-------------------------- MODULE MCAuditPipeline --------------------------
EXTENDS AuditPipeline, TLC
=============================================================================
