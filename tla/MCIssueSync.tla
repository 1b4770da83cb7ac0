----------------------------- MODULE MCIssueSync -----------------------------
EXTENDS IssueSync
=============================================================================
