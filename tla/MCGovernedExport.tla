-------------------------- MODULE MCGovernedExport --------------------------
\* Small instances of GovernedExport.
EXTENDS GovernedExport

=============================================================================
