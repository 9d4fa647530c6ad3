----------------------- MODULE MCCandidatePublication -----------------------
\* The publication with its bounds on failures and meddling set by the cfg.
EXTENDS CandidatePublication

=============================================================================
