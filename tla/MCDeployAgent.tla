---------------------------- MODULE MCDeployAgent ----------------------------
EXTENDS DeployAgent
CONSTANTS j1, j2
=============================================================================
