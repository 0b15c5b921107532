---------------------------- MODULE MCFileStore ----------------------------
EXTENDS FileStore

MCFaultSets == {{}, {"save"}, {"delete"}}
=============================================================================
