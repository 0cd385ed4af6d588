------------------------- MODULE MCDatabaseObjects -------------------------
EXTENDS DatabaseObjects
=============================================================================
