---------------------------- MODULE MCBulkUpload ----------------------------
EXTENDS BulkUpload
=============================================================================
