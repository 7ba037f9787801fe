--------------------------- MODULE MCTransferWorker ---------------------------
EXTENDS TransferWorker
================================================================================
