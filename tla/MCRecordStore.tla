--------------------------- MODULE MCRecordStore ---------------------------
(* The record store with the operations of the real data access objects.    *)
EXTENDS RecordStore

MCOperations == [e \in DOMAIN DaoOf |-> OperationsOn(e)]
=============================================================================
