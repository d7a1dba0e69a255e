---------------------------- MODULE MCHashStore -----------------------------
(* Records of two fields.                                                  *)
EXTENDS HashStore
MCFields == <<"field0", "field1">>
=============================================================================
