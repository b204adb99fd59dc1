----------------------------- MODULE MCPdcServer -----------------------------
(* Small instances of PdcServer.                                            *)
EXTENDS PdcServer

Plan(omit, ids) == [omit_data |-> omit, disconnect_pdc_connection_ids |-> ids]

(* The controller may omit a sample, disconnect the first connection, or    *)
(* plan nothing.                                                            *)
MCFramePlans == {Plan(FALSE, {}), Plan(TRUE, {}), Plan(FALSE, {1})}
QuietPlans == {Plan(FALSE, {})}
=============================================================================
