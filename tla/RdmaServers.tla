---------------------------- MODULE RdmaServers ----------------------------
(* The servers of a deployment, as RDMA_Device and rdma_lib number them.   *)
EXTENDS Integers

CONSTANT NumServers  \* Global::num_servers, nnodes

Servers == 0 .. NumServers - 1
=============================================================================
