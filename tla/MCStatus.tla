------------------------------ MODULE MCStatus ------------------------------
(* Status with the propositions and the table of conman, for TLC. *)
EXTENDS Status, StatusTable

\* No assignment of conman contradicts itself along its table, which the proofs
\* about the outcome of an assignment assume.
ASSUME ConmanCoherent == Abstract!Coherent

\* The assignments of conman without the proposition that is related to no other,
\* two of the four waits, which exclude one another in the same way, and one of
\* the two outcomes of provisioning, which mirror each other; and without the
\* assignments of False to propositions that become false as consequences, too.
RelatedCalls ==
  {pv \in ConmanCalls :
     pv[1] \notin {"CAN_REACH_INTERNET", "ACS_CONNECTION_CHECK",
                   "WAITING_FOR_ACS_SESSION", "PROVISIONING_FAILED"}}
  \ (({"CAN_REACH_ACS", "TRYING_OPEN"} \cup ProvisioningWaits) \X {"False"})

\* Assignments for the run with two interfaces that is restarted and killed.
FewCalls ==
  {<<"TRYING_WLAN", "True">>, <<"CONNECTED_TO_WLAN", "True">>,
   <<"CONNECTED_TO_WLAN", "False">>, <<"HAVE_CONFIG", "False">>}
=============================================================================
