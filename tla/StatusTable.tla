----------------------------- MODULE StatusTable -----------------------------
(***************************************************************************)
(* The propositions of conman (class P of src/conman/status.py), the table *)
(* IMPLICATIONS that relates them, and the assignments to status           *)
(* attributes that the rest of conman makes.                               *)
(***************************************************************************)

\* The steps of the provisioning ratchet that are waits.
ProvisioningWaits ==
  {"WAITING_FOR_DHCP", "ACS_CONNECTION_CHECK", "WAITING_FOR_CWMP_WAKEUP",
   "WAITING_FOR_ACS_SESSION"}

P ==
  {"TRYING_OPEN", "TRYING_WLAN", "WLAN_FAILED", "CONNECTED_TO_OPEN",
   "CONNECTED_TO_WLAN", "HAVE_CONFIG", "HAVE_WORKING_CONFIG",
   "CAN_REACH_ACS", "COULD_REACH_ACS", "CAN_REACH_INTERNET",
   "PROVISIONING_FAILED", "WAITING_FOR_PROVISIONING",
   "PROVISIONING_COMPLETED"} \cup ProvisioningWaits

\* First column of IMPLICATIONS.
IMPLICATIONS ==
  [p \in P |->
     CASE p = "CONNECTED_TO_WLAN"        -> {"HAVE_WORKING_CONFIG"}
       [] p = "CAN_REACH_ACS"            -> {"COULD_REACH_ACS"}
       [] p = "HAVE_WORKING_CONFIG"      -> {"HAVE_CONFIG"}
       [] p = "WAITING_FOR_PROVISIONING" -> {"CONNECTED_TO_OPEN"}
       [] p \in ProvisioningWaits        -> {"WAITING_FOR_PROVISIONING"}
       [] OTHER                          -> {}]

\* Second column of IMPLICATIONS.
COUNTER_IMPLICATIONS ==
  [p \in P |->
     CASE p = "TRYING_OPEN" ->
            {"CONNECTED_TO_OPEN", "TRYING_WLAN", "CONNECTED_TO_WLAN",
             "WAITING_FOR_PROVISIONING"}
       [] p = "TRYING_WLAN" ->
            {"TRYING_OPEN", "CONNECTED_TO_OPEN", "CONNECTED_TO_WLAN",
             "WAITING_FOR_PROVISIONING"}
       [] p = "WLAN_FAILED" -> {"TRYING_WLAN", "CONNECTED_TO_WLAN"}
       [] p = "CONNECTED_TO_OPEN" ->
            {"CONNECTED_TO_WLAN", "TRYING_OPEN", "TRYING_WLAN"}
       [] p = "CONNECTED_TO_WLAN" ->
            {"CONNECTED_TO_OPEN", "TRYING_OPEN", "TRYING_WLAN",
             "WAITING_FOR_PROVISIONING"}
       [] p = "CAN_REACH_ACS" -> {"TRYING_OPEN", "TRYING_WLAN"}
       [] p = "PROVISIONING_FAILED" ->
            {"WAITING_FOR_PROVISIONING", "PROVISIONING_COMPLETED"}
       [] p = "PROVISIONING_COMPLETED" ->
            {"WAITING_FOR_PROVISIONING", "PROVISIONING_FAILED"}
       [] p = "WAITING_FOR_DHCP" ->
            {"WAITING_FOR_CWMP_WAKEUP", "WAITING_FOR_ACS_SESSION"}
       [] p \in ProvisioningWaits \ {"WAITING_FOR_DHCP"} ->
            ProvisioningWaits \ {p}
       [] OTHER -> {}]

\* The propositions that conman assigns both ways, and the ones it only sets;
\* the others change only as consequences.
SetAndCleared ==
  {"TRYING_OPEN", "CONNECTED_TO_OPEN", "CONNECTED_TO_WLAN", "HAVE_CONFIG",
   "CAN_REACH_ACS", "CAN_REACH_INTERNET"} \cup ProvisioningWaits

OnlySet ==
  {"TRYING_WLAN", "WLAN_FAILED", "PROVISIONING_FAILED",
   "PROVISIONING_COMPLETED"}

ConmanCalls == (SetAndCleared \X {"True", "False"}) \cup (OnlySet \X {"True"})
=============================================================================
