----------------------------- MODULE Interface -----------------------------
(***************************************************************************)
(* One network interface of conman (src/conman/interface.py): its links,   *)
(* its gateway and subnet, the cached results of the connection checks,    *)
(* and the routes that it keeps in the kernel's table.  IsBridge chooses   *)
(* between Bridge, whose prioritize_routes and delete_route also keep the  *)
(* autoprovisioning file, and Wifi.                                        *)
(*                                                                         *)
(* The methods call each other and run `ip route` many times; each command *)
(* is a step here, and the process can be killed between any two.  pc is   *)
(* what remains to be done once the commands in dels and adds have run.    *)
(*                                                                         *)
(* A listing of the routes that fails reads as an empty table.  When it is *)
(* the one that tells delete_route whether a route is left, routes stay    *)
(* behind and add_routes adds others beside them.                          *)
(***************************************************************************)
EXTENDS Integers

CONSTANTS
  IsBridge,    \* a Bridge, not a Wifi
  Link,        \* names of links that are set directly: ethernet, wpa_supplicant
  Station,     \* ids of MoCA nodes
  Subnet, Gateway,
  NetOf,       \* the subnet that a gateway is on
  BaseMetric,  \* base_metric
  Faults       \* what may go wrong: the kernel refuses a route, drops a
               \* route, or a listing of the routes fails

ASSUME InterfaceAssumption ==
  /\ IsBridge \in BOOLEAN
  /\ Faults \subseteq {"refuse", "drop", "list"}
  /\ BaseMetric \in Int
  /\ NetOf \in [Gateway -> Subnet]

None == "None"
True == "True"
False == "False"
MOCA == "moca"
NoIP == "no IP"
RFC2385_MULTICAST_ROUTE == "239.0.0.0/8"

ASSUME NamesAssumption == MOCA \notin Link /\ NoIP \notin Subnet \cup Gateway

RouteType == {"default", "subnet", "multicast"}
Check == {"acs", "internet"}

VARIABLES
  links,        \* self.links
  stations,     \* _moca_stations
  has,          \* _has_acs and _has_internet
  subnet,       \* _subnet
  gateway,      \* _gateway_ip
  offset,       \* metric_offset
  initialized,  \* _initialized
  pc,           \* where the running method is, "idle" when none is
  what,         \* the check that acs or internet is about, "acs" when none runs
  updating,     \* the check is part of update_routes
  dels,         \* the types of routes that delete_route has yet to delete
  adds,         \* the types of routes in to_add
  routes,       \* the kernel's routes on this interface
  autoprov,     \* _acs_autoprovisioning_filepath exists
  faulted,      \* history: since update_routes began, something has gone wrong
  missed        \* history: the types of which delete_route has missed routes
                \* because a listing failed, and has not seen the last one go
                \* since

state == <<links, stations, has, subnet, gateway, initialized>>
control == <<pc, what, updating, dels, adds>>
vars == <<state, offset, control, routes, autoprov, faulted, missed>>

-----------------------------------------------------------------------------
metric == BaseMetric + offset

\* The route of a type that add_routes puts into the table, with metric m.
Route(type, m) ==
  [type |-> type,
   dest |-> CASE type = "default" -> gateway
              [] type = "subnet" -> subnet
              [] type = "multicast" -> RFC2385_MULTICAST_ROUTE,
   metric |-> m]

Wanted(type) == Route(type, metric)

\* The routes of one type.
Current(type) == {r \in routes : r.type = type}

\* current_routes, compared with the routes with metric m: the types whose route is
\* as it should be.  Of several routes of a type the last one listed is kept, any
\* one of them; a listing that fails shows none.
Looks(m) ==
  {right \in SUBSET RouteType :
     \A t \in RouteType : /\ t \in right => Route(t, m) \in routes
                          /\ Current(t) = {Route(t, m)} => t \in right}

Init ==
  /\ links = {} /\ stations = {}
  /\ has = [c \in Check |-> None]
  /\ subnet = NoIP /\ gateway = NoIP
  /\ offset = 0
  /\ initialized = FALSE
  /\ pc = "idle" /\ what = "acs" /\ updating = FALSE
  /\ dels = {} /\ adds = {}
  /\ routes = {} /\ autoprov = FALSE /\ faulted = FALSE /\ missed = {}

Idle == pc = "idle" /\ dels = {} /\ adds = {}
Returned == dels = {} /\ adds = {}

\* to_add: the routes that are not right and for which there is an address.
ToAdd(right) ==
  {t \in RouteType \ right : /\ t \in {"subnet", "default"} => subnet # NoIP
                             /\ t = "default" => gateway # NoIP}

\* The routes that have no address.
Unwanted == (IF subnet = NoIP THEN {"default", "subnet"} ELSE {})
              \cup (IF gateway = NoIP THEN {"default"} ELSE {})

\* Mutant: add_routes adds the new routes without deleting those they replace.
add_routes_beside(m, next) ==
  /\ \E right \in Looks(m) : dels' = Unwanted /\ adds' = ToAdd(right)
  /\ pc' = next
  /\ UNCHANGED faulted

\* add_routes with metric m.  The lists are computed from one look at the table.
add_routes(m, next) ==
  /\ \E right \in Looks(m) \cup {{}} :
       /\ dels' = ToAdd(right) \cup Unwanted
       /\ adds' = ToAdd(right)
       /\ \/ right \in Looks(m) /\ UNCHANGED faulted
          \/ "list" \in Faults /\ right = {} /\ faulted' = TRUE
  /\ pc' = next

\* Bridge.delete_route unlinks the file before it deletes anything.
UnlinkWithDelete == autoprov' = (autoprov /\ dels' = {})

\* update_routes calls acs, internet and then decides.
BeginUpdate ==
  /\ pc' = "check" /\ what' = "acs" /\ updating' = TRUE
  /\ faulted' = FALSE
  /\ UNCHANGED <<dels, adds>>

\* _set_link_status: what the caches become when a link comes up or goes down.
forget(up) == [c \in Check |-> IF has[c] = up THEN has[c] ELSE None]

\* _set_link_status: the routes are updated when the interface gets its first
\* link or loses its last.
set_link_status(link, up) ==
  LET now == IF up = True THEN links \cup {link} ELSE links \ {link}
  IN  IF now = links
      THEN UNCHANGED <<links, has, control, faulted>>
      ELSE /\ links' = now
           /\ has' = forget(up)
           /\ IF (links = {}) # (now = {}) THEN BeginUpdate ELSE UNCHANGED <<control, faulted>>

-----------------------------------------------------------------------------
(* The operations that the rest of conman calls. *)

SetLink(link, up) ==
  /\ Idle
  /\ set_link_status(link, up)
  /\ UNCHANGED <<stations, subnet, gateway, initialized, offset, routes, autoprov, missed>>

add_moca_station(s) ==
  /\ Idle
  /\ s \notin stations
  /\ stations' = stations \cup {s}
  /\ set_link_status(MOCA, True)
  /\ UNCHANGED <<subnet, gateway, initialized, offset, routes, autoprov, missed>>

remove_moca_station(s) ==
  /\ Idle
  /\ s \in stations
  /\ stations' = stations \ {s}
  /\ set_link_status(MOCA, IF stations' = {} THEN False ELSE True)
  /\ UNCHANGED <<subnet, gateway, initialized, offset, routes, autoprov, missed>>

expired == [c \in Check |-> None]

set_gateway_ip(g) ==
  /\ Idle
  /\ gateway' = g
  /\ has' = expired
  /\ BeginUpdate
  /\ UNCHANGED <<links, stations, subnet, initialized, offset, routes, autoprov, missed>>

set_subnet(s) ==
  /\ Idle
  /\ subnet' = s
  /\ has' = expired
  /\ BeginUpdate
  /\ UNCHANGED <<links, stations, gateway, initialized, offset, routes, autoprov, missed>>

initialize ==
  /\ Idle
  /\ ~initialized
  /\ initialized' = TRUE
  /\ has' = expired
  /\ BeginUpdate
  /\ UNCHANGED <<links, stations, subnet, gateway, offset, routes, autoprov, missed>>

\* update_routes, which the main loop calls every few seconds.
update_routes ==
  /\ Idle
  /\ has' = expired
  /\ BeginUpdate
  /\ UNCHANGED <<links, stations, subnet, gateway, initialized, offset, routes, autoprov, missed>>

expire_connection_status_cache ==
  /\ Idle
  /\ has' = expired
  /\ UNCHANGED <<links, stations, subnet, gateway, initialized, offset, control,
                 routes, autoprov, faulted, missed>>

\* acs or internet, called by the main loop and by the provisioning ratchet.
Ask(c) ==
  /\ Idle
  /\ has[c] = None
  /\ pc' = "check" /\ what' = c /\ updating' = FALSE
  /\ UNCHANGED <<state, offset, dels, adds, routes, autoprov, faulted, missed>>

-----------------------------------------------------------------------------
(* The running method. *)

\* The check has the result v: `acs() or internet()` goes on.
Answer(v) ==
  /\ has' = [has EXCEPT ![what] = v]
  /\ IF updating /\ what = "acs" /\ v # True
     THEN pc' = "check" /\ what' = "internet"
     ELSE pc' = (IF updating THEN "decide" ELSE "idle") /\ what' = "acs"
  /\ UNCHANGED <<links, stations, subnet, gateway, initialized, offset, updating,
                 dels, adds, routes, faulted, missed>>

\* acs, internet and _connection_check, as far as they need no command.
\* WifiSimulateWireless fails the check of a bridge for some time.
CheckCached ==
  /\ pc = "check"
  /\ \/ has[what] # None /\ Answer(has[what])
     \/ has[what] = None /\ IsBridge /\ Answer(False)
     \/ has[what] = None /\ ~initialized /\ Answer(None)
     \/ has[what] = None /\ initialized /\ (links = {} \/ gateway = NoIP) /\ Answer(False)
  /\ UNCHANGED autoprov

CheckRoutes ==
  /\ pc = "check"
  /\ has[what] = None
  /\ initialized /\ links # {} /\ gateway # NoIP
  /\ add_routes(metric, "run")
  /\ UnlinkWithDelete
  /\ UNCHANGED <<state, offset, what, updating, routes, missed>>

\* connection_check runs when there is a default route; it may fail or pass.
RunCheck ==
  /\ pc = "run" /\ Returned
  /\ \E v \in {True, False} :
       /\ v = True => Current("default") # {}
       /\ Answer(v)
  /\ UNCHANGED autoprov

Reached == \E c \in Check : has[c] = True

prioritize_routes ==
  /\ pc = "decide" /\ Reached
  /\ updating' = FALSE
  /\ IF initialized
     THEN offset' = 0 /\ add_routes(BaseMetric, "open") /\ UnlinkWithDelete
     ELSE pc' = "open" /\ UNCHANGED <<offset, dels, adds, autoprov, faulted>>
  /\ UNCHANGED <<state, what, routes, missed>>

\* Bridge.prioritize_routes creates the autoprovisioning file in any case.
OpenAutoprov ==
  /\ pc = "open" /\ Returned
  /\ autoprov' = IsBridge
  /\ pc' = "idle"
  /\ UNCHANGED <<state, offset, what, updating, dels, adds, routes, faulted, missed>>

\* Bridge.deprioritize_routes unlinks the file in any case.
deprioritize_routes ==
  /\ pc = "decide" /\ ~Reached /\ links # {}
  /\ updating' = FALSE
  /\ autoprov' = FALSE
  /\ IF initialized
     THEN offset' = 50 /\ add_routes(BaseMetric + 50, "idle")
     ELSE pc' = "idle" /\ UNCHANGED <<offset, dels, adds, faulted>>
  /\ UNCHANGED <<state, what, routes, missed>>

\* Mutant: delete_route is not overridden in Bridge.
DeleteAllKeepsFile ==
  /\ pc = "decide" /\ ~Reached /\ links = {}
  /\ updating' = FALSE
  /\ dels' = IF initialized THEN RouteType ELSE {}
  /\ pc' = "idle"
  /\ UNCHANGED <<state, offset, what, adds, routes, autoprov, faulted, missed>>

\* update_routes without links.  Before initialize no command runs.
DeleteAll ==
  /\ pc = "decide" /\ ~Reached /\ links = {}
  /\ updating' = FALSE
  /\ autoprov' = FALSE
  /\ dels' = IF initialized THEN RouteType ELSE {}
  /\ pc' = "idle"
  /\ UNCHANGED <<state, offset, what, adds, routes, faulted, missed>>

\* delete_route, one turn of its loop: a route of type t is deleted, or none is
\* left, or the listing fails and none seems to be left.  add_routes and the sorted
\* list of delete_route delete in different orders, but both the subnet route last.
\* A command that fails is repeated; a listing that fails between the test of the
\* loop and the command raises a KeyError, which is one of the ways to Restart.
delete_route(t) ==
  /\ t \in dels
  /\ t = "subnet" => dels = {"subnet"}
  /\ \/ /\ \E r \in Current(t) : routes' = routes \ {r}
        /\ UNCHANGED <<dels, missed, faulted>>
     \/ /\ Current(t) = {}
        /\ dels' = dels \ {t} /\ missed' = missed \ {t}
        /\ UNCHANGED <<routes, faulted>>
     \/ /\ "list" \in Faults /\ Current(t) # {}
        /\ dels' = dels \ {t} /\ missed' = missed \cup {t} /\ faulted' = TRUE
        /\ UNCHANGED routes
  /\ UNCHANGED <<state, offset, pc, what, updating, adds, autoprov>>

\* Mutant: the routes are added in the order in which they are deleted.
AddOrderReversed == [subnet |-> 3, default |-> 2, multicast |-> 1]

AddOrder == [subnet |-> 1, default |-> 2, multicast |-> 3]

\* The kernel: a default route needs a route to its gateway, and no other default
\* route may have its metric.
Accepts(t) ==
  t = "default" => /\ \E r \in Current("subnet") : r.dest = NetOf[gateway]
                   /\ \A r \in Current("default") : r.metric # metric

\* `ip route add` for the first route of to_add; an error is logged only.
AddRoute(t) ==
  /\ dels = {} /\ t \in adds
  /\ \A u \in adds : AddOrder[t] <= AddOrder[u]
  /\ adds' = adds \ {t}
  /\ \/ Accepts(t) /\ routes' = routes \cup {Wanted(t)} /\ UNCHANGED faulted
     \/ ~Accepts(t) /\ UNCHANGED <<routes, faulted>>
     \/ Accepts(t) /\ "refuse" \in Faults /\ faulted' = TRUE /\ UNCHANGED routes
  /\ UNCHANGED <<state, offset, pc, what, updating, dels, autoprov, missed>>

-----------------------------------------------------------------------------
(* The kernel and the end of the process. *)

\* The kernel drops a route by itself, as when an address is removed.
KernelDrops ==
  /\ "drop" \in Faults
  /\ \E r \in routes : routes' = routes \ {r}
  /\ faulted' = TRUE
  /\ UNCHANGED <<state, offset, control, autoprov, missed>>

\* conman ends between any two commands and starts again: the routes and the
\* file stay, and all else is as in __init__.
Restart ==
  /\ links' = {} /\ stations' = {}
  /\ has' = expired
  /\ subnet' = NoIP /\ gateway' = NoIP
  /\ offset' = 0
  /\ initialized' = FALSE
  /\ pc' = "idle" /\ what' = "acs" /\ updating' = FALSE
  /\ dels' = {} /\ adds' = {}
  /\ faulted' = FALSE
  /\ UNCHANGED <<routes, autoprov, missed>>

Call ==
  \/ \E l \in Link, up \in {True, False} : SetLink(l, up)
  \/ \E s \in Station : add_moca_station(s) \/ remove_moca_station(s)
  \/ \E g \in Gateway \cup {NoIP} : set_gateway_ip(g)
  \/ \E s \in Subnet \cup {NoIP} : set_subnet(s)
  \/ initialize
  \/ update_routes
  \/ expire_connection_status_cache
  \/ \E c \in Check : Ask(c)

Step ==
  \/ CheckCached \/ CheckRoutes \/ RunCheck
  \/ prioritize_routes \/ OpenAutoprov \/ deprioritize_routes \/ DeleteAll
  \/ \E t \in RouteType : delete_route(t) \/ AddRoute(t)

Next == Call \/ Step \/ KernelDrops \/ Restart

Spec == Init /\ [][Next]_vars

-----------------------------------------------------------------------------
(* Properties *)

TypeOK ==
  /\ links \subseteq Link \cup {MOCA} /\ stations \subseteq Station
  /\ has \in [Check -> {None, True, False}]
  /\ subnet \in Subnet \cup {NoIP} /\ gateway \in Gateway \cup {NoIP}
  /\ offset \in {0, 50}
  /\ initialized \in BOOLEAN /\ updating \in BOOLEAN /\ autoprov \in BOOLEAN
  /\ faulted \in BOOLEAN /\ missed \subseteq RouteType
  /\ pc \in {"idle", "check", "run", "decide", "open"}
  /\ what \in Check
  /\ dels \subseteq RouteType /\ adds \subseteq RouteType
  /\ routes \subseteq [type : RouteType,
                       dest : Subnet \cup Gateway \cup {RFC2385_MULTICAST_ROUTE},
                       metric : {BaseMetric, BaseMetric + 50}]

\* At every moment, whatever commands failed and wherever earlier processes were
\* killed, the interface has at most one route of each type, unless a failed
\* listing has hidden one of that type from delete_route: add_routes deletes what
\* it replaces, so that the metric of a route says what its priority is.
OneRouteEach ==
  \A r, s \in routes : r.type = s.type /\ r.type \notin missed => r = s

\* Between two calls of an initialized interface all its routes have its present
\* addresses and priority, and an interface without links has no routes:
\* add_routes "remove[s] any stale routes", those of earlier processes included.
\* The exception are the types of which a failed listing has hidden a route from
\* delete_route, until delete_route is called for that type again and sees the
\* last one go: nothing else that fails leaves a stale route.
NoStaleRoutes ==
  Idle /\ initialized =>
    \A r \in routes : r.type \in missed \/ (links # {} /\ r = Wanted(r.type))

\* The autoprovisioning file is there only while the bridge is not deprioritized
\* and, once it is initialized and no method is running, has a link and a gateway:
\* Bridge.deprioritize_routes and Bridge.delete_route unlink it.
AutoprovJustified ==
  autoprov => /\ offset = 0
              /\ (Idle /\ initialized) => links # {} /\ gateway # NoIP

\* update_routes repairs: whatever routes an earlier process, an earlier address,
\* a refused command or the kernel left behind or took away, once an update has
\* run in which nothing goes wrong, an interface with a link, a
\* subnet and a gateway on that subnet has all three routes, and keeps them from
\* call to call until the kernel fails again.  add_routes looks at the table
\* anew each time and adds the subnet route before the default route.
RoutesRepaired ==
  /\ ~faulted /\ Idle /\ initialized
  /\ links # {} /\ gateway # NoIP /\ subnet = NetOf[gateway]
  => \A t \in RouteType : Wanted(t) \in routes

=============================================================================
