--------------------------- MODULE InterfaceProofs ---------------------------
(***************************************************************************)
(* Proofs about Interface for any links, stations, subnets and gateways,   *)
(* for Bridge and for Wifi, for every kind of fault of the kernel, and for *)
(* any listings of the routes that fail.                                   *)
(***************************************************************************)
EXTENDS Interface, TLAPS

\* A route with its present address and priority, on an interface that has what
\* the route needs.
Desired(r) ==
  /\ r = Wanted(r.type)
  /\ r.type \in {"subnet", "default"} => subnet # NoIP
  /\ r.type = "default" => gateway # NoIP

\* Where the running method can be.
ControlFits ==
  /\ pc \in {"check", "decide"} => dels = {} /\ adds = {}
  /\ updating => pc \in {"check", "run", "decide"}
  /\ pc = "decide" => updating
  /\ pc = "run" => initialized /\ gateway # NoIP
  /\ ~initialized => dels = {} /\ adds = {}
  /\ links = {} => adds = {} /\ pc \notin {"run", "open"}
  /\ pc = "open" => offset = 0 /\ gateway # NoIP

\* What add_routes has yet to add has an address, and is gone from the table
\* once it is no longer to be deleted, unless a failed listing has hidden some.
AddsFit ==
  \A t \in adds : /\ t \in {"subnet", "default"} => subnet # NoIP
                  /\ t = "default" => gateway # NoIP
                  /\ t \notin dels \cup missed => Current(t) = {}

\* A connection check that has passed vouches for the addresses and the link.
AnswersFit ==
  \A c \in Check : has[c] = True =>
    initialized /\ links # {} /\ gateway # NoIP

\* Outside update_routes, and once it has called add_routes, the routes that
\* will not be deleted and that no failed listing has hidden are right.
RoutesFit ==
  initialized /\ (updating => pc = "run") =>
    /\ \A r \in routes : r.type \in dels \/ r.type \in missed \/ Desired(r)
    /\ links = {} => \A r \in routes : r.type \in dels \/ r.type \in missed

AutoprovFits ==
  autoprov => /\ offset = 0
              /\ (initialized /\ ~updating) => links # {} /\ gateway # NoIP

IInv ==
  TypeOK /\ ControlFits /\ AddsFit /\ AnswersFit /\ RoutesFit /\ AutoprovFits
    /\ OneRouteEach

-----------------------------------------------------------------------------
\* An interface starts in order.
LEMMA InitIInv == Init => IInv
<1> SUFFICES ASSUME Init PROVE IInv
  OBVIOUS
<1> USE DEF Init, Check, None, True, False
<1>1. TypeOK
  BY DEF TypeOK, RouteType
<1>2. ControlFits /\ AddsFit /\ RoutesFit /\ AutoprovFits /\ OneRouteEach
  BY DEF ControlFits, AddsFit, RoutesFit, AutoprovFits, OneRouteEach
<1>3. AnswersFit
  BY DEF AnswersFit
<1>4. QED
  BY <1>1, <1>2, <1>3 DEF IInv

\* What add_routes with metric m puts on its lists: it deletes before it adds, it
\* adds only what has an address, and what it does not delete is right, if there
\* is one route of the type.
LEMMA AddRoutesLists ==
  ASSUME TypeOK, OneRouteEach, NEW m, NEW next, add_routes(m, next)
  PROVE  /\ pc' = next /\ faulted' \in BOOLEAN
         /\ dels' \subseteq RouteType /\ adds' \subseteq dels'
         /\ \A t \in adds' : /\ t \in {"subnet", "default"} => subnet # NoIP
                             /\ t = "default" => gateway # NoIP
         /\ \A r \in routes :
              \/ r.type \in dels' \/ r.type \in missed
              \/ /\ r = Route(r.type, m)
                 /\ r.type \in {"subnet", "default"} => subnet # NoIP
                 /\ r.type = "default" => gateway # NoIP
<1>1. PICK right \in Looks(m) \cup {{}} :
        dels' = ToAdd(right) \cup Unwanted /\ adds' = ToAdd(right)
  BY DEF add_routes
<1>2. pc' = next /\ faulted' \in BOOLEAN
  BY DEF add_routes, TypeOK
<1>3. ToAdd(right) \subseteq RouteType /\ Unwanted \subseteq RouteType
  BY DEF ToAdd, Unwanted, RouteType
<1>4. \A t \in ToAdd(right) : /\ t \in {"subnet", "default"} => subnet # NoIP
                              /\ t = "default" => gateway # NoIP
  BY DEF ToAdd
<1>5. ASSUME NEW r \in routes, r.type \notin ToAdd(right), r.type \notin Unwanted,
             r.type \notin missed
      PROVE  /\ r = Route(r.type, m)
             /\ r.type \in {"subnet", "default"} => subnet # NoIP
             /\ r.type = "default" => gateway # NoIP
  <2>1. r.type \in RouteType
    BY <1>5 DEF TypeOK
  <2>2. /\ r.type \in {"subnet", "default"} => subnet # NoIP
        /\ r.type = "default" => gateway # NoIP
    BY <1>5 DEF Unwanted
  <2>3. r.type \in right
    BY <1>5, <2>1, <2>2 DEF ToAdd
  <2>4. Route(r.type, m) \in routes
    BY <2>1, <2>3 DEF Looks
  <2>5. Route(r.type, m).type = r.type
    BY DEF Route
  <2>6. QED
    BY <1>5, <2>2, <2>4, <2>5 DEF OneRouteEach
<1>6. QED
  BY <1>1, <1>2, <1>3, <1>4, <1>5

\* Every step keeps the inductive invariant.
LEMMA NextIInv == IInv /\ [Next]_vars => IInv'
<1> SUFFICES ASSUME IInv, [Next]_vars PROVE IInv'
  OBVIOUS
<1> USE InterfaceAssumption, NamesAssumption
<1>a. TypeOK /\ ControlFits /\ AddsFit /\ AnswersFit /\ RoutesFit /\ AutoprovFits /\ OneRouteEach
  BY DEF IInv
<1> USE <1>a DEF TypeOK, ControlFits, Check, RouteType, None, True, False
<1>1. CASE \E l \in Link, up \in {True, False} : SetLink(l, up)
  <2>1. TypeOK'
    <3>1. PICK l \in Link, up \in {True, False} : SetLink(l, up)
      BY <1>1
    <3>2. links' \subseteq Link \cup {MOCA} /\ has' \in [Check -> {None, True, False}]
      BY <3>1 DEF SetLink, set_link_status, forget
    <3>3. /\ pc' \in {"idle", "check"} /\ what' \in Check /\ updating' \in BOOLEAN
          /\ faulted' \in BOOLEAN /\ dels' = dels /\ adds' = adds
      BY <3>1 DEF SetLink, set_link_status, BeginUpdate, control, Idle
    <3>4. /\ stations' \subseteq Station
          /\ UNCHANGED <<subnet, gateway, initialized, offset, routes, autoprov, missed>>
      BY <3>1 DEF SetLink
    <3>5. QED
      BY <3>2, <3>3, <3>4
  <2>2. ControlFits' /\ AnswersFit' /\ AutoprovFits'
    BY <1>1 DEF SetLink, set_link_status, forget, BeginUpdate, Idle, control,
                AnswersFit, AutoprovFits
  <2>3. AddsFit' /\ RoutesFit' /\ OneRouteEach'
    BY <1>1 DEF SetLink, set_link_status, forget, BeginUpdate, Idle, control,
                AddsFit, RoutesFit, OneRouteEach, Desired, Wanted, Route, metric
  <2>4. QED
    BY <2>1, <2>2, <2>3 DEF IInv
<1>2. CASE \E s \in Station : add_moca_station(s)
  <2>1. TypeOK'
    <3>1. PICK s \in Station : add_moca_station(s)
      BY <1>2
    <3>2. links' \subseteq Link \cup {MOCA} /\ has' \in [Check -> {None, True, False}]
      BY <3>1 DEF add_moca_station, set_link_status, forget
    <3>3. /\ pc' \in {"idle", "check"} /\ what' \in Check /\ updating' \in BOOLEAN
          /\ faulted' \in BOOLEAN /\ dels' = dels /\ adds' = adds
      BY <3>1 DEF add_moca_station, set_link_status, BeginUpdate, control, Idle
    <3>4. /\ stations' \subseteq Station
          /\ UNCHANGED <<subnet, gateway, initialized, offset, routes, autoprov, missed>>
      BY <3>1 DEF add_moca_station
    <3>5. QED
      BY <3>2, <3>3, <3>4
  <2>2. ControlFits' /\ AnswersFit' /\ AutoprovFits'
    BY <1>2 DEF add_moca_station, set_link_status, forget, BeginUpdate, Idle,
                control, AnswersFit, AutoprovFits
  <2>3. AddsFit' /\ RoutesFit' /\ OneRouteEach'
    BY <1>2 DEF add_moca_station, set_link_status, forget, BeginUpdate, Idle,
                control, AddsFit, RoutesFit, OneRouteEach, Desired, Wanted, Route,
                metric
  <2>4. QED
    BY <2>1, <2>2, <2>3 DEF IInv
<1>3. CASE \E s \in Station : remove_moca_station(s)
  <2>1. TypeOK'
    <3>1. PICK s \in Station : remove_moca_station(s)
      BY <1>3
    <3>2. links' \subseteq Link \cup {MOCA} /\ has' \in [Check -> {None, True, False}]
      BY <3>1 DEF remove_moca_station, set_link_status, forget
    <3>3. /\ pc' \in {"idle", "check"} /\ what' \in Check /\ updating' \in BOOLEAN
          /\ faulted' \in BOOLEAN /\ dels' = dels /\ adds' = adds
      BY <3>1 DEF remove_moca_station, set_link_status, BeginUpdate, control, Idle
    <3>4. /\ stations' \subseteq Station
          /\ UNCHANGED <<subnet, gateway, initialized, offset, routes, autoprov, missed>>
      BY <3>1 DEF remove_moca_station
    <3>5. QED
      BY <3>2, <3>3, <3>4
  <2>2. ControlFits' /\ AnswersFit' /\ AutoprovFits'
    BY <1>3 DEF remove_moca_station, set_link_status, forget, BeginUpdate, Idle,
                control, AnswersFit, AutoprovFits
  <2>3. AddsFit' /\ RoutesFit' /\ OneRouteEach'
    BY <1>3 DEF remove_moca_station, set_link_status, forget, BeginUpdate, Idle,
                control, AddsFit, RoutesFit, OneRouteEach, Desired, Wanted, Route,
                metric
  <2>4. QED
    BY <2>1, <2>2, <2>3 DEF IInv
<1>4. CASE \E g \in Gateway \cup {NoIP} : set_gateway_ip(g)
  <2>0. TypeOK'
    BY ZenonT(40), <1>4 DEF set_gateway_ip, BeginUpdate, expired, Idle
  <2>1. ControlFits' /\ AnswersFit' /\ AutoprovFits'
    BY <1>4 DEF set_gateway_ip, BeginUpdate, expired, Idle, AnswersFit,
                AutoprovFits
  <2>2. AddsFit' /\ RoutesFit' /\ OneRouteEach'
    BY <1>4 DEF set_gateway_ip, BeginUpdate, expired, Idle, AddsFit, RoutesFit,
                OneRouteEach
  <2>3. QED
    BY <2>0, <2>1, <2>2 DEF IInv
<1>5. CASE \E s \in Subnet \cup {NoIP} : set_subnet(s)
  <2>0. TypeOK'
    BY ZenonT(40), <1>5 DEF set_subnet, BeginUpdate, expired, Idle
  <2>1. ControlFits' /\ AnswersFit' /\ AutoprovFits'
    BY <1>5 DEF set_subnet, BeginUpdate, expired, Idle, AnswersFit, AutoprovFits
  <2>2. AddsFit' /\ RoutesFit' /\ OneRouteEach'
    BY <1>5 DEF set_subnet, BeginUpdate, expired, Idle, AddsFit, RoutesFit,
                OneRouteEach
  <2>3. QED
    BY <2>0, <2>1, <2>2 DEF IInv
<1>6. CASE initialize
  <2>1. TypeOK' /\ ControlFits' /\ AnswersFit' /\ AutoprovFits'
    BY <1>6 DEF initialize, BeginUpdate, expired, Idle, AnswersFit, AutoprovFits
  <2>2. AddsFit' /\ RoutesFit' /\ OneRouteEach'
    BY <1>6 DEF initialize, BeginUpdate, expired, Idle, AddsFit, RoutesFit,
                OneRouteEach
  <2>3. QED
    BY <2>1, <2>2 DEF IInv
<1>7. CASE update_routes
  <2>1. TypeOK' /\ ControlFits' /\ AnswersFit' /\ AutoprovFits'
    BY <1>7 DEF update_routes, BeginUpdate, expired, Idle, AnswersFit,
                AutoprovFits
  <2>2. AddsFit' /\ RoutesFit' /\ OneRouteEach'
    BY <1>7 DEF update_routes, BeginUpdate, expired, Idle, AddsFit, RoutesFit,
                OneRouteEach
  <2>3. QED
    BY <2>1, <2>2 DEF IInv
<1>8. CASE expire_connection_status_cache
  <2>1. TypeOK' /\ ControlFits' /\ AnswersFit' /\ AutoprovFits'
    BY <1>8 DEF expire_connection_status_cache, expired, Idle, control,
                AnswersFit, AutoprovFits
  <2>2. AddsFit' /\ RoutesFit' /\ OneRouteEach'
    BY <1>8 DEF expire_connection_status_cache, expired, Idle, control, AddsFit,
                RoutesFit, OneRouteEach, Desired, Wanted, Route, metric
  <2>3. QED
    BY <2>1, <2>2 DEF IInv
<1>9. CASE \E c \in Check : Ask(c)
  <2>1. TypeOK'
    <3>1. pc' = "check" /\ what' \in Check /\ updating' = FALSE
      BY <1>9 DEF Ask
    <3>2. UNCHANGED <<state, offset, dels, adds, routes, autoprov, faulted, missed>>
      BY <1>9 DEF Ask
    <3>3. QED
      BY <3>1, <3>2 DEF state
  <2>2. ControlFits' /\ AnswersFit' /\ AutoprovFits'
    BY <1>9 DEF Ask, Idle, state, AnswersFit, AutoprovFits
  <2>3. AddsFit' /\ RoutesFit' /\ OneRouteEach'
    BY <1>9 DEF Ask, Idle, state, AddsFit, RoutesFit, OneRouteEach, Desired,
                Wanted, Route, metric
  <2>4. QED
    BY <2>1, <2>2, <2>3 DEF IInv
<1>10. CASE CheckCached
  <2>1. TypeOK'
    <3>1. \E v \in {None, True, False} : Answer(v)
      BY <1>10 DEF CheckCached
    <3>2. PICK v \in {None, True, False} : Answer(v)
      BY <3>1
    <3>3. has' \in [Check -> {None, True, False}]
      BY <3>2 DEF Answer
    <3>4. pc' \in {"idle", "check", "decide"} /\ what' \in Check
      BY <3>2 DEF Answer
    <3>5. UNCHANGED <<links, stations, subnet, gateway, initialized, offset, updating,
                      dels, adds, routes, autoprov, faulted, missed>>
      BY <1>10, <3>2 DEF CheckCached, Answer
    <3>6. QED
      BY <3>3, <3>4, <3>5
  <2>2. ControlFits'
    <3>1. \E v \in {None, True, False} : Answer(v)
      BY <1>10 DEF CheckCached
    <3>2. PICK v \in {None, True, False} : Answer(v)
      BY <3>1
    <3>3. /\ pc' \in {"idle", "check", "decide"}
          /\ updating => pc' \in {"check", "decide"}
          /\ pc' = "decide" => updating
      BY <3>2 DEF Answer
    <3>4. dels = {} /\ adds = {} /\ UNCHANGED <<links, initialized, updating, dels, adds>>
      BY <1>10, <3>2 DEF CheckCached, Answer
    <3>5. QED
      BY <3>3, <3>4
  <2>3. AnswersFit' /\ AutoprovFits'
    BY <1>10 DEF CheckCached, Answer, AnswersFit, AutoprovFits
  <2>4. AddsFit'
    BY <1>10 DEF CheckCached, Answer, AddsFit, Current
  <2>5. RoutesFit'
    BY <1>10 DEF CheckCached, Answer, RoutesFit, Desired, Wanted, Route, metric
  <2>6. OneRouteEach'
    BY <1>10 DEF CheckCached, Answer, OneRouteEach
  <2>7. QED
    BY <2>1, <2>2, <2>3, <2>4, <2>5, <2>6 DEF IInv
<1>11. CASE CheckRoutes
  <2>a. add_routes(metric, "run")
    BY <1>11 DEF CheckRoutes
  <2>1. TypeOK'
    <3>1. /\ dels' \subseteq RouteType /\ adds' \subseteq RouteType /\ pc' = "run"
          /\ faulted' \in BOOLEAN
      BY <2>a, AddRoutesLists
    <3>2. UNCHANGED <<state, offset, what, updating, routes, missed>> /\ autoprov' \in BOOLEAN
      BY <1>11 DEF CheckRoutes, UnlinkWithDelete
    <3>3. QED
      BY <3>1, <3>2 DEF state
  <2>2. ControlFits'
    <3>1. pc' = "run"
      BY <2>a, AddRoutesLists
    <3>2. /\ UNCHANGED <<state, offset, what, updating>>
          /\ initialized /\ links # {} /\ gateway # NoIP
      BY <1>11 DEF CheckRoutes
    <3>3. QED
      BY <3>1, <3>2 DEF state
  <2>3. AnswersFit' /\ AutoprovFits'
    BY <1>11 DEF CheckRoutes, UnlinkWithDelete, state, AnswersFit, AutoprovFits
  <2>4. AddsFit'
    <3>1. \A t \in adds' : t \in dels' /\ (t \in {"subnet", "default"} => subnet # NoIP)
                                      /\ (t = "default" => gateway # NoIP)
      BY <2>a, AddRoutesLists
    <3>2. UNCHANGED state
      BY <1>11 DEF CheckRoutes
    <3>3. QED
      BY <3>1, <3>2 DEF AddsFit, state
  <2>5. RoutesFit'
    <3>1. UNCHANGED <<state, offset, routes, missed>> /\ links # {}
      BY <1>11 DEF CheckRoutes
    <3>2. \A r \in routes : r.type \in dels' \/ r.type \in missed \/ Desired(r)
      BY <2>a, AddRoutesLists DEF Desired, Wanted
    <3>3. \A r \in routes : Desired(r)' <=> Desired(r)
      BY <3>1 DEF Desired, Wanted, Route, metric, state
    <3>4. QED
      BY <3>1, <3>2, <3>3 DEF RoutesFit, state
  <2>6. OneRouteEach'
    BY <1>11 DEF CheckRoutes, UnlinkWithDelete, state, OneRouteEach
  <2>7. QED
    BY <2>1, <2>2, <2>3, <2>4, <2>5, <2>6 DEF IInv
<1>12. CASE RunCheck
  <2>1. AnswersFit'
    <3>1. PICK v \in {True, False} : Answer(v)
      BY <1>12 DEF RunCheck
    <3>2. /\ UNCHANGED <<initialized, links, gateway, subnet>>
          /\ has' = [has EXCEPT ![what] = v]
      BY <3>1 DEF Answer
    <3>3. initialized /\ links # {} /\ gateway # NoIP
      BY <1>12 DEF RunCheck
    <3>4. QED
      BY <3>2, <3>3 DEF AnswersFit
  <2>2. TypeOK' /\ ControlFits' /\ AutoprovFits'
    BY <1>12 DEF RunCheck, Answer, Returned, AutoprovFits
  <2>3. AddsFit'
    BY <1>12 DEF RunCheck, Answer, Returned, AddsFit, Current
  <2>4. RoutesFit'
    BY <1>12 DEF RunCheck, Answer, Returned, RoutesFit, Desired, Wanted, Route,
                 metric
  <2>5. OneRouteEach'
    BY <1>12 DEF RunCheck, Answer, Returned, OneRouteEach
  <2>6. QED
    BY <2>1, <2>2, <2>3, <2>4, <2>5 DEF IInv
<1>13. CASE prioritize_routes
  <2>a. IF initialized THEN add_routes(BaseMetric, "open") ELSE pc' = "open"
    BY <1>13 DEF prioritize_routes
  <2>1. TypeOK'
    <3>1. /\ UNCHANGED <<state, what, routes, missed>>
          /\ updating' = FALSE /\ autoprov' \in BOOLEAN
      BY <1>13 DEF prioritize_routes, UnlinkWithDelete
    <3>2. CASE initialized
      <4>1. /\ dels' \subseteq RouteType /\ adds' \subseteq RouteType /\ pc' = "open"
            /\ faulted' \in BOOLEAN
        BY <2>a, <3>2, AddRoutesLists
      <4>2. offset' = 0
        BY <1>13, <3>2 DEF prioritize_routes
      <4>3. QED
        BY <3>1, <4>1, <4>2 DEF state
    <3>3. CASE ~initialized
      <4>1. UNCHANGED <<dels, adds, offset, faulted>> /\ pc' = "open"
        BY <1>13, <3>3 DEF prioritize_routes
      <4>2. QED
        BY <3>1, <4>1 DEF state
    <3>4. QED
      BY <3>2, <3>3
  <2>2. ControlFits'
    <3>1. UNCHANGED <<state, what, routes>> /\ updating' = FALSE /\ pc' = "open"
      BY <1>13, <2>a, AddRoutesLists DEF prioritize_routes
    <3>2. links # {}
      BY <1>13 DEF prioritize_routes, Reached, AnswersFit
    <3>3. ~initialized => UNCHANGED <<dels, adds>>
      BY <1>13 DEF prioritize_routes
    <3>4. offset' = 0 /\ gateway # NoIP
      BY <1>13 DEF prioritize_routes, Reached, AnswersFit
    <3>5. QED
      BY <3>1, <3>2, <3>3, <3>4 DEF state
  <2>3. AutoprovFits'
    <3>1. initialized /\ links # {} /\ gateway # NoIP
      BY <1>13 DEF prioritize_routes, Reached, AnswersFit
    <3>2. offset' = 0 /\ UNCHANGED state
      BY <1>13, <3>1 DEF prioritize_routes
    <3>3. QED
      BY <3>1, <3>2 DEF AutoprovFits, state
  <2>4. AnswersFit'
    BY <1>13 DEF prioritize_routes, UnlinkWithDelete, Reached, state, AnswersFit
  <2>5. AddsFit'
    <3>1. UNCHANGED <<state, routes, missed>>
      BY <1>13 DEF prioritize_routes
    <3>2. CASE initialized
      <4>1. \A t \in adds' : t \in dels' /\ (t \in {"subnet", "default"} => subnet # NoIP)
                                        /\ (t = "default" => gateway # NoIP)
        BY <2>a, <3>2, AddRoutesLists
      <4>2. QED
        BY <3>1, <4>1 DEF AddsFit, state
    <3>3. CASE ~initialized
      <4>1. adds' = {}
        BY <1>13, <3>3 DEF prioritize_routes
      <4>2. QED
        BY <4>1 DEF AddsFit
    <3>4. QED
      BY <3>2, <3>3
  <2>6. RoutesFit'
    <3>1. UNCHANGED <<state, routes, missed>> /\ links # {}
      BY <1>13 DEF prioritize_routes, Reached, AnswersFit
    <3>2. CASE initialized
      <4>1. metric' = BaseMetric
        BY <1>13, <3>2 DEF prioritize_routes, metric
      <4>2. \A r \in routes :
              \/ r.type \in dels' \/ r.type \in missed
              \/ /\ r = Route(r.type, BaseMetric)
                 /\ r.type \in {"subnet", "default"} => subnet # NoIP
                 /\ r.type = "default" => gateway # NoIP
        BY <2>a, <3>2, AddRoutesLists
      <4>3. \A r \in routes : Wanted(r.type)' = Route(r.type, BaseMetric)
        BY <3>1, <4>1 DEF Wanted, Route, state
      <4>4. \A r \in routes : r.type \in dels' \/ r.type \in missed \/ Desired(r)'
        BY <3>1, <4>2, <4>3 DEF Desired, state
      <4>5. QED
        BY <3>1, <4>4 DEF RoutesFit, state
    <3>3. CASE ~initialized
      BY <3>1, <3>3 DEF RoutesFit, state
    <3>4. QED
      BY <3>2, <3>3
  <2>7. OneRouteEach'
    BY <1>13 DEF prioritize_routes, UnlinkWithDelete, Reached, state, OneRouteEach
  <2>8. QED
    BY <2>1, <2>2, <2>3, <2>4, <2>5, <2>6, <2>7 DEF IInv
<1>14. CASE OpenAutoprov
  <2>1. TypeOK' /\ ControlFits' /\ AnswersFit' /\ AutoprovFits'
    BY <1>14 DEF OpenAutoprov, Returned, state, AnswersFit, AutoprovFits
  <2>2. AddsFit' /\ RoutesFit' /\ OneRouteEach'
    BY <1>14 DEF OpenAutoprov, Returned, state, AddsFit, RoutesFit, OneRouteEach,
                 Current, Desired, Wanted, Route, metric
  <2>3. QED
    BY <2>1, <2>2 DEF IInv
<1>15. CASE deprioritize_routes
  <2>a. IF initialized THEN add_routes(BaseMetric + 50, "idle") ELSE pc' = "idle"
    BY <1>15 DEF deprioritize_routes
  <2>1. TypeOK'
    <3>1. /\ UNCHANGED <<state, what, routes, missed>>
          /\ updating' = FALSE /\ autoprov' \in BOOLEAN
      BY <1>15 DEF deprioritize_routes, UnlinkWithDelete
    <3>2. CASE initialized
      <4>1. /\ dels' \subseteq RouteType /\ adds' \subseteq RouteType /\ pc' = "idle"
            /\ faulted' \in BOOLEAN
        BY <2>a, <3>2, AddRoutesLists
      <4>2. offset' = 50
        BY <1>15, <3>2 DEF deprioritize_routes
      <4>3. QED
        BY <3>1, <4>1, <4>2 DEF state
    <3>3. CASE ~initialized
      <4>1. UNCHANGED <<dels, adds, offset, faulted>> /\ pc' = "idle"
        BY <1>15, <3>3 DEF deprioritize_routes
      <4>2. QED
        BY <3>1, <4>1 DEF state
    <3>4. QED
      BY <3>2, <3>3
  <2>2. ControlFits'
    <3>1. UNCHANGED <<state, what, routes>> /\ updating' = FALSE /\ pc' = "idle"
      BY <1>15, <2>a, AddRoutesLists DEF deprioritize_routes
    <3>2. links # {}
      BY <1>15 DEF deprioritize_routes, Reached, AnswersFit
    <3>3. ~initialized => UNCHANGED <<dels, adds>>
      BY <1>15 DEF deprioritize_routes
    <3>5. QED
      BY <3>1, <3>2, <3>3 DEF state
  <2>3. AnswersFit' /\ AutoprovFits'
    BY <1>15 DEF deprioritize_routes, Reached, state, AnswersFit, AutoprovFits
  <2>4. AddsFit'
    <3>1. UNCHANGED <<state, routes, missed>>
      BY <1>15 DEF deprioritize_routes
    <3>2. CASE initialized
      <4>1. \A t \in adds' : t \in dels' /\ (t \in {"subnet", "default"} => subnet # NoIP)
                                        /\ (t = "default" => gateway # NoIP)
        BY <2>a, <3>2, AddRoutesLists
      <4>2. QED
        BY <3>1, <4>1 DEF AddsFit, state
    <3>3. CASE ~initialized
      <4>1. adds' = {}
        BY <1>15, <3>3 DEF deprioritize_routes
      <4>2. QED
        BY <4>1 DEF AddsFit
    <3>4. QED
      BY <3>2, <3>3
  <2>5. RoutesFit'
    <3>1. UNCHANGED <<state, routes, missed>> /\ links # {}
      BY <1>15 DEF deprioritize_routes, Reached, AnswersFit
    <3>2. CASE initialized
      <4>1. metric' = BaseMetric + 50
        BY <1>15, <3>2 DEF deprioritize_routes, metric
      <4>2. \A r \in routes :
              \/ r.type \in dels' \/ r.type \in missed
              \/ /\ r = Route(r.type, BaseMetric + 50)
                 /\ r.type \in {"subnet", "default"} => subnet # NoIP
                 /\ r.type = "default" => gateway # NoIP
        BY <2>a, <3>2, AddRoutesLists
      <4>3. \A r \in routes : Wanted(r.type)' = Route(r.type, BaseMetric + 50)
        BY <3>1, <4>1 DEF Wanted, Route, state
      <4>4. \A r \in routes : r.type \in dels' \/ r.type \in missed \/ Desired(r)'
        BY <3>1, <4>2, <4>3 DEF Desired, state
      <4>5. QED
        BY <3>1, <4>4 DEF RoutesFit, state
    <3>3. CASE ~initialized
      BY <3>1, <3>3 DEF RoutesFit, state
    <3>4. QED
      BY <3>2, <3>3
  <2>6. OneRouteEach'
    BY <1>15 DEF deprioritize_routes, Reached, state, OneRouteEach
  <2>7. QED
    BY <2>1, <2>2, <2>3, <2>4, <2>5, <2>6 DEF IInv
<1>16. CASE DeleteAll
  <2>1. TypeOK' /\ ControlFits' /\ AnswersFit' /\ AutoprovFits'
    BY <1>16 DEF DeleteAll, Reached, state, AnswersFit, AutoprovFits
  <2>2. AddsFit' /\ RoutesFit' /\ OneRouteEach'
    BY <1>16 DEF DeleteAll, Reached, state, AddsFit, RoutesFit, OneRouteEach,
                 Current
  <2>3. QED
    BY <2>1, <2>2 DEF IInv
<1>17. CASE \E t \in RouteType : delete_route(t)
  <2>1. TypeOK'
    <3>1. /\ routes' \subseteq routes /\ dels' \subseteq dels
          /\ missed' \subseteq RouteType /\ faulted' \in BOOLEAN
      BY <1>17 DEF delete_route
    <3>2. UNCHANGED <<state, offset, pc, what, updating, adds, autoprov>>
      BY <1>17 DEF delete_route
    <3>3. QED
      BY <3>1, <3>2 DEF state
  <2>2. ControlFits' /\ AnswersFit' /\ AutoprovFits'
    BY <1>17 DEF delete_route, state, AnswersFit, AutoprovFits
  <2>3. AddsFit'
    BY <1>17 DEF delete_route, state, AddsFit, Current
  <2>4. RoutesFit'
    BY <1>17 DEF delete_route, state, RoutesFit, Desired, Wanted, Route, metric,
                 Current
  <2>5. OneRouteEach'
    BY <1>17 DEF delete_route, state, OneRouteEach, Current
  <2>6. QED
    BY <2>1, <2>2, <2>3, <2>4, <2>5 DEF IInv
<1>18. CASE \E t \in RouteType : AddRoute(t)
  <2>a. PICK t \in adds : AddRoute(t)
    BY <1>18 DEF AddRoute
  <2>b. /\ UNCHANGED <<state, offset, pc, what, updating, dels, autoprov, missed>>
        /\ dels = {} /\ adds' = adds \ {t} /\ faulted' \in BOOLEAN
        /\ routes' = routes \/ routes' = routes \cup {Wanted(t)}
    BY <2>a DEF AddRoute
  <2>c. /\ t \in {"subnet", "default"} => subnet # NoIP
        /\ t = "default" => gateway # NoIP
        /\ t \in missed \/ Current(t) = {}
    BY <2>b DEF AddsFit
  <2>d. Wanted(t).type = t
    BY DEF Wanted, Route
  <2>1. TypeOK'
    <3>1. Wanted(t) \in [type : RouteType,
                         dest : Subnet \cup Gateway \cup {RFC2385_MULTICAST_ROUTE},
                         metric : {BaseMetric, BaseMetric + 50}]
      <4>1. metric \in {BaseMetric, BaseMetric + 50}
        BY DEF metric
      <4>2. t \in RouteType
        OBVIOUS
      <4>3. CASE t = "default"
        BY <2>c, <4>1, <4>3 DEF Wanted, Route
      <4>4. CASE t = "subnet"
        BY <2>c, <4>1, <4>4 DEF Wanted, Route
      <4>5. CASE t = "multicast"
        BY <4>1, <4>5 DEF Wanted, Route
      <4>6. QED
        BY <4>2, <4>3, <4>4, <4>5
    <3>2. QED
      BY <2>b, <3>1 DEF state
  <2>2. ControlFits' /\ AnswersFit' /\ AutoprovFits'
    BY <1>18 DEF AddRoute, state, AnswersFit, AutoprovFits
  <2>3. AddsFit'
    BY <1>18 DEF AddRoute, state, AddsFit, Current, Wanted, Route
  <2>4. RoutesFit'
    <3>1. Desired(Wanted(t))
      BY <2>c, <2>d DEF Desired
    <3>2. \A r \in routes' : Desired(r)' <=> Desired(r)
      BY <2>b DEF Desired, Wanted, Route, metric, state
    <3>3. links # {}
      OBVIOUS
    <3>4. QED
      BY <2>b, <3>1, <3>2, <3>3 DEF RoutesFit, state
  <2>5. OneRouteEach'
    <3>1. t \in missed \/ \A r \in routes : r.type # t
      BY <2>c DEF Current
    <3>2. QED
      BY <2>b, <2>d, <3>1 DEF OneRouteEach
  <2>6. QED
    BY <2>1, <2>2, <2>3, <2>4, <2>5 DEF IInv
<1>19. CASE KernelDrops
  <2>1. TypeOK' /\ ControlFits' /\ AnswersFit' /\ AutoprovFits'
    BY <1>19 DEF KernelDrops, state, control, AnswersFit, AutoprovFits
  <2>2. AddsFit' /\ RoutesFit' /\ OneRouteEach'
    BY <1>19 DEF KernelDrops, state, control, AddsFit, RoutesFit, OneRouteEach,
                 Current, Desired, Wanted, Route, metric
  <2>3. QED
    BY <2>1, <2>2 DEF IInv
<1>20. CASE Restart
  <2>1. TypeOK' /\ ControlFits' /\ AnswersFit' /\ AutoprovFits'
    BY <1>20 DEF Restart, expired, AnswersFit, AutoprovFits
  <2>2. AddsFit' /\ RoutesFit' /\ OneRouteEach'
    BY <1>20 DEF Restart, expired, AddsFit, RoutesFit, OneRouteEach
  <2>3. QED
    BY <2>1, <2>2 DEF IInv
<1>21. CASE UNCHANGED vars
  <2>1. TypeOK' /\ ControlFits' /\ AnswersFit' /\ AutoprovFits'
    BY <1>21 DEF vars, state, control, AnswersFit, AutoprovFits
  <2>2. AddsFit' /\ RoutesFit' /\ OneRouteEach'
    BY <1>21 DEF vars, state, control, AddsFit, RoutesFit, OneRouteEach, Current,
                 Desired, Wanted, Route, metric
  <2>3. QED
    BY <2>1, <2>2 DEF IInv
<1>22. QED
  BY <1>1, <1>2, <1>3, <1>4, <1>5, <1>6, <1>7, <1>8, <1>9, <1>10, <1>11,
     <1>12, <1>13, <1>14, <1>15, <1>16, <1>17, <1>18, <1>19, <1>20, <1>21 DEF
     Next, Call, Step

-----------------------------------------------------------------------------
\* The inductive invariant holds always.
THEOREM InductiveInvariant == Spec => []IInv
<1>1. Init => IInv
  BY InitIInv
<1>2. IInv /\ [Next]_vars => IInv'
  BY NextIInv
<1>3. QED
  BY <1>1, <1>2, PTL DEF Spec

\* Type correctness.
THEOREM TypeCorrect == Spec => []TypeOK
<1>1. IInv => TypeOK
  BY DEF IInv
<1>2. QED
  BY <1>1, InductiveInvariant, PTL

\* However many commands fail and wherever conman is killed, an interface never
\* has two routes of a type, except of a type of which a failed listing has hidden
\* a route from delete_route (add_routes, delete_route of interface.py).
THEOREM NoDuplicates == Spec => []OneRouteEach
<1>1. IInv => OneRouteEach
  BY DEF IInv
<1>2. QED
  BY <1>1, InductiveInvariant, PTL

\* Between calls an initialized interface has no stale route, and none at all
\* when it has no link, but for those that a failed listing has hidden from
\* delete_route (update_routes of interface.py).
THEOREM RoutesFresh == Spec => []NoStaleRoutes
<1>1. IInv => NoStaleRoutes
  <2>1. SUFFICES ASSUME IInv, Idle, initialized
                 PROVE  \A r \in routes :
                          r.type \in missed \/ (links # {} /\ r = Wanted(r.type))
    BY DEF NoStaleRoutes
  <2>2. dels = {} /\ (updating => pc = "run")
    BY <2>1 DEF IInv, ControlFits, Idle
  <2>3. QED
    BY <2>1, <2>2 DEF IInv, RoutesFit, Desired
<1>2. QED
  BY <1>1, InductiveInvariant, PTL

\* The autoprovisioning file never outlives the wired connection that it
\* announces (Bridge of interface.py).
THEOREM AutoprovCorrect == Spec => []AutoprovJustified
<1>1. IInv => AutoprovJustified
  <2>1. ASSUME IInv, Idle PROVE ~updating
    BY <2>1 DEF IInv, ControlFits, Idle
  <2>2. QED
    BY <2>1 DEF IInv, AutoprovFits, AutoprovJustified
<1>2. QED
  BY <1>1, InductiveInvariant, PTL

-----------------------------------------------------------------------------
(* Routes are repaired *)

\* An interface that should have all routes, and a kernel that has done what it
\* was told since the last update_routes began.
Repairable ==
  /\ ~faulted /\ initialized
  /\ links # {} /\ gateway # NoIP /\ subnet = NetOf[gateway]

\* Outside update_routes, and once it has called add_routes, each of the routes is
\* there or will be added, none is deleted for good, and none stands in the way of
\* the one that is added next.
Complete ==
  /\ dels \subseteq adds
  /\ \A t \in RouteType : t \in adds \/ Wanted(t) \in routes
  /\ \A t \in adds : t \in dels \/ Current(t) = {}
Repairing == Repairable /\ (updating => pc = "run") => Complete

\* add_routes sees to every route that has an address, also when it sees none.
LEMMA AddRoutesCompletes ==
  ASSUME NEW m, NEW next, add_routes(m, next), metric' = m,
         gateway # NoIP, subnet # NoIP, UNCHANGED <<gateway, subnet, routes>>
  PROVE  Complete' /\ (~faulted' => ~faulted)
<1>1. PICK right \in Looks(m) \cup {{}} : dels' = ToAdd(right) /\ adds' = ToAdd(right)
  BY DEF add_routes, Unwanted
<1>2. ASSUME NEW t \in RouteType, t \notin ToAdd(right) PROVE Route(t, m) \in routes
  <2>1. t \in right
    BY <1>2 DEF ToAdd
  <2>2. QED
    BY <2>1 DEF Looks
<1>3. ASSUME NEW t \in RouteType PROVE Wanted(t)' = Route(t, m)
  BY DEF Wanted, Route
<1>4. ~faulted' => ~faulted
  BY DEF add_routes
<1>5. QED
  BY <1>1, <1>2, <1>3, <1>4 DEF Complete

\* A step that leaves the routes alone.
LEMMA RoutesLeftAlone ==
  ASSUME Repairing, UNCHANGED <<gateway, subnet, offset, routes, dels, adds>>,
         (Repairable /\ (updating => pc = "run"))'
           => Repairable /\ (updating => pc = "run")
  PROVE  Repairing'
<1>1. \A t \in RouteType : Wanted(t)' = Wanted(t)
  BY DEF Wanted, Route, metric
<1>2. Complete => Complete'
  BY <1>1 DEF Complete, Current
<1>3. QED
  BY <1>2 DEF Repairing

LEMMA RepairingStep == IInv /\ Repairing /\ [Next]_vars => Repairing'
<1> SUFFICES ASSUME IInv, Repairing, [Next]_vars PROVE Repairing'
  OBVIOUS
<1> USE InterfaceAssumption, NamesAssumption
<1>a. TypeOK /\ ControlFits
  BY DEF IInv
<1>1. CASE \E l \in Link, up \in {True, False} : SetLink(l, up)
  BY <1>1, RoutesLeftAlone DEF SetLink, set_link_status, BeginUpdate, Idle, control,
                               Repairable
<1>2. CASE \E s \in Station : add_moca_station(s)
  BY <1>2, RoutesLeftAlone DEF add_moca_station, set_link_status, BeginUpdate, Idle,
                               control, Repairable
<1>3. CASE \E s \in Station : remove_moca_station(s)
  BY <1>3, RoutesLeftAlone DEF remove_moca_station, set_link_status, BeginUpdate, Idle,
                               control, Repairable
<1>4. CASE \/ \E g \in Gateway \cup {NoIP} : set_gateway_ip(g)
           \/ \E s \in Subnet \cup {NoIP} : set_subnet(s)
           \/ initialize \/ update_routes
  <2>1. pc' = "check" /\ updating'
    BY <1>4 DEF set_gateway_ip, set_subnet, initialize, update_routes, BeginUpdate
  <2>2. QED
    BY <2>1 DEF Repairing
<1>5. CASE expire_connection_status_cache
  BY <1>5, RoutesLeftAlone DEF expire_connection_status_cache, control, Repairable
<1>6. CASE \E c \in Check : Ask(c)
  BY <1>a, <1>6, RoutesLeftAlone DEF Ask, Idle, state, Repairable, ControlFits
<1>7. CASE CheckCached
  BY <1>a, <1>7, RoutesLeftAlone DEF CheckCached, Answer, Repairable, ControlFits, TypeOK
<1>8. CASE RunCheck
  BY <1>a, <1>8, RoutesLeftAlone DEF RunCheck, Answer, Repairable, ControlFits, TypeOK
<1>9. CASE CheckRoutes
  <2>1. add_routes(metric, "run") /\ metric' = metric /\ UNCHANGED <<gateway, subnet, routes>>
    BY <1>9 DEF CheckRoutes, metric, state
  <2>2. /\ Repairable => gateway # NoIP /\ subnet # NoIP
        /\ Repairable' => Repairable
    BY <1>a, <1>9 DEF Repairable, CheckRoutes, add_routes, state, TypeOK
  <2>3. QED
    BY <2>1, <2>2, AddRoutesCompletes DEF Repairing
<1>10. CASE prioritize_routes
  <2>1. UNCHANGED <<gateway, subnet, routes, initialized>> /\ (Repairable' => Repairable)
    BY <1>10 DEF prioritize_routes, add_routes, state, Repairable
  <2>2. Repairable => gateway # NoIP /\ subnet # NoIP /\ initialized
    BY <1>a DEF Repairable, TypeOK
  <2>3. initialized => add_routes(BaseMetric, "open") /\ metric' = BaseMetric
    BY <1>10 DEF prioritize_routes, metric
  <2>4. QED
    BY <2>1, <2>2, <2>3, AddRoutesCompletes DEF Repairing
<1>11. CASE OpenAutoprov
  BY <1>a, <1>11, RoutesLeftAlone DEF OpenAutoprov, state, Repairable, ControlFits
<1>12. CASE deprioritize_routes
  <2>1. UNCHANGED <<gateway, subnet, routes, initialized>> /\ (Repairable' => Repairable)
    BY <1>12 DEF deprioritize_routes, add_routes, state, Repairable
  <2>2. Repairable => gateway # NoIP /\ subnet # NoIP /\ initialized
    BY <1>a DEF Repairable, TypeOK
  <2>3. initialized => add_routes(BaseMetric + 50, "idle") /\ metric' = BaseMetric + 50
    BY <1>12 DEF deprioritize_routes, metric
  <2>4. QED
    BY <2>1, <2>2, <2>3, AddRoutesCompletes DEF Repairing
<1>13. CASE DeleteAll
  BY <1>13 DEF DeleteAll, state, Repairing, Repairable
<1>14. CASE \E t \in RouteType : delete_route(t)
  <2>1. PICK t \in RouteType : delete_route(t)
    BY <1>14
  <2>2. /\ UNCHANGED <<state, offset, pc, updating, adds>> /\ dels' \subseteq dels
        /\ ~faulted' => ~faulted /\ (t \in dels' \/ Current(t)' = {})
        /\ dels \subseteq dels' \cup {t} /\ routes' \subseteq routes
        /\ t \in dels /\ \A r \in routes : r \in routes' \/ r.type = t
    BY <2>1 DEF delete_route, Current
  <2>3. \A u \in RouteType : Wanted(u).type = u /\ Wanted(u)' = Wanted(u)
    BY <2>2 DEF Wanted, Route, metric, state
  <2>4. Repairable' => Repairable
    BY <2>2 DEF Repairable, state
  <2>5. ~faulted' /\ Complete => Complete'
    BY <2>2, <2>3 DEF Complete, Current
  <2>6. QED
    BY <2>2, <2>4, <2>5 DEF Repairing, Repairable
<1>15. CASE \E t \in RouteType : AddRoute(t)
  <2>1. PICK t \in RouteType : AddRoute(t)
    BY <1>15
  <2>2. /\ UNCHANGED <<state, offset, pc, updating, dels>> /\ adds' = adds \ {t}
        /\ routes' \in {routes, routes \cup {Wanted(t)}} /\ dels = {} /\ t \in adds
        /\ ~faulted' => ~faulted /\ (Wanted(t) \in routes' \/ ~Accepts(t))
        /\ \A u \in adds : AddOrder[t] <= AddOrder[u]
    BY <1>a, <2>1 DEF AddRoute, TypeOK
  <2>3. \A u \in RouteType : Wanted(u)' = Wanted(u) /\ Wanted(u).type = u
    BY <2>2 DEF Wanted, Route, metric, state
  <2>4. ASSUME Repairable, Complete PROVE Accepts(t)
    <3>1. CASE t # "default"
      BY <3>1 DEF Accepts
    <3>2. CASE t = "default"
      <4>1. "subnet" \notin adds
        BY <2>2, <3>2 DEF AddOrder
      <4>2. Wanted("subnet") \in routes
        BY <2>4, <4>1 DEF Complete, RouteType
      <4>3. Wanted("subnet").type = "subnet" /\ Wanted("subnet").dest = subnet
        BY DEF Wanted, Route
      <4>4. QED
        BY <2>2, <2>4, <3>2, <4>2, <4>3 DEF Accepts, Current, Repairable, Complete
    <3>3. QED
      BY <3>1, <3>2
  <2>5. Repairable' => Repairable
    BY <2>2 DEF Repairable, state
  <2>6. Repairable' /\ Complete => Complete'
    BY <1>a, <2>2, <2>3, <2>4, <2>5 DEF Complete, Repairable, Current, TypeOK
  <2>7. QED
    BY <2>2, <2>5, <2>6 DEF Repairing
<1>16. CASE KernelDrops
  BY <1>16 DEF KernelDrops, Repairing, Repairable
<1>17. CASE Restart
  BY <1>17 DEF Restart, Repairing, Repairable
<1>18. CASE UNCHANGED vars
  BY <1>18, RoutesLeftAlone DEF vars, state, control, Repairable
<1>19. QED
  BY <1>1, <1>2, <1>3, <1>4, <1>5, <1>6, <1>7, <1>8, <1>9, <1>10, <1>11, <1>12,
     <1>13, <1>14, <1>15, <1>16, <1>17, <1>18 DEF Next, Call, Step

\* With any routes left behind by earlier processes or taken away by the kernel:
\* once update_routes has run with a kernel that does what it is told, an
\* interface with a link and its addresses has all its routes (update_routes,
\* add_routes of interface.py).
THEOREM RoutesAreRepaired == Spec => []RoutesRepaired
<1>1. Init => Repairing
  BY DEF Init, Repairing, Repairable
<1>2. IInv /\ Repairing /\ [Next]_vars => Repairing'
  BY RepairingStep
<1>3. IInv /\ Repairing => RoutesRepaired
  <2> SUFFICES ASSUME IInv, Repairing, Repairable, Idle
               PROVE  \A t \in RouteType : Wanted(t) \in routes
    BY DEF RoutesRepaired, Repairable
  <2>1. ~updating /\ adds = {}
    BY DEF IInv, ControlFits, Idle
  <2>2. QED
    BY <2>1 DEF Repairing, Complete
<1>4. QED
  BY <1>1, <1>2, <1>3, InductiveInvariant, PTL DEF Spec
=============================================================================
