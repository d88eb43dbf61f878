------------------------------ MODULE MCHostIO ------------------------------
(* What depends on somebody outside the server: its file on the disk, the    *)
(* daemons behind the WebSockets, the subscribers events are sent to, and    *)
(* whoever installs an update.  A behaviour is about one of them, one start  *)
(* after the other, one connection, one set of subscribers or one table of   *)
(* operations, and the others rest.                                          *)
EXTENDS PersistentStore, WebSocketProxy, EventService, UpdateService

\* The clock advances, and is set back too.
ClockAdjusted == {-1, 1}

\* The POST bodies: no type, one type, two, and one nobody knows.
SomeTypes == {{}, {"StatusChange"}, {"Alert", "ResourceAdded"}, {"MetricReport"}}

\* Absent, out of range, and in range.
SomeAttempts == {Absent, 0, 1}
SomeIntervals == {Absent, 5, 200}

VARIABLE side   \* which one this behaviour is about

hostVars == <<side, persistentVars, proxyVars, eventVars, now, updateVars>>

HostInit ==
    /\ side \in {"file", "socket", "events", "updates"}
    /\ PersistentInit /\ ProxyInit /\ EventInit /\ UpdateInit

HostNext ==
    \/ /\ side = "file" /\ PersistentNext
       /\ UNCHANGED <<side, proxyVars, eventVars, now, updateVars>>
    \/ /\ side = "socket" /\ ProxyNext
       /\ UNCHANGED <<side, persistentVars, eventVars, now, updateVars>>
    \/ /\ side = "events" /\ EventNext
       /\ UNCHANGED <<side, persistentVars, proxyVars, now, updateVars>>
    \/ /\ side = "updates" /\ UpdateNext
       /\ UNCHANGED <<side, persistentVars, proxyVars, eventVars>>

\* The fairness of FairProxySpec and of FairEventSpec.
HostSpec ==
    /\ HostInit /\ [][HostNext]_hostVars
    /\ WF_proxyVars(side = "socket" /\ Handler)
    /\ WF_proxyVars(side = "socket" /\ Down) /\ WF_proxyVars(side = "socket" /\ Up)
    /\ \A d \in Deliveries : WF_eventVars(Reach(d))
=============================================================================
