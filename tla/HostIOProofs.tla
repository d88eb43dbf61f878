------------------------------ MODULE HostIOProofs ------------------------------
(***************************************************************************)
(* What the server does with the machine it runs on: the system UUID on    *)
(* disk, for any supply of UUIDs and any order of kills, failed calls and  *)
(* power cuts; and the proxies behind its WebSockets, for any windows and  *)
(* read buffer, any amount of data and either end leaving at any time.     *)
(***************************************************************************)
EXTENDS PersistentStore, WebSocketProxy, SequenceTheorems, TLAPS

-----------------------------------------------------------------------------
(* The system UUID.  The type invariant says what the process holds at     *)
(* each point; to be inductive it only lacks what a boot knows between     *)
(* loading and announcing.                                                 *)

\* What was loaded without a failure is what the file says, if it says one.
LoadedMatches == pc = "loaded" /\ ~ failed => file \in {uuid, Missing, Torn}

\* What a boot without a failure announced is in the file, if that is whole.
AnnouncedIsStored == last # Missing => file \in {last, Torn}

\* The inductive invariant.
PersistentInv ==
    PersistentTypeOK /\ NeverTorn /\ ServedIsStored /\ LoadedMatches /\ AnnouncedIsStored

LEMMA PersistentInit_Inv == PersistentInit => PersistentInv
BY PersistentAssumption
   DEF PersistentInit, PersistentInv, PersistentTypeOK, NeverTorn, ServedIsStored,
       LoadedMatches, AnnouncedIsStored

LEMMA PersistentNext_Inv ==
    PersistentInv /\ [PersistentNext]_persistentVars => PersistentInv'
<1> SUFFICES ASSUME PersistentInv, [PersistentNext]_persistentVars
             PROVE  PersistentInv'
  OBVIOUS
<1> USE PersistentAssumption
    DEF PersistentInv, PersistentTypeOK, NeverTorn, ServedIsStored, LoadedMatches,
        AnnouncedIsStored, At
<1>1. CASE Load
  BY <1>1 DEF Load, Default, disk
<1>2. CASE Announce
  BY <1>2 DEF Announce, NeedsSave, disk
<1>3. CASE SaveOpen
  BY <1>3 DEF SaveOpen, NeedsSave
<1>4. CASE SaveWrite
  BY <1>4 DEF SaveWrite
<1>5. CASE SaveRename
  BY <1>5 DEF SaveRename
<1>6. CASE SaveFails
  BY <1>6 DEF SaveFails, NeedsSave, disk
<1>7. CASE Kill
  BY <1>7 DEF Kill, disk
<1>8. CASE WriteBack
  BY <1>8 DEF WriteBack, process
<1>9. CASE PowerCut
  BY <1>9 DEF PowerCut
<1>10. CASE UNCHANGED persistentVars
  BY <1>10 DEF persistentVars, disk, process
<1> QED
  BY <1>1, <1>2, <1>3, <1>4, <1>5, <1>6, <1>7, <1>8, <1>9, <1>10 DEF PersistentNext

\* The three state properties, of every boot after every history.
LEMMA PersistentInvCorrect == PersistentSpec => []PersistentInv
BY PersistentInit_Inv, PersistentNext_Inv, PTL DEF PersistentSpec

\* What the process holds at each point of a boot.
THEOREM PersistentTypeCorrect == PersistentSpec => []PersistentTypeOK
BY PersistentInvCorrect, PTL DEF PersistentInv

\* Only a power cut leaves half a file: no kill and no failed call does.
THEOREM NeverTornCorrect == PersistentSpec => []NeverTorn
BY PersistentInvCorrect, PTL DEF PersistentInv

\* A boot serves what is stored, unless a call failed or the file is torn.
THEOREM ServedIsStoredCorrect == PersistentSpec => []ServedIsStored
BY PersistentInvCorrect, PTL DEF PersistentInv

\* A stored UUID is never changed by the program.  The only step that writes
\* config.json is the rename, at a point where the invariant says that there
\* is no file.
THEOREM StoredUuidKeptCorrect == PersistentSpec => StoredUuidKept
<1>1. PersistentInv /\ [PersistentNext]_persistentVars
        => [file' = file \/ file = Missing \/ PowerCut]_persistentVars
  <2> SUFFICES ASSUME PersistentInv, PersistentNext
               PROVE  file' = file \/ file = Missing \/ PowerCut
    OBVIOUS
  <2>1. CASE SaveRename
    BY <2>1 DEF SaveRename, At, PersistentInv, PersistentTypeOK
  <2>2. CASE Load \/ Announce \/ SaveOpen \/ SaveWrite \/ SaveFails \/ Kill \/ WriteBack
    BY <2>2 DEF Load, Announce, SaveOpen, SaveWrite, SaveFails, Kill, WriteBack, disk
  <2> QED
    BY <2>1, <2>2 DEF PersistentNext
<1> QED
  BY <1>1, PersistentInvCorrect, PTL DEF PersistentSpec, StoredUuidKept

\* As long as the file is whole, every boot without a failure announces what
\* the last one announced, whatever happened to the boots in between.
THEOREM UuidStableUnlessTornCorrect == PersistentSpec => UuidStableUnlessTorn
<1>1. PersistentInv /\ [PersistentNext]_persistentVars
        => [last # Missing /\ last' # Missing /\ file # Torn => last' = last]_persistentVars
  <2> SUFFICES ASSUME PersistentInv, PersistentNext,
                      last # Missing, last' # Missing, file # Torn
               PROVE  last' = last
    OBVIOUS
  <2>0. file = last /\ file \in drawn /\ Missing \notin drawn
    BY PersistentAssumption DEF PersistentInv, PersistentTypeOK, AnnouncedIsStored
  <2>1. CASE Announce
    BY <2>0, <2>1 DEF Announce, At, PersistentInv, LoadedMatches
  <2>2. CASE SaveRename
    BY <2>0, <2>2 DEF SaveRename, At, PersistentInv, PersistentTypeOK
  <2>3. CASE Load \/ SaveOpen \/ SaveWrite \/ SaveFails \/ Kill \/ WriteBack \/ PowerCut
    BY <2>3 DEF Load, SaveOpen, SaveWrite, SaveFails, Kill, WriteBack, PowerCut
  <2> QED
    BY <2>1, <2>2, <2>3 DEF PersistentNext
<1> QED
  BY <1>1, PersistentInvCorrect, PTL DEF PersistentSpec, UuidStableUnlessTorn

-----------------------------------------------------------------------------
(* Runs of consecutive items.                                              *)

\* A sequence follows item n if its first part does, and its second part
\* follows the last item of the first.
LEMMA FollowsConcat ==
    ASSUME NEW s \in Seq(Nat), NEW t \in Seq(Nat), NEW n \in Nat
    PROVE  Follows(s \o t, n) <=> Follows(s, n) /\ Follows(t, n + Len(s))
<1>1. ASSUME Follows(s \o t, n) PROVE Follows(s, n)
  <2> SUFFICES ASSUME NEW i \in DOMAIN s PROVE s[i] = n + i
    BY DEF Follows
  <2>1. i \in DOMAIN (s \o t) /\ (s \o t)[i] = s[i]
    OBVIOUS
  <2> QED
    BY <1>1, <2>1 DEF Follows
<1>2. ASSUME Follows(s \o t, n) PROVE Follows(t, n + Len(s))
  <2> SUFFICES ASSUME NEW i \in DOMAIN t PROVE t[i] = (n + Len(s)) + i
    BY DEF Follows
  <2>1. /\ Len(s) + i \in DOMAIN (s \o t)
        /\ (s \o t)[Len(s) + i] = t[i]
    OBVIOUS
  <2> QED
    BY <1>2, <2>1 DEF Follows
<1>3. ASSUME Follows(s, n), Follows(t, n + Len(s)) PROVE Follows(s \o t, n)
  <2> SUFFICES ASSUME NEW i \in 1..(Len(s) + Len(t)) PROVE (s \o t)[i] = n + i
    BY DEF Follows
  <2>1. CASE i <= Len(s)
    BY <1>3, <2>1 DEF Follows
  <2>2. CASE i > Len(s)
    <3>1. i - Len(s) \in DOMAIN t /\ (s \o t)[i] = t[i - Len(s)]
      BY <2>2
    <3> QED
      BY <1>3, <3>1 DEF Follows
  <2> QED
    BY <2>1, <2>2
<1> QED
  BY <1>1, <1>2, <1>3

\* The next item may be added at the end.
LEMMA FollowsAppend ==
    ASSUME NEW s \in Seq(Nat), NEW n \in Nat, Follows(s, n)
    PROVE  Follows(Append(s, n + Len(s) + 1), n)
BY DEF Follows

\* The first item may be taken away.
LEMMA FollowsTail ==
    ASSUME NEW s \in Seq(Nat), NEW n \in Nat, Follows(s, n), s # <<>>
    PROVE  /\ Head(s) = n + 1 /\ Follows(<<Head(s)>>, n)
           /\ Tail(s) \in Seq(Nat) /\ Len(Tail(s)) = Len(s) - 1
           /\ Follows(Tail(s), n + 1)
<1>1. Tail(s) \in Seq(Nat) /\ Len(Tail(s)) = Len(s) - 1
  OBVIOUS
<1>2. Head(s) = s[1] /\ 1 \in DOMAIN s
  OBVIOUS
<1>3. Head(s) = n + 1
  BY <1>2 DEF Follows
<1>4. Follows(<<Head(s)>>, n)
  BY <1>3 DEF Follows
<1>5. Follows(Tail(s), n + 1)
  <2> SUFFICES ASSUME NEW i \in 1..(Len(s) - 1) PROVE Tail(s)[i] = (n + 1) + i
    BY <1>1 DEF Follows
  <2>1. Tail(s)[i] = s[i + 1] /\ i + 1 \in DOMAIN s
    OBVIOUS
  <2> QED
    BY <2>1 DEF Follows
<1> QED
  BY <1>1, <1>3, <1>4, <1>5

\* A run may be cut anywhere.
LEMMA FollowsCut ==
    ASSUME NEW s \in Seq(Nat), NEW n \in Nat, Follows(s, n), NEW k \in 1..Len(s)
    PROVE  /\ SubSeq(s, 1, k) \in Seq(Nat) /\ Len(SubSeq(s, 1, k)) = k
           /\ Follows(SubSeq(s, 1, k), n)
           /\ SubSeq(s, k + 1, Len(s)) \in Seq(Nat)
           /\ Len(SubSeq(s, k + 1, Len(s))) = Len(s) - k
           /\ Follows(SubSeq(s, k + 1, Len(s)), n + k)
<1>1. /\ SubSeq(s, 1, k) \in Seq(Nat) /\ Len(SubSeq(s, 1, k)) = k
      /\ \A i \in 1..k : SubSeq(s, 1, k)[i] = s[i]
  OBVIOUS
<1>2. Follows(SubSeq(s, 1, k), n)
  BY <1>1 DEF Follows
<1>3. /\ SubSeq(s, k + 1, Len(s)) \in Seq(Nat)
      /\ Len(SubSeq(s, k + 1, Len(s))) = Len(s) - k
      /\ \A i \in 1..(Len(s) - k) : SubSeq(s, k + 1, Len(s))[i] = s[k + i]
  <2>1. k + 1 \in Int /\ Len(s) \in Nat /\ k <= Len(s)
    OBVIOUS
  <2>2. SubSeq(s, k + 1, Len(s)) \in Seq(Nat)
    BY <2>1
  <2>3. Len(SubSeq(s, k + 1, Len(s))) = Len(s) - k
    BY <2>1
  <2>4. \A i \in 1..(Len(s) - k) : SubSeq(s, k + 1, Len(s))[i] = s[k + i]
    BY <2>1
  <2> QED
    BY <2>2, <2>3, <2>4
<1>4. Follows(SubSeq(s, k + 1, Len(s)), n + k)
  <2> SUFFICES ASSUME NEW i \in 1..(Len(s) - k)
               PROVE  SubSeq(s, k + 1, Len(s))[i] = (n + k) + i
    BY <1>3 DEF Follows
  <2>1. k + i \in DOMAIN s /\ s[k + i] = n + (k + i)
    BY DEF Follows
  <2> QED
    BY <1>3, <2>1
<1> QED
  BY <1>1, <1>2, <1>3, <1>4

-----------------------------------------------------------------------------
(* The type invariant of the proxy: what the pipes and the tasks hold, and *)
(* how much.                                                               *)

\* A pipe takes one more item.
LEMMA PipeAppend ==
    ASSUME NEW S, NEW most \in Nat, NEW pipe, PipeType(pipe, S, most),
           Len(pipe) < most, NEW e \in S
    PROVE  PipeType(Append(pipe, e), S, most)
BY DEF PipeType

\* One item less is on its way.
LEMMA PipeTail ==
    ASSUME NEW S, NEW most \in Nat, NEW pipe, PipeType(pipe, S, most), pipe # <<>>
    PROVE  /\ Head(pipe) \in S /\ Head(pipe) = pipe[1] /\ 1 \in DOMAIN pipe
           /\ PipeType(Tail(pipe), S, most) /\ Len(Tail(pipe)) = Len(pipe) - 1
           /\ \A k \in DOMAIN Tail(pipe) : k + 1 \in DOMAIN pipe /\ Tail(pipe)[k] = pipe[k + 1]
BY DEF PipeType

\* A task that waits, and one that is over.
LEMMA TaskRests ==
    ASSUME NEW p \in {"reading", "over"}, NEW most \in Nat
    PROVE  /\ TaskType(Task(p, <<>>), most) /\ Len(Task(p, <<>>).holds) = 0
           /\ Task(p, <<>>).holds \in Seq(Nat) /\ Task(p, <<>>).pc = p
<1>1. <<>> \in Seq(Nat) /\ Len(<<>>) = 0
  OBVIOUS
<1>2. PICK e \in Seq(Nat) : e = <<>>
  BY <1>1
<1>3. Len(e) = 0
  BY <1>1, <1>2
<1>4. /\ Task(p, e) \in [pc: {"reading", "writing", "over"}, holds: Seq(Nat)]
      /\ Task(p, e).pc = p /\ Task(p, e).holds = e
  BY DEF Task
<1> QED
  BY <1>2, <1>3, <1>4 DEF TaskType

\* A task that has read something.
LEMMA TaskHolds ==
    ASSUME NEW s \in Seq(Nat), NEW most \in Nat, Len(s) \in 1..most
    PROVE  /\ TaskType(Task("writing", s), most) /\ Task("writing", s).holds = s
           /\ Task("writing", s) # Over
BY DEF Task, TaskType, Over

\* The counters and histories of one direction, without the other one's.
LEMMA OneCount ==
    ASSUME NEW c \in [up: Nat, down: Nat], NEW n \in Nat
    PROVE  /\ [c EXCEPT !.up = n] = [up |-> n, down |-> c.down]
           /\ [c EXCEPT !.down = n] = [up |-> c.up, down |-> n]
OBVIOUS

LEMMA OneHistory ==
    ASSUME NEW h \in [up: Seq(Nat), down: Seq(Nat)], NEW s \in Seq(Nat)
    PROVE  /\ [h EXCEPT !.up = s] = [up |-> s, down |-> h.down]
           /\ [h EXCEPT !.down = s] = [up |-> h.up, down |-> s]
OBVIOUS

LEMMA ProxyInit_Type == ProxyInit => ProxyTypeOK
<1> SUFFICES ASSUME ProxyInit PROVE ProxyTypeOK
  OBVIOUS
<1> USE ProxyAssumption
<1>1. TaskType(up, 1) /\ TaskType(down, Buffer)
  BY TaskRests DEF ProxyInit, Over
<1>2. /\ PipeType(wsIn, Nat, Window) /\ PipeType(sockOut, Nat, Window)
      /\ PipeType(wsOut, Seq(Nat), Window) /\ PipeType(sockIn, Nat, Window + Buffer)
  BY DEF ProxyInit, PipeType
<1>3. \A k \in DOMAIN wsOut : Len(wsOut[k]) \in 1..Buffer
  BY DEF ProxyInit
<1>4. sent \in [up: Nat, down: Nat] /\ got \in [up: Seq(Nat), down: Seq(Nat)]
  BY DEF ProxyInit
<1> QED
  BY <1>1, <1>2, <1>3, <1>4 DEF ProxyInit, ProxyTypeOK

LEMMA ProxyNext_Type ==
    ASSUME ProxyTypeOK, [ProxyNext]_proxyVars
    PROVE  ProxyTypeOK'
<1> USE DEF peers, pipes
<1>a. Window \in Nat /\ Buffer \in Nat /\ Window + Buffer \in Nat
  BY ProxyAssumption DEF ProxyAssumption
<1>b. sent \in [up: Nat, down: Nat] /\ got \in [up: Seq(Nat), down: Seq(Nat)]
  BY DEF ProxyTypeOK
<1>c. /\ PipeType(wsIn, Nat, Window) /\ PipeType(sockOut, Nat, Window)
      /\ PipeType(wsOut, Seq(Nat), Window) /\ PipeType(sockIn, Nat, Window + Buffer)
      /\ \A k \in DOMAIN wsOut : Len(wsOut[k]) \in 1..Buffer
  BY DEF ProxyTypeOK
<1>d. TaskType(up, 1) /\ TaskType(down, Buffer)
  BY DEF ProxyTypeOK
<1>1. CASE ClientSend
  <2>1. sent' = [up |-> sent.up + 1, down |-> sent.down] /\ sent.up + 1 \in Nat
    BY <1>1, <1>b, OneCount DEF ClientSend
  <2>2. sent' \in [up: Nat, down: Nat]
    BY <1>b, <2>1
  <2>3. wsIn' = Append(wsIn, sent.up + 1) /\ Len(wsIn) < Window
    BY <1>1, <2>1 DEF ClientSend
  <2>4. PipeType(wsIn', Nat, Window)
    BY <1>a, <1>c, <2>1, <2>3, PipeAppend
  <2> QED
    BY <1>1, <2>2, <2>4 DEF ClientSend, ProxyTypeOK
<1>2. CASE ClientLeave
  BY <1>2 DEF ClientLeave, ProxyTypeOK
<1>3. CASE ClientReceive
  <2>1. /\ Head(wsOut) = wsOut[1] /\ 1 \in DOMAIN wsOut
        /\ Head(wsOut) \in Seq(Nat) /\ PipeType(Tail(wsOut), Seq(Nat), Window)
        /\ \A k \in DOMAIN Tail(wsOut) :
              k + 1 \in DOMAIN wsOut /\ Tail(wsOut)[k] = wsOut[k + 1]
    BY <1>3, <1>a, <1>c, PipeTail DEF ClientReceive
  <2>2. got.down \o Head(wsOut) \in Seq(Nat)
    BY <1>b, <2>1
  <2>3. got' = [up |-> got.up, down |-> got.down \o Head(wsOut)]
    BY <1>3, <1>b, <2>2, OneHistory DEF ClientReceive
  <2>4. got' \in [up: Seq(Nat), down: Seq(Nat)]
    BY <1>b, <2>2, <2>3
  <2>5. \A k \in DOMAIN Tail(wsOut) : Len(Tail(wsOut)[k]) \in 1..Buffer
    BY <1>c, <2>1
  <2> QED
    BY <1>3, <2>1, <2>4, <2>5 DEF ClientReceive, ProxyTypeOK
<1>4. CASE DaemonWrite
  <2>1. sent' = [up |-> sent.up, down |-> sent.down + 1] /\ sent.down + 1 \in Nat
    <3>1. sent' = [sent EXCEPT !.down = sent.down + 1]
      BY <1>4 DEF DaemonWrite
    <3>2. sent.down + 1 \in Nat
      BY <1>b
    <3> QED
      BY <1>b, <3>1, <3>2, OneCount
  <2>2. sent' \in [up: Nat, down: Nat]
    BY <1>b, <2>1
  <2>3. sockIn' = Append(sockIn, sent.down + 1) /\ Len(sockIn) < Window + Buffer
    <3>1. sent'.down = sent.down + 1
      BY <2>1
    <3> QED
      BY <1>4, <3>1 DEF DaemonWrite
  <2>4. PipeType(sockIn', Nat, Window + Buffer)
    BY <1>a, <1>c, <2>1, <2>3, PipeAppend
  <2> QED
    BY <1>4, <2>2, <2>4 DEF DaemonWrite, ProxyTypeOK
<1>5. CASE DaemonRead
  <2>1. Head(sockOut) \in Nat /\ PipeType(Tail(sockOut), Nat, Window)
    BY <1>5, <1>a, <1>c, PipeTail DEF DaemonRead
  <2>2. Append(got.up, Head(sockOut)) \in Seq(Nat)
    BY <1>b, <2>1
  <2>3. got' = [up |-> Append(got.up, Head(sockOut)), down |-> got.down]
    BY <1>5, <1>b, <2>2, OneHistory DEF DaemonRead
  <2>4. got' \in [up: Seq(Nat), down: Seq(Nat)]
    BY <1>b, <2>2, <2>3
  <2> QED
    BY <1>5, <2>1, <2>4 DEF DaemonRead, ProxyTypeOK
<1>6. CASE DaemonClose
  BY <1>6 DEF DaemonClose, ProxyTypeOK
<1>7. CASE Connect
  <2>1. TaskType(up', 1) /\ TaskType(down', Buffer) /\ handler' = "proxying"
    BY <1>7, <1>a, TaskRests DEF Connect
  <2> QED
    BY <1>7, <2>1 DEF Connect, ProxyTypeOK
<1>8. CASE Unavailable \/ Return
  BY <1>8 DEF Unavailable, Return, ProxyTypeOK
<1>9. CASE DownRead
  <2>1. PICK n \in 1..Buffer :
          /\ n <= Len(sockIn)
          /\ down' = Task("writing", SubSeq(sockIn, 1, n))
          /\ sockIn' = SubSeq(sockIn, n + 1, Len(sockIn))
    BY <1>9 DEF DownRead
  <2>2. sockIn \in Seq(Nat) /\ Len(sockIn) <= Window + Buffer /\ n \in 1..Len(sockIn)
    BY <1>a, <1>c, <2>1 DEF PipeType
  <2>3. /\ SubSeq(sockIn, 1, n) \in Seq(Nat) /\ Len(SubSeq(sockIn, 1, n)) = n
        /\ SubSeq(sockIn, n + 1, Len(sockIn)) \in Seq(Nat)
        /\ Len(SubSeq(sockIn, n + 1, Len(sockIn))) = Len(sockIn) - n
    BY <2>2
  <2>4. TaskType(down', Buffer)
    BY <1>a, <2>1, <2>3, TaskHolds
  <2>5. Len(sockIn') <= Window + Buffer
    BY <1>a, <2>1, <2>2, <2>3
  <2>6. PipeType(sockIn', Nat, Window + Buffer)
    BY <2>1, <2>3, <2>5 DEF PipeType
  <2>7. handler # "connecting"
    BY <1>9 DEF DownRead, Over, Task, ProxyTypeOK
  <2> QED
    BY <1>9, <2>4, <2>6, <2>7 DEF DownRead, ProxyTypeOK
<1>10. CASE DownEof \/ DownSendFails
  <2>1. TaskType(down', Buffer) /\ down' = Over
    BY <1>10, <1>a, TaskRests DEF DownEof, DownSendFails, Over
  <2> QED
    BY <1>10, <2>1 DEF DownEof, DownSendFails, ProxyTypeOK
<1>11. CASE DownSend
  <2>1. TaskType(down', Buffer)
    BY <1>11, <1>a, TaskRests DEF DownSend
  <2>2. handler # "connecting"
    BY <1>11 DEF DownSend, Over, Task, ProxyTypeOK
  <2>3. down.holds \in Seq(Nat) /\ Len(down.holds) \in 1..Buffer
    BY <1>11, <1>a, <1>d DEF DownSend, TaskType
  <2>4. PipeType(Append(wsOut, down.holds), Seq(Nat), Window)
    BY <1>11, <1>a, <1>c, <2>3, PipeAppend DEF DownSend
  <2>5. \A k \in DOMAIN Append(wsOut, down.holds) :
           \/ k \in DOMAIN wsOut /\ Append(wsOut, down.holds)[k] = wsOut[k]
           \/ Append(wsOut, down.holds)[k] = down.holds
    BY <1>c, <2>3 DEF PipeType
  <2>6. \A k \in DOMAIN Append(wsOut, down.holds) :
           Len(Append(wsOut, down.holds)[k]) \in 1..Buffer
    BY <1>c, <2>3, <2>5
  <2> QED
    BY <1>11, <2>1, <2>2, <2>4, <2>6 DEF DownSend, ProxyTypeOK
<1>12. CASE UpReceive
  <2>1. Head(wsIn) \in Nat /\ PipeType(Tail(wsIn), Nat, Window)
    BY <1>12, <1>a, <1>c, PipeTail DEF UpReceive
  <2>2. <<Head(wsIn)>> \in Seq(Nat) /\ Len(<<Head(wsIn)>>) \in 1..1
    BY <2>1
  <2>3. TaskType(Task("writing", <<Head(wsIn)>>), 1)
    BY <2>2, TaskHolds
  <2>4. handler # "connecting"
    BY <1>12 DEF UpReceive, Over, Task, ProxyTypeOK
  <2> QED
    BY <1>12, <2>1, <2>3, <2>4 DEF UpReceive, ProxyTypeOK
<1>13. CASE UpEnd \/ UpWriteFails
  <2>1. TaskType(up', 1) /\ up' = Over
    BY <1>13, TaskRests DEF UpEnd, UpWriteFails, Over
  <2> QED
    BY <1>13, <2>1 DEF UpEnd, UpWriteFails, ProxyTypeOK
<1>14. CASE UpWrite
  <2>1. TaskType(up', 1)
    BY <1>14, TaskRests DEF UpWrite
  <2>2. handler # "connecting"
    BY <1>14 DEF UpWrite, Over, Task, ProxyTypeOK
  <2>3. up.holds \in Seq(Nat) /\ Len(up.holds) <= 1 /\ Len(sockOut) < Window
    BY <1>14, <1>d DEF UpWrite, TaskType
  <2>4. PipeType(sockOut \o up.holds, Nat, Window)
    BY <1>a, <1>c, <2>3 DEF PipeType
  <2> QED
    BY <1>14, <2>1, <2>2, <2>4 DEF UpWrite, ProxyTypeOK
<1>15. CASE UNCHANGED proxyVars
  BY <1>15 DEF proxyVars, ProxyTypeOK
<1> QED
  BY <1>1, <1>2, <1>3, <1>4, <1>5, <1>6, <1>7, <1>8, <1>9, <1>10, <1>11, <1>12,
     <1>13, <1>14, <1>15
     DEF ProxyNext, Peers, Handler, Down, Up

\* What is on its way is bounded, in both directions.
THEOREM ProxyTypeCorrect == ProxySpec => []ProxyTypeOK
BY ProxyInit_Type, ProxyNext_Type, PTL DEF ProxySpec

-----------------------------------------------------------------------------
(* The direction WebSocket -> socket.  UpInOrder, as a relation of what    *)
(* was received (s), what is on its way to the daemon (o), what the task   *)
(* holds (h), what is on its way from the client (w) and the number sent;  *)
(* once the task is over, its last two parts are lost.                     *)

InOrder(s, o, h, w, n, runs) ==
    /\ Follows(s, 0) /\ Follows(o, Len(s)) /\ Len(s) + Len(o) <= n
    /\ runs => /\ Follows(h, Len(s) + Len(o)) /\ Follows(w, Len(s) + Len(o) + Len(h))
               /\ Len(s) + Len(o) + Len(h) + Len(w) = n

\* One more item is sent.
LEMMA OrderSend ==
    ASSUME NEW s \in Seq(Nat), NEW o \in Seq(Nat), NEW h \in Seq(Nat), NEW w \in Seq(Nat),
           NEW n \in Nat, NEW runs \in BOOLEAN, InOrder(s, o, h, w, n, runs)
    PROVE  InOrder(s, o, h, Append(w, n + 1), n + 1, runs)
<1>1. CASE runs
  <2>1. Follows(Append(w, (Len(s) + Len(o) + Len(h)) + Len(w) + 1), Len(s) + Len(o) + Len(h))
    BY <1>1, FollowsAppend DEF InOrder
  <2>2. (Len(s) + Len(o) + Len(h)) + Len(w) + 1 = n + 1
    BY <1>1 DEF InOrder
  <2>3. Len(Append(w, n + 1)) = Len(w) + 1
    OBVIOUS
  <2>4. Follows(Append(w, n + 1), Len(s) + Len(o) + Len(h))
    BY <2>1, <2>2
  <2>5. Len(s) + Len(o) + Len(h) + Len(Append(w, n + 1)) = n + 1
    BY <2>2, <2>3
  <2> QED
    BY <1>1, <2>4, <2>5 DEF InOrder
<1>2. CASE ~ runs
  BY <1>2 DEF InOrder
<1> QED
  BY <1>1, <1>2

\* One item is received.
LEMMA OrderReceive ==
    ASSUME NEW s \in Seq(Nat), NEW o \in Seq(Nat), NEW h \in Seq(Nat), NEW w \in Seq(Nat),
           NEW n \in Nat, NEW runs \in BOOLEAN, InOrder(s, o, h, w, n, runs), o # <<>>
    PROVE  /\ InOrder(Append(s, Head(o)), Tail(o), h, w, n, runs)
           /\ Head(o) = Len(s) + 1
<1>0. Follows(s, 0) /\ Follows(o, Len(s)) /\ Len(s) \in Nat
  BY DEF InOrder
<1>1. /\ Head(o) = Len(s) + 1 /\ Len(Tail(o)) = Len(o) - 1 /\ Tail(o) \in Seq(Nat)
      /\ Follows(Tail(o), Len(s) + 1)
  BY <1>0, FollowsTail
<1>2. Follows(Append(s, 0 + Len(s) + 1), 0)
  BY <1>0, FollowsAppend
<1>3. 0 + Len(s) + 1 = Head(o) /\ Len(Append(s, Head(o))) = Len(s) + 1
  BY <1>1
<1>4. (Len(s) + 1) + (Len(o) - 1) = Len(s) + Len(o)
  OBVIOUS
<1> QED
  BY <1>1, <1>2, <1>3, <1>4 DEF InOrder

\* The task takes one item.
LEMMA OrderTake ==
    ASSUME NEW s \in Seq(Nat), NEW o \in Seq(Nat), NEW h \in Seq(Nat), NEW w \in Seq(Nat),
           NEW n \in Nat, InOrder(s, o, h, w, n, TRUE), Len(h) = 0, w # <<>>
    PROVE  InOrder(s, o, <<Head(w)>>, Tail(w), n, TRUE)
<1>1. Len(s) + Len(o) \in Nat /\ (Len(s) + Len(o)) + Len(h) = Len(s) + Len(o)
  OBVIOUS
<1>2. Follows(w, Len(s) + Len(o))
  BY <1>1 DEF InOrder
<1>3. /\ Follows(<<Head(w)>>, Len(s) + Len(o))
      /\ Len(Tail(w)) = Len(w) - 1
      /\ Follows(Tail(w), Len(s) + Len(o) + 1)
  BY <1>1, <1>2, FollowsTail
<1>4. Len(<<Head(w)>>) = 1
  OBVIOUS
<1>5. /\ Follows(<<Head(w)>>, Len(s) + Len(o))
      /\ Follows(Tail(w), Len(s) + Len(o) + Len(<<Head(w)>>))
  BY <1>3, <1>4
<1>6. Len(s) + Len(o) + Len(<<Head(w)>>) + Len(Tail(w)) = n
  BY <1>1, <1>3, <1>4, SMTT(30) DEF InOrder
<1> QED
  BY <1>5, <1>6 DEF InOrder

\* The task passes on what it holds.
LEMMA OrderPass ==
    ASSUME NEW s \in Seq(Nat), NEW o \in Seq(Nat), NEW h \in Seq(Nat), NEW w \in Seq(Nat),
           NEW n \in Nat, InOrder(s, o, h, w, n, TRUE), NEW e \in Seq(Nat), Len(e) = 0
    PROVE  InOrder(s, o \o h, e, w, n, TRUE)
<1>1. Len(o \o h) = Len(o) + Len(h) /\ Len(s) + (Len(o) + Len(h)) = Len(s) + Len(o) + Len(h)
  OBVIOUS
<1>2. Follows(o \o h, Len(s))
  BY FollowsConcat DEF InOrder
<1>3. Follows(e, Len(s) + Len(o) + Len(h))
  BY DEF Follows
<1> QED
  BY <1>1, <1>2, <1>3 DEF InOrder

Along(task) == handler = "connecting" \/ task # Over

LEMMA UpIs ==
    ASSUME ProxyTypeOK
    PROVE  UpInOrder <=> InOrder(got.up, sockOut, up.holds, wsIn, sent.up, Along(up))
<1>1. /\ got.up \in Seq(Nat) /\ sockOut \in Seq(Nat) /\ up.holds \in Seq(Nat)
      /\ wsIn \in Seq(Nat) /\ sent.up \in Nat
  BY DEF ProxyTypeOK, TaskType, PipeType
<1>2. /\ Len(got.up \o sockOut) = Len(got.up) + Len(sockOut)
      /\ Len(got.up \o sockOut \o up.holds \o wsIn)
            = Len(got.up) + Len(sockOut) + Len(up.holds) + Len(wsIn)
  BY <1>1
<1>3. Follows(up.holds \o wsIn, Len(got.up) + Len(sockOut))
         <=> /\ Follows(up.holds, Len(got.up) + Len(sockOut))
             /\ Follows(wsIn, Len(got.up) + Len(sockOut) + Len(up.holds))
  <2>1. Len(got.up) + Len(sockOut) \in Nat
    BY <1>1
  <2> QED
    BY <1>1, <2>1, FollowsConcat
<1> QED
  BY <1>2, <1>3 DEF UpInOrder, InOrder, Along

-----------------------------------------------------------------------------
(* The direction socket -> WebSocket, with frames (f) on their way to the  *)
(* client.                                                                 *)

Last(s, f, k) == IF k = 0 THEN Len(s) ELSE f[k][Len(f[k])]

InFrames(s, f, h, w, n, runs) ==
    /\ Follows(s, 0)
    /\ \A k \in DOMAIN f : Len(f[k]) > 0 /\ Follows(f[k], Last(s, f, k - 1))
    /\ \A k \in 0..Len(f) : Last(s, f, k) <= n
    /\ runs => /\ Follows(h, Last(s, f, Len(f)))
               /\ Follows(w, Last(s, f, Len(f)) + Len(h))
               /\ Last(s, f, Len(f)) + Len(h) + Len(w) = n

\* The last item of a run is as far from its start as it is long.
LEMMA LastOfRun ==
    ASSUME NEW s \in Seq(Nat), NEW n \in Nat, Follows(s, n), Len(s) > 0
    PROVE  s[Len(s)] = n + Len(s)
BY DEF Follows

LEMMA LastNat ==
    ASSUME NEW s \in Seq(Nat), NEW f \in Seq(Seq(Nat)),
           \A k \in DOMAIN f : Len(f[k]) > 0, NEW k \in 0..Len(f)
    PROVE  Last(s, f, k) \in Nat
<1>1. CASE k = 0
  BY <1>1 DEF Last
<1>2. CASE k # 0
  <2>1. k \in DOMAIN f /\ f[k] \in Seq(Nat) /\ Len(f[k]) > 0
    BY <1>2
  <2>2. f[k][Len(f[k])] \in Nat
    BY <2>1
  <2> QED
    BY <1>2, <2>2 DEF Last
<1> QED
  BY <1>1, <1>2

\* One more item is sent.
LEMMA FramesSend ==
    ASSUME NEW s \in Seq(Nat), NEW f \in Seq(Seq(Nat)), NEW h \in Seq(Nat),
           NEW w \in Seq(Nat), NEW n \in Nat, NEW runs \in BOOLEAN,
           InFrames(s, f, h, w, n, runs)
    PROVE  InFrames(s, f, h, Append(w, n + 1), n + 1, runs)
<1> DEFINE end == Last(s, f, Len(f))
<1>1. /\ Follows(s, 0)
      /\ \A k \in DOMAIN f : Len(f[k]) > 0 /\ Follows(f[k], Last(s, f, k - 1))
      /\ \A k \in 0..Len(f) : Last(s, f, k) <= n
  BY DEF InFrames
<1>2. \A k \in 0..Len(f) : Last(s, f, k) \in Nat
  BY <1>1, LastNat
<1>3. end \in Nat
  BY <1>2
<1>4. \A k \in 0..Len(f) : Last(s, f, k) <= n + 1
  BY <1>1, <1>2
<1>5. CASE runs
  <2>1. Follows(h, end) /\ Follows(w, end + Len(h))
    BY <1>5 DEF InFrames
  <2>7. end + Len(h) + Len(w) = n
    BY <1>5 DEF InFrames
  <2> HIDE DEF end
  <2>2. end + Len(h) \in Nat
    BY <1>3
  <2>3. Follows(Append(w, (end + Len(h)) + Len(w) + 1), end + Len(h))
    BY <2>1, <2>2, FollowsAppend
  <2>4. Follows(Append(w, n + 1), end + Len(h))
    BY <2>3, <2>7
  <2>5. Len(Append(w, n + 1)) = Len(w) + 1 /\ Len(w) \in Nat /\ Len(h) \in Nat
    OBVIOUS
  <2>6. end + Len(h) + Len(Append(w, n + 1)) = n + 1
    <3>1. \A e, i, l \in Nat : e + i + l = n => e + i + (l + 1) = n + 1
      OBVIOUS
    <3>2. end + Len(h) + (Len(w) + 1) = n + 1
      BY <1>3, <2>7, <2>5, <3>1
    <3> QED
      BY <2>5, <3>2
  <2> QED
    <3>1. /\ Follows(h, Last(s, f, Len(f)))
          /\ Follows(Append(w, n + 1), Last(s, f, Len(f)) + Len(h))
          /\ Last(s, f, Len(f)) + Len(h) + Len(Append(w, n + 1)) = n + 1
      BY <2>1, <2>4, <2>6 DEF end
    <3> QED
      BY <1>1, <1>4, <3>1 DEF InFrames
<1>6. CASE ~ runs
  BY <1>1, <1>4, <1>6 DEF InFrames
<1> QED
  BY <1>5, <1>6

\* One frame is received.
LEMMA FramesReceive ==
    ASSUME NEW s \in Seq(Nat), NEW f \in Seq(Seq(Nat)), NEW h \in Seq(Nat),
           NEW w \in Seq(Nat), NEW n \in Nat, NEW runs \in BOOLEAN,
           InFrames(s, f, h, w, n, runs), f # <<>>
    PROVE  /\ InFrames(s \o Head(f), Tail(f), h, w, n, runs)
           /\ Head(f) \in Seq(Nat) /\ Len(Head(f)) > 0 /\ Follows(Head(f), Len(s))
           /\ Len(s) + Len(Head(f)) <= n
<1> DEFINE t == s \o Head(f)
           g == Tail(f)
<1>1. /\ Follows(s, 0)
      /\ \A k \in DOMAIN f : Len(f[k]) > 0 /\ Follows(f[k], Last(s, f, k - 1))
      /\ \A k \in 0..Len(f) : Last(s, f, k) <= n
  BY DEF InFrames
<1>2. /\ 1 \in DOMAIN f /\ Head(f) = f[1] /\ Head(f) \in Seq(Nat)
      /\ g \in Seq(Seq(Nat)) /\ Len(g) = Len(f) - 1
      /\ \A k \in DOMAIN g : k \in Nat \ {0} /\ k + 1 \in DOMAIN f /\ g[k] = f[k + 1]
  OBVIOUS
<1>3. Len(Head(f)) > 0 /\ Follows(Head(f), Len(s))
  <2>1. Last(s, f, 1 - 1) = Len(s)
    BY DEF Last
  <2>2. Len(f[1]) > 0 /\ Follows(f[1], Last(s, f, 1 - 1))
    BY <1>1, <1>2
  <2> QED
    BY <1>2, <2>1, <2>2
<1>4. Head(f)[Len(Head(f))] = Len(s) + Len(Head(f))
  BY <1>2, <1>3, LastOfRun
<1>5. t \in Seq(Nat) /\ Len(t) = Len(s) + Len(Head(f))
  BY <1>2
<1>6. Follows(t, 0)
  BY <1>1, <1>2, <1>3, FollowsConcat
<1>7. ASSUME NEW k \in 0..Len(g) PROVE Last(t, g, k) = Last(s, f, k + 1)
  <2>1. CASE k = 0
    BY <1>2, <1>4, <1>5, <2>1 DEF Last
  <2>2. CASE k # 0
    <3>1. k \in DOMAIN g /\ g[k] = f[k + 1] /\ k + 1 # 0
      BY <1>2, <2>2
    <3> QED
      BY <2>2, <3>1 DEF Last
  <2> QED
    BY <2>1, <2>2
<1>8. ASSUME NEW k \in DOMAIN g
      PROVE  Len(g[k]) > 0 /\ Follows(g[k], Last(t, g, k - 1))
  <2>1. k + 1 \in DOMAIN f /\ g[k] = f[k + 1] /\ k - 1 \in 0..Len(g)
    BY <1>2
  <2>2. Last(t, g, k - 1) = Last(s, f, (k - 1) + 1)
    BY <1>7, <2>1
  <2>3. (k - 1) + 1 = (k + 1) - 1
    BY <1>2
  <2> QED
    BY <1>1, <2>1, <2>2, <2>3
<1>9. \A k \in 0..Len(g) : Last(t, g, k) <= n
  BY <1>1, <1>2, <1>7
<1>10. Last(t, g, Len(g)) = Last(s, f, Len(f))
  BY <1>2, <1>7
<1>11. Len(s) + Len(Head(f)) <= n
  <2>1. Last(t, g, 0) = Len(t)
    BY DEF Last
  <2>2. Last(t, g, 0) <= n
    BY <1>2, <1>9
  <2> QED
    BY <1>5, <2>1, <2>2
<1>12. InFrames(t, g, h, w, n, runs)
  <2> HIDE DEF t, g
  <2> QED
    BY <1>6, <1>8, <1>9, <1>10 DEF InFrames
<1> QED
  BY <1>2, <1>3, <1>11, <1>12

\* The task reads some of what is there.
LEMMA FramesRead ==
    ASSUME NEW s \in Seq(Nat), NEW f \in Seq(Seq(Nat)), NEW h \in Seq(Nat),
           NEW w \in Seq(Nat), NEW n \in Nat, InFrames(s, f, h, w, n, TRUE),
           Len(h) = 0, NEW k \in 1..Len(w)
    PROVE  InFrames(s, f, SubSeq(w, 1, k), SubSeq(w, k + 1, Len(w)), n, TRUE)
<1> DEFINE end == Last(s, f, Len(f))
<1>1. /\ Follows(s, 0)
      /\ \A i \in DOMAIN f : Len(f[i]) > 0 /\ Follows(f[i], Last(s, f, i - 1))
      /\ \A i \in 0..Len(f) : Last(s, f, i) <= n
  BY DEF InFrames
<1>2. end \in Nat
  <2>1. Len(f) \in 0..Len(f) /\ \A i \in DOMAIN f : Len(f[i]) > 0
    BY <1>1
  <2> QED
    BY <2>1, LastNat
<1>3. Follows(w, end + Len(h))
  BY DEF InFrames
<1>4. end + Len(h) + Len(w) = n
  BY DEF InFrames
<1> HIDE DEF end
<1>5. end + Len(h) = end
  BY <1>2
<1>6. Follows(w, end)
  BY <1>3, <1>5
<1>7. /\ Follows(SubSeq(w, 1, k), end) /\ Len(SubSeq(w, 1, k)) = k
      /\ Follows(SubSeq(w, k + 1, Len(w)), end + k)
      /\ Len(SubSeq(w, k + 1, Len(w))) = Len(w) - k
  BY <1>2, <1>6, FollowsCut
<1>8. Len(w) \in Nat /\ k \in Nat
  OBVIOUS
<1>9. end + Len(SubSeq(w, 1, k)) + Len(SubSeq(w, k + 1, Len(w))) = n
  <2>1. \A e, l \in Nat : e + l = n => e + k + (l - k) = n
    OBVIOUS
  <2>2. end + Len(w) = n
    BY <1>4, <1>5
  <2>3. end + k + (Len(w) - k) = n
    BY <1>2, <1>8, <2>1, <2>2
  <2> QED
    BY <1>7, <2>3
<1>10. Follows(SubSeq(w, k + 1, Len(w)), end + Len(SubSeq(w, 1, k)))
  BY <1>7
<1> QED
  <2>1. /\ Follows(SubSeq(w, 1, k), Last(s, f, Len(f)))
        /\ Follows(SubSeq(w, k + 1, Len(w)), Last(s, f, Len(f)) + Len(SubSeq(w, 1, k)))
        /\ Last(s, f, Len(f)) + Len(SubSeq(w, 1, k)) + Len(SubSeq(w, k + 1, Len(w))) = n
    BY <1>7, <1>9, <1>10 DEF end
  <2> QED
    BY <1>1, <2>1 DEF InFrames

\* The task sends what it holds as a frame.
LEMMA FramesPass ==
    ASSUME NEW s \in Seq(Nat), NEW f \in Seq(Seq(Nat)), NEW h \in Seq(Nat),
           NEW w \in Seq(Nat), NEW n \in Nat, InFrames(s, f, h, w, n, TRUE),
           Len(h) > 0, NEW e \in Seq(Nat), Len(e) = 0
    PROVE  InFrames(s, Append(f, h), e, w, n, TRUE)
<1> DEFINE end == Last(s, f, Len(f))
           g == Append(f, h)
<1>1. /\ Follows(s, 0)
      /\ \A i \in DOMAIN f : Len(f[i]) > 0 /\ Follows(f[i], Last(s, f, i - 1))
      /\ \A i \in 0..Len(f) : Last(s, f, i) <= n
  BY DEF InFrames
<1>2. end \in Nat
  <2>1. Len(f) \in 0..Len(f) /\ \A i \in DOMAIN f : Len(f[i]) > 0
    BY <1>1
  <2> QED
    BY <2>1, LastNat
<1>3. Follows(h, end) /\ Follows(w, end + Len(h))
  BY DEF InFrames
<1>4. end + Len(h) + Len(w) = n
  BY DEF InFrames
<1>5. /\ Len(g) = Len(f) + 1 /\ g[Len(f) + 1] = h
      /\ \A i \in DOMAIN f : i \in DOMAIN g /\ g[i] = f[i]
      /\ \A i \in DOMAIN g : i \in DOMAIN f \/ i = Len(f) + 1
  OBVIOUS
<1>6. \A i \in 0..Len(f) : Last(s, g, i) = Last(s, f, i)
  <2> SUFFICES ASSUME NEW i \in 0..Len(f) PROVE Last(s, g, i) = Last(s, f, i)
    OBVIOUS
  <2>1. CASE i = 0
    BY <2>1 DEF Last
  <2>2. CASE i # 0
    <3>1. i \in DOMAIN f
      BY <2>2
    <3>2. g[i] = f[i]
      BY <1>5, <3>1
    <3> HIDE DEF g
    <3> QED
      BY <2>2, <3>2 DEF Last
  <2> QED
    BY <2>1, <2>2
<1>7. Last(s, g, Len(f) + 1) = h[Len(h)]
  <2>1. Len(f) + 1 # 0
    OBVIOUS
  <2> HIDE DEF g
  <2> QED
    BY <1>5, <2>1 DEF Last
<1>8. Last(s, g, Len(f) + 1) = end + Len(h)
  <2> HIDE DEF end, g
  <2> QED
    BY <1>2, <1>3, <1>7, LastOfRun
<1>9. Len(f) \in Nat /\ Len(h) \in Nat /\ Len(w) \in Nat
  OBVIOUS
<1>10. end + Len(h) <= n
  <2> HIDE DEF end
  <2> QED
    BY <1>2, <1>4, <1>9
<1>11. ASSUME NEW i \in DOMAIN g
       PROVE  Len(g[i]) > 0 /\ Follows(g[i], Last(s, g, i - 1))
  <2>1. CASE i \in DOMAIN f
    <3>1. i - 1 \in 0..Len(f) /\ g[i] = f[i]
      BY <1>5, <2>1
    <3> HIDE DEF g
    <3> QED
      BY <1>1, <1>6, <2>1, <3>1
  <2>2. CASE i = Len(f) + 1
    <3>1. i - 1 = Len(f) /\ Len(f) \in 0..Len(f)
      BY <1>9, <2>2
    <3>2. Last(s, g, i - 1) = end /\ g[i] = h
      BY <1>5, <1>6, <2>2, <3>1
    <3> HIDE DEF g, end
    <3> QED
      BY <1>3, <3>2
  <2> QED
    BY <1>5, <2>1, <2>2
<1>12. \A i \in 0..Len(g) : Last(s, g, i) <= n
  <2> SUFFICES ASSUME NEW i \in 0..Len(g) PROVE Last(s, g, i) <= n
    OBVIOUS
  <2>1. i \in 0..Len(f) \/ i = Len(f) + 1
    BY <1>5, <1>9
  <2> HIDE DEF g, end
  <2> QED
    BY <1>1, <1>6, <1>8, <1>10, <2>1
<1>13. end + Len(h) + Len(e) + Len(w) = n /\ end + Len(h) + Len(e) = end + Len(h)
  <2> HIDE DEF end
  <2> QED
    BY <1>2, <1>4, <1>9
<1>14. Follows(e, end + Len(h))
  BY DEF Follows
<1> HIDE DEF g, end
<1>15. Follows(w, end + Len(h) + Len(e))
  BY <1>3, <1>13
<1>16. Last(s, g, Len(g)) = end + Len(h)
  BY <1>5, <1>8
<1>17. InFrames(s, g, e, w, n, TRUE)
  BY <1>1, <1>11, <1>12, <1>13, <1>14, <1>15, <1>16 DEF InFrames
<1> QED
  BY <1>17 DEF g

LEMMA DownIs ==
    ASSUME ProxyTypeOK
    PROVE  DownInOrder
              <=> InFrames(got.down, wsOut, down.holds, sockIn, sent.down, Along(down))
<1>1. /\ got.down \in Seq(Nat) /\ wsOut \in Seq(Seq(Nat)) /\ down.holds \in Seq(Nat)
      /\ sockIn \in Seq(Nat) /\ sent.down \in Nat
  BY DEF ProxyTypeOK, TaskType, PipeType
<1>2. \A k \in DOMAIN wsOut : Len(wsOut[k]) > 0 /\ wsOut[k] # <<>>
  <2> SUFFICES ASSUME NEW k \in DOMAIN wsOut PROVE Len(wsOut[k]) > 0 /\ wsOut[k] # <<>>
    OBVIOUS
  <2>1. Len(wsOut[k]) \in 1..Buffer
    BY DEF ProxyTypeOK
  <2> QED
    BY <2>1
<1>3. \A k : Reached(k) = Last(got.down, wsOut, k)
  BY DEF Reached, Last
<1>4. Last(got.down, wsOut, Len(wsOut)) \in Nat
  <2>1. Len(wsOut) \in 0..Len(wsOut)
    BY <1>1
  <2>2. \A k \in DOMAIN wsOut : Len(wsOut[k]) > 0
    BY <1>2
  <2> DEFINE s == got.down
             f == wsOut
  <2>3. s \in Seq(Nat) /\ f \in Seq(Seq(Nat)) /\ \A k \in DOMAIN f : Len(f[k]) > 0
    BY <1>1, <2>2
  <2>4. Len(f) \in 0..Len(f)
    BY <2>1
  <2> HIDE DEF s, f
  <2>5. Last(s, f, Len(f)) \in Nat
    BY <2>3, <2>4, LastNat, Zenon
  <2> QED
    BY <2>5 DEF s, f
<1> DEFINE end == Last(got.down, wsOut, Len(wsOut))
<1> HIDE DEF end
<1>5. Follows(down.holds \o sockIn, end)
         <=> Follows(down.holds, end) /\ Follows(sockIn, end + Len(down.holds))
  BY <1>1, <1>4, FollowsConcat DEF end
<1>6. end + Len(down.holds \o sockIn) = end + Len(down.holds) + Len(sockIn)
  BY <1>1, <1>4 DEF end
<1> QED
  BY <1>2, <1>3, <1>5, <1>6 DEF DownInOrder, InFrames, Along, end

-----------------------------------------------------------------------------
(* Nothing is lost: types and order together are inductive.                *)

UpOrder == InOrder(got.up, sockOut, up.holds, wsIn, sent.up, Along(up))
DownOrder == InFrames(got.down, wsOut, down.holds, sockIn, sent.down, Along(down))

\* When a task is over, what it held and was yet to take is given up.
LEMMA OrderStop ==
    /\ UpOrder => \A h, w : InOrder(got.up, sockOut, h, w, sent.up, FALSE)
    /\ DownOrder => \A h, w : InFrames(got.down, wsOut, h, w, sent.down, FALSE)
BY DEF UpOrder, DownOrder, InOrder, InFrames

\* The types of what the order speaks of.
LEMMA OrderTypes ==
    ASSUME ProxyTypeOK
    PROVE  /\ got.up \in Seq(Nat) /\ sockOut \in Seq(Nat) /\ up.holds \in Seq(Nat)
           /\ wsIn \in Seq(Nat) /\ sent.up \in Nat
           /\ got.down \in Seq(Nat) /\ wsOut \in Seq(Seq(Nat)) /\ down.holds \in Seq(Nat)
           /\ sockIn \in Seq(Nat) /\ sent.down \in Nat
           /\ got \in [up: Seq(Nat), down: Seq(Nat)] /\ sent \in [up: Nat, down: Nat]
           /\ Along(up) \in BOOLEAN /\ Along(down) \in BOOLEAN
BY DEF ProxyTypeOK, TaskType, PipeType, Along

\* What a step changes of the histories and counters.
LEMMA Histories ==
    ASSUME ProxyTypeOK
    PROVE  /\ ClientSend => sent'.up = sent.up + 1 /\ sent'.down = sent.down
           /\ DaemonWrite => sent'.down = sent.down + 1 /\ sent'.up = sent.up
           /\ ClientReceive => got'.down = got.down \o Head(wsOut) /\ got'.up = got.up
           /\ DaemonRead => got'.up = Append(got.up, Head(sockOut)) /\ got'.down = got.down
<1>1. got \in [up: Seq(Nat), down: Seq(Nat)] /\ sent \in [up: Nat, down: Nat]
  BY DEF ProxyTypeOK
<1>2. ASSUME ClientSend PROVE sent'.up = sent.up + 1 /\ sent'.down = sent.down
  <2>1. sent' = [sent EXCEPT !.up = sent.up + 1]
    BY <1>2 DEF ClientSend
  <2> QED
    BY <1>1, <2>1
<1>3. ASSUME DaemonWrite PROVE sent'.down = sent.down + 1 /\ sent'.up = sent.up
  <2>1. sent' = [sent EXCEPT !.down = sent.down + 1]
    BY <1>3 DEF DaemonWrite
  <2> QED
    BY <1>1, <2>1
<1>4. ASSUME ClientReceive PROVE got'.down = got.down \o Head(wsOut) /\ got'.up = got.up
  <2>1. got' = [got EXCEPT !.down = got.down \o Head(wsOut)]
    BY <1>4 DEF ClientReceive
  <2> QED
    BY <1>1, <2>1
<1>5. ASSUME DaemonRead PROVE got'.up = Append(got.up, Head(sockOut)) /\ got'.down = got.down
  <2>1. got' = [got EXCEPT !.up = Append(got.up, Head(sockOut))]
    BY <1>5 DEF DaemonRead
  <2> QED
    BY <1>1, <2>1
<1> QED
  BY <1>2, <1>3, <1>4, <1>5

LEMMA ProxyInit_Order ==
    ASSUME ProxyInit
    PROVE  UpOrder /\ DownOrder
<1>1. /\ up.holds = <<>> /\ down.holds = <<>>
      /\ got.up = <<>> /\ got.down = <<>> /\ sent.up = 0 /\ sent.down = 0
      /\ wsIn = <<>> /\ wsOut = <<>> /\ sockIn = <<>> /\ sockOut = <<>>
  BY DEF ProxyInit, Over, Task
<1>2. PICK e : e = <<>> /\ Len(e) = 0 /\ DOMAIN e = {} /\ e \in Seq(Nat)
  <2>1. /\ <<>> = <<>> /\ Len(<<>>) = 0 /\ <<>> \in Seq(Nat)
    OBVIOUS
  <2>2. \A e \in Seq(Nat) : Len(e) = 0 => DOMAIN e = {}
    OBVIOUS
  <2> QED
    BY <2>1, <2>2
<1>3. \A n : Follows(e, n)
  BY <1>2 DEF Follows
<1>4. InOrder(e, e, e, e, 0, Along(up))
  BY <1>2, <1>3 DEF InOrder
<1>5. Last(e, e, 0) = 0
  BY <1>2 DEF Last
<1>6. InFrames(e, e, e, e, 0, Along(down))
  BY <1>2, <1>3, <1>5 DEF InFrames
<1> QED
  BY <1>1, <1>2, <1>4, <1>6 DEF UpOrder, DownOrder

LEMMA ProxyNext_UpOrder ==
    ASSUME ProxyTypeOK, UpOrder, [ProxyNext]_proxyVars
    PROVE  UpOrder'
<1> USE OrderTypes
<1>1. CASE ClientSend
  <2>1. InOrder(got.up, sockOut, up.holds, Append(wsIn, sent.up + 1), sent.up + 1, Along(up))
    <3>1. InOrder(got.up, sockOut, up.holds, wsIn, sent.up, Along(up))
      BY DEF UpOrder
    <3> QED
      BY <3>1, OrderSend, SMTT(30)
  <2>2. sent'.up = sent.up + 1 /\ wsIn' = Append(wsIn, sent.up + 1)
    BY <1>1, Histories DEF ClientSend
  <2> QED
    BY <1>1, <2>1, <2>2 DEF ClientSend, UpOrder, Along
<1>2. CASE DaemonRead
  <2>1. InOrder(Append(got.up, Head(sockOut)), Tail(sockOut), up.holds, wsIn, sent.up, Along(up))
    <3>1. InOrder(got.up, sockOut, up.holds, wsIn, sent.up, Along(up)) /\ sockOut # <<>>
      BY <1>2 DEF UpOrder, DaemonRead
    <3> QED
      BY <3>1, OrderReceive, SMTT(30)
  <2> QED
    BY <1>2, <2>1, Histories DEF DaemonRead, UpOrder, Along
<1>3. CASE Connect
  <2>1. up = Over /\ Over.holds = <<>> /\ Task("reading", <<>>).holds = <<>>
        /\ Task("reading", <<>>) # Over
    BY <1>3 DEF Connect, ProxyTypeOK, Over, Task
  <2>2. up'.holds = up.holds /\ Along(up)' = TRUE /\ Along(up) = TRUE
    BY <1>3, <2>1 DEF Connect, Along
  <2> QED
    BY <1>3, <2>2 DEF Connect, UpOrder, pipes
<1>4. CASE Unavailable
  <2>1. up = Over /\ Along(up)' = FALSE
    BY <1>4 DEF Unavailable, ProxyTypeOK, Along
  <2>2. InOrder(got.up, sockOut, up.holds, wsIn, sent.up, FALSE)
    BY OrderStop
  <2> QED
    BY <1>4, <2>1, <2>2 DEF Unavailable, UpOrder, pipes
<1>5. CASE Return
  <2>1. Along(up)' = Along(up)
    BY <1>5 DEF Return, Along
  <2> QED
    BY <1>5, <2>1 DEF Return, UpOrder, pipes
<1>6. CASE UpReceive
  <2>1. Len(up.holds) = 0 /\ up # Over
    BY <1>6 DEF UpReceive, ProxyTypeOK, TaskType, Over, Task
  <2>2. Along(up) = TRUE
    BY <2>1 DEF Along
  <2>3. InOrder(got.up, sockOut, <<Head(wsIn)>>, Tail(wsIn), sent.up, TRUE)
    BY <1>6, <2>1, <2>2, OrderTake DEF UpOrder, UpReceive
  <2>4. up'.holds = <<Head(wsIn)>> /\ up' # Over
    BY <1>6 DEF UpReceive, Task, Over
  <2>5. Along(up)' = TRUE
    BY <2>4 DEF Along
  <2> QED
    BY <1>6, <2>3, <2>4, <2>5 DEF UpReceive, UpOrder
<1>7. CASE UpEnd \/ UpWriteFails
  <2>1. up' = Over /\ handler' = handler /\ handler # "connecting"
    BY <1>7 DEF UpEnd, UpWriteFails, ProxyTypeOK, Over, Task
  <2>2. Along(up)' = FALSE
    BY <2>1 DEF Along
  <2>3. InOrder(got.up, sockOut, up'.holds, wsIn, sent.up, FALSE)
    BY OrderStop
  <2> QED
    BY <1>7, <2>2, <2>3 DEF UpEnd, UpWriteFails, UpOrder, pipes
<1>8. CASE UpWrite
  <2>1. up # Over
    BY <1>8 DEF UpWrite, Over, Task
  <2>2. Along(up) = TRUE
    BY <2>1 DEF Along
  <2>3. up'.holds = <<>> /\ up' # Over /\ up'.holds \in Seq(Nat) /\ Len(up'.holds) = 0
    <3>1. Len(Task("reading", <<>>).holds) = 0 /\ Task("reading", <<>>).holds \in Seq(Nat)
      BY TaskRests
    <3> QED
      BY <1>8, <3>1 DEF UpWrite, Over, Task
  <2>4. InOrder(got.up, sockOut \o up.holds, up'.holds, wsIn, sent.up, TRUE)
    BY <2>2, <2>3, OrderPass DEF UpOrder
  <2>5. Along(up)' = TRUE
    BY <2>3 DEF Along
  <2> QED
    BY <1>8, <2>4, <2>5 DEF UpWrite, UpOrder
<1>9. CASE ClientReceive \/ DaemonWrite
  BY <1>9, Histories DEF ClientReceive, DaemonWrite, UpOrder, Along
<1>10. CASE ClientLeave \/ DaemonClose \/ Down \/ UNCHANGED proxyVars
  BY <1>10 DEF ClientLeave, DaemonClose, Down, DownRead, DownEof, DownSend, DownSendFails,
               UpOrder, Along, pipes, proxyVars
<1> QED
  BY <1>1, <1>2, <1>3, <1>4, <1>5, <1>6, <1>7, <1>8, <1>9, <1>10
     DEF ProxyNext, Peers, Handler, Up

LEMMA ProxyNext_DownOrder ==
    ASSUME ProxyTypeOK, DownOrder, [ProxyNext]_proxyVars
    PROVE  DownOrder'
<1> USE OrderTypes
<1>1. CASE DaemonWrite
  <2>1. InFrames(got.down, wsOut, down.holds, Append(sockIn, sent.down + 1), sent.down + 1,
                 Along(down))
    BY FramesSend DEF DownOrder
  <2>2. sent'.down = sent.down + 1 /\ sockIn' = Append(sockIn, sent.down + 1)
    BY <1>1, Histories DEF DaemonWrite
  <2> QED
    BY <1>1, <2>1, <2>2 DEF DaemonWrite, DownOrder, Along
<1>2. CASE ClientReceive
  <2>1. InFrames(got.down \o Head(wsOut), Tail(wsOut), down.holds, sockIn, sent.down, Along(down))
    BY <1>2, FramesReceive DEF DownOrder, ClientReceive
  <2> QED
    BY <1>2, <2>1, Histories DEF ClientReceive, DownOrder, Along
<1>3. CASE Connect
  <2>1. down = Over /\ Over.holds = <<>> /\ Task("reading", <<>>).holds = <<>>
        /\ Task("reading", <<>>) # Over
    BY <1>3 DEF Connect, ProxyTypeOK, Over, Task
  <2>2. down'.holds = down.holds /\ Along(down)' = TRUE /\ Along(down) = TRUE
    BY <1>3, <2>1 DEF Connect, Along
  <2> QED
    BY <1>3, <2>2 DEF Connect, DownOrder, pipes
<1>4. CASE Unavailable
  <2>1. down = Over /\ Along(down)' = FALSE
    BY <1>4 DEF Unavailable, ProxyTypeOK, Along
  <2>2. InFrames(got.down, wsOut, down.holds, sockIn, sent.down, FALSE)
    BY OrderStop
  <2> QED
    BY <1>4, <2>1, <2>2 DEF Unavailable, DownOrder, pipes
<1>5. CASE Return
  <2>1. Along(down)' = Along(down)
    BY <1>5 DEF Return, Along
  <2> QED
    BY <1>5, <2>1 DEF Return, DownOrder, pipes
<1>6. CASE DownRead
  <2>1. Len(down.holds) = 0 /\ down # Over
    BY <1>6 DEF DownRead, ProxyTypeOK, TaskType, Over, Task
  <2>2. Along(down) = TRUE
    BY <2>1 DEF Along
  <2>3. PICK n \in 1..Buffer :
          /\ n <= Len(sockIn)
          /\ down' = Task("writing", SubSeq(sockIn, 1, n))
          /\ sockIn' = SubSeq(sockIn, n + 1, Len(sockIn))
    BY <1>6 DEF DownRead
  <2>4. n \in 1..Len(sockIn)
    BY <2>3, ProxyAssumption DEF ProxyAssumption
  <2>5. InFrames(got.down, wsOut, SubSeq(sockIn, 1, n), SubSeq(sockIn, n + 1, Len(sockIn)),
                 sent.down, TRUE)
    BY <2>1, <2>2, <2>4, FramesRead DEF DownOrder
  <2>6. down'.holds = SubSeq(sockIn, 1, n) /\ down' # Over
    BY <2>3 DEF Task, Over
  <2>7. Along(down)' = TRUE
    BY <2>6 DEF Along
  <2> QED
    BY <1>6, <2>3, <2>5, <2>6, <2>7 DEF DownRead, DownOrder
<1>7. CASE DownEof \/ DownSendFails
  <2>1. down' = Over /\ handler' = handler /\ handler # "connecting"
    BY <1>7 DEF DownEof, DownSendFails, ProxyTypeOK, Over, Task
  <2>2. Along(down)' = FALSE
    BY <2>1 DEF Along
  <2>3. InFrames(got.down, wsOut, down'.holds, sockIn, sent.down, FALSE)
    BY OrderStop
  <2> QED
    BY <1>7, <2>2, <2>3 DEF DownEof, DownSendFails, DownOrder, pipes
<1>8. CASE DownSend
  <2>1. down # Over /\ Len(down.holds) > 0
    BY <1>8 DEF DownSend, Over, Task, ProxyTypeOK, TaskType
  <2>2. Along(down) = TRUE
    BY <2>1 DEF Along
  <2>3. down' # Over /\ down'.holds \in Seq(Nat) /\ Len(down'.holds) = 0
    <3>1. Len(Task("reading", <<>>).holds) = 0 /\ Task("reading", <<>>).holds \in Seq(Nat)
      BY TaskRests
    <3> QED
      BY <1>8, <3>1 DEF DownSend, Over, Task
  <2>4. InFrames(got.down, Append(wsOut, down.holds), down'.holds, sockIn, sent.down, TRUE)
    BY <2>1, <2>2, <2>3, FramesPass DEF DownOrder
  <2>5. Along(down)' = TRUE
    BY <2>3 DEF Along
  <2> QED
    BY <1>8, <2>4, <2>5 DEF DownSend, DownOrder
<1>9. CASE DaemonRead \/ ClientSend
  BY <1>9, Histories DEF DaemonRead, ClientSend, DownOrder, Along
<1>10. CASE ClientLeave \/ DaemonClose \/ Up \/ UNCHANGED proxyVars
  BY <1>10 DEF ClientLeave, DaemonClose, Up, UpReceive, UpEnd, UpWrite, UpWriteFails,
               DownOrder, Along, pipes, proxyVars
<1> QED
  BY <1>1, <1>2, <1>3, <1>4, <1>5, <1>6, <1>7, <1>8, <1>9, <1>10
     DEF ProxyNext, Peers, Handler, Down

LEMMA OrderIs == ProxyTypeOK => (UpInOrder <=> UpOrder) /\ (DownInOrder <=> DownOrder)
BY UpIs, DownIs DEF UpOrder, DownOrder

\* The inductive invariant: the order is argued for each direction by itself.
ProxyInv == ProxyTypeOK /\ NothingLost

LEMMA ProxyInit_Inv == ProxyInit => ProxyInv
BY ProxyInit_Type, ProxyInit_Order, UpIs, DownIs
   DEF ProxyInv, NothingLost, UpOrder, DownOrder

LEMMA ProxyNext_Inv == ProxyInv /\ [ProxyNext]_proxyVars => ProxyInv'
<1> SUFFICES ASSUME ProxyInv, [ProxyNext]_proxyVars PROVE ProxyInv'
  OBVIOUS
<1>1. ProxyTypeOK /\ UpOrder /\ DownOrder
  BY UpIs, DownIs DEF ProxyInv, NothingLost, UpOrder, DownOrder
<1>2. ProxyTypeOK'
  BY <1>1, ProxyNext_Type
<1>3. UpOrder' /\ DownOrder'
  BY <1>1, ProxyNext_UpOrder, ProxyNext_DownOrder
<1>4. (ProxyTypeOK => (UpInOrder <=> UpOrder) /\ (DownInOrder <=> DownOrder))'
  BY OrderIs, PTL
<1> QED
  BY <1>2, <1>3, <1>4 DEF ProxyInv, NothingLost

LEMMA ProxyInvCorrect == ProxySpec => []ProxyInv
BY ProxyInit_Inv, ProxyNext_Inv, PTL DEF ProxySpec

\* Whatever was sent in a direction whose task is not over has been received
\* or is on its way, in order and once; what was received is a prefix of it.
THEOREM NothingLostCorrect == ProxySpec => []NothingLost
BY ProxyInvCorrect, PTL DEF ProxyInv

-----------------------------------------------------------------------------
(* Each direction implements a stream.                                     *)

\* A run that follows what was received is what a stream delivers next.
LEMMA RunIsFollowing ==
    ASSUME NEW s \in Seq(Nat), NEW t \in Seq(Nat), Follows(t, Len(s))
    PROVE  t = [i \in 1..Len(t) |-> Len(s) + i]
<1>1. DOMAIN t = 1..Len(t) /\ t = [i \in 1..Len(t) |-> t[i]]
  OBVIOUS
<1>2. \A i \in 1..Len(t) : t[i] = Len(s) + i
  BY <1>1 DEF Follows
<1> QED
  BY <1>1, <1>2

LEMMA UpStreamNext ==
    ProxyInv /\ [ProxyNext]_proxyVars
        => [UpStream!Send \/ UpStream!Receive]_(UpStream!streamVars)
<1> SUFFICES ASSUME ProxyInv, [ProxyNext]_proxyVars
             PROVE  \/ UpStream!Send \/ UpStream!Receive
                    \/ sent'.up = sent.up /\ got'.up = got.up
  BY DEF UpStream!streamVars
<1>1. ProxyTypeOK /\ UpOrder
  BY OrderIs DEF ProxyInv, NothingLost
<1>2. CASE ClientSend
  <2>1. sent'.up = sent.up + 1 /\ got' = got
    BY <1>1, <1>2, Histories DEF ClientSend
  <2> QED
    BY <2>1 DEF UpStream!Send
<1>3. CASE DaemonRead
  <2>1. /\ got.up \in Seq(Nat) /\ sockOut \in Seq(Nat) /\ up.holds \in Seq(Nat)
        /\ wsIn \in Seq(Nat) /\ sent.up \in Nat /\ Along(up) \in BOOLEAN
    BY <1>1, OrderTypes
  <2>2. sockOut # <<>>
    BY <1>3 DEF DaemonRead
  <2>4. Follows(sockOut, Len(got.up)) /\ Len(got.up) + Len(sockOut) <= sent.up
    BY <1>1 DEF UpOrder, InOrder
  <2>3. Head(sockOut) = Len(got.up) + 1
    <3>1. Len(got.up) \in Nat /\ Follows(sockOut, Len(got.up))
      BY <2>1, <2>4
    <3> QED
      BY <2>1, <2>2, <3>1, FollowsTail
  <2>5. Len(sockOut) \in Nat \ {0} /\ Len(got.up) \in Nat
    BY <2>1, <2>2
  <2>6. 1 \in 1..(sent.up - Len(got.up))
    BY <2>1, <2>4, <2>5
  <2>7. got'.up = Append(got.up, Head(sockOut)) /\ sent' = sent
    BY <1>1, <1>3, Histories DEF DaemonRead
  <2>8. Append(got.up, Head(sockOut)) = got.up \o <<Head(sockOut)>>
    <3>1. Head(sockOut) \in Nat
      BY <2>1, <2>2
    <3> QED
      BY <2>1, <3>1, AppendIsConcat
  <2>9. <<Head(sockOut)>> = [i \in 1..1 |-> Len(got.up) + i]
    <3>1. <<Head(sockOut)>> \in Seq(Nat) /\ Len(<<Head(sockOut)>>) = 1
      BY <2>3, <2>5
    <3>2. Follows(<<Head(sockOut)>>, Len(got.up))
      BY <2>3 DEF Follows
    <3> QED
      BY <2>1, <3>1, <3>2, RunIsFollowing
  <2>10. got'.up = got.up \o UpStream!Following(1)
    BY <2>7, <2>8, <2>9 DEF UpStream!Following
  <2> QED
    BY <2>6, <2>7, <2>10 DEF UpStream!Receive
<1>4. CASE ClientReceive \/ DaemonWrite
  BY <1>1, <1>4, Histories DEF ClientReceive, DaemonWrite
<1>5. CASE ~ (ClientSend \/ DaemonRead \/ ClientReceive \/ DaemonWrite)
  BY <1>5 DEF ProxyNext, Peers, ClientLeave, DaemonClose, Handler, Connect, Unavailable,
              Return, Down, DownRead, DownEof, DownSend, DownSendFails,
              Up, UpReceive, UpEnd, UpWrite, UpWriteFails, proxyVars
<1> QED
  BY <1>2, <1>3, <1>4, <1>5

LEMMA DownStreamNext ==
    ProxyInv /\ [ProxyNext]_proxyVars
        => [DownStream!Send \/ DownStream!Receive]_(DownStream!streamVars)
<1> SUFFICES ASSUME ProxyInv, [ProxyNext]_proxyVars
             PROVE  \/ DownStream!Send \/ DownStream!Receive
                    \/ sent'.down = sent.down /\ got'.down = got.down
  BY DEF DownStream!streamVars
<1>1. ProxyTypeOK /\ DownOrder
  BY OrderIs DEF ProxyInv, NothingLost
<1>2. CASE DaemonWrite
  <2>1. sent'.down = sent.down + 1 /\ got' = got
    BY <1>1, <1>2, Histories DEF DaemonWrite
  <2> QED
    BY <2>1 DEF DownStream!Send
<1>3. CASE ClientReceive
  <2>1. /\ got.down \in Seq(Nat) /\ wsOut \in Seq(Seq(Nat)) /\ down.holds \in Seq(Nat)
        /\ sockIn \in Seq(Nat) /\ sent.down \in Nat /\ Along(down) \in BOOLEAN
    BY <1>1, OrderTypes
  <2>2. wsOut # <<>>
    BY <1>3 DEF ClientReceive
  <2>3. /\ Head(wsOut) \in Seq(Nat) /\ Len(Head(wsOut)) > 0
        /\ Follows(Head(wsOut), Len(got.down))
        /\ Len(got.down) + Len(Head(wsOut)) <= sent.down
    <3>1. InFrames(got.down, wsOut, down.holds, sockIn, sent.down, Along(down))
      BY <1>1 DEF DownOrder
    <3> QED
      BY <2>1, <2>2, <3>1, FramesReceive, SMTT(30)
  <2>4. Len(Head(wsOut)) \in Nat /\ Len(got.down) \in Nat
    BY <2>1, <2>3
  <2>5. Len(Head(wsOut)) \in 1..(sent.down - Len(got.down))
    BY <2>1, <2>3, <2>4
  <2>6. got'.down = got.down \o Head(wsOut) /\ sent' = sent
    BY <1>1, <1>3, Histories DEF ClientReceive
  <2>7. got'.down = got.down \o DownStream!Following(Len(Head(wsOut)))
    BY <2>1, <2>3, <2>6, RunIsFollowing DEF DownStream!Following
  <2> QED
    BY <2>5, <2>6, <2>7 DEF DownStream!Receive
<1>4. CASE DaemonRead \/ ClientSend
  BY <1>1, <1>4, Histories DEF DaemonRead, ClientSend
<1>5. CASE ~ (ClientSend \/ DaemonRead \/ ClientReceive \/ DaemonWrite)
  BY <1>5 DEF ProxyNext, Peers, ClientLeave, DaemonClose, Handler, Connect, Unavailable,
              Return, Down, DownRead, DownEof, DownSend, DownSendFails,
              Up, UpReceive, UpEnd, UpWrite, UpWriteFails, proxyVars
<1> QED
  BY <1>2, <1>3, <1>4, <1>5

\* What a peer receives is what the other one sent, item after item: every
\* step of the proxy is a step of the two streams, or is none to them.
THEOREM ImplementsStreamsCorrect == ProxySpec => ImplementsStreams
<1>1. ProxyInit => UpStream!Init /\ DownStream!Init
  BY DEF ProxyInit, UpStream!Init, DownStream!Init
<1> QED
  BY <1>1, ProxyInvCorrect, UpStreamNext, DownStreamNext, PTL
     DEF ProxySpec, ImplementsStreams, UpStream!Spec, DownStream!Spec
=============================================================================
