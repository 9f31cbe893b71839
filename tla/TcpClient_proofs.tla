-------------------------- MODULE TcpClient_proofs --------------------------
(***************************************************************************)
(* The safety properties of TcpClient, proved for every set of descriptors *)
(* and hosts, for both platforms and for any bound on m_hosts.  Each part  *)
(* of the inductive invariant IInv has a lemma saying that a step of Next  *)
(* preserves it; the theorems at the end put them together.                *)
(***************************************************************************)
EXTENDS TcpClient, TLAPS

\* connect's push_back loop: m_hosts keeps its type and is not empty after it.
LEMMA PushBack ==
  ASSUME NEW S, NEW s \in Seq(S), NEW x \in S, NEW k \in Nat \ {0}
  PROVE  /\ s \o [i \in 1..k |-> x] \in Seq(S)
         /\ s \o [i \in 1..k |-> x] # <<>>
<1> DEFINE p == [i \in 1..k |-> x]
<1>1. p \in Seq(S) /\ Len(p) = k
  OBVIOUS
<1> HIDE DEF p
<1>2. s \o p \in Seq(S) /\ Len(s \o p) = Len(s) + k
  BY <1>1
<1>3. Len(s \o p) # 0
  BY <1>2
<1>4. s \o p # <<>>
  BY <1>3
<1> QED
  BY <1>2, <1>4 DEF p

\* What do_recv does to the rest of the client, whatever it has read.
LEMMA Readable ==
  ASSUME TypeOK, RunReadable
  PROVE  /\ pc["recv"] = "isset" /\ pc'["user"] = pc["user"]
         /\ \/ pc'["recv"] = "except" /\ UNCHANGED is_connected
            \/ pc'["recv"] = "lost" /\ is_connected' = FALSE
         /\ pc' \in [Threads -> Labels] /\ is_connected' \in BOOLEAN
         /\ UNCHANGED <<is_running, is_reconnect, fd, address, thread, locals, kernel, reported>>
<1> USE DEF TypeOK, Threads, Labels, RecvLabels
<1>1. UNCHANGED <<is_running, is_reconnect, fd, address, thread, locals, kernel, reported>>
  BY DEF RunReadable
<1>2. CASE Goto("recv", "isset", "except") /\ UNCHANGED is_connected
  BY <1>1, <1>2 DEF Goto
<1>3. CASE Goto("recv", "isset", "lost") /\ is_connected' = FALSE
  BY <1>1, <1>3 DEF Goto
<1> QED
  BY <1>2, <1>3 DEF RunReadable, DoRecv

\* A step keeps every variable in its type.
LEMMA TypeStep ==
  ASSUME TypeOK, FlagPhase, [Next]_vars
  PROVE  TypeOK'
<1> USE TcpAssumption DEF TypeOK, Threads, Sockets, DialLabels, StopLabels,
          UserLabels, RecvLabels, Labels
<1>1. ASSUME NEW t \in Threads, DcEnter(t) PROVE TypeOK'
  BY <1>1 DEF DcEnter, Goto, flags, address, thread, kernel
<1>2. ASSUME NEW t \in Threads, DcClose(t) PROVE TypeOK'
  BY <1>2 DEF DcClose, Goto, CLOSE, flags, address, thread
<1>3. ASSUME NEW t \in Threads, DcReset(t) PROVE TypeOK'
  <2>1. /\ pc' \in [Threads -> Labels] /\ pc'["user"] \in UserLabels
        /\ pc'["recv"] \in RecvLabels
    BY <1>3 DEF DcReset, Goto
  <2>2. /\ refused' \in BOOLEAN /\ fd' \in Fds \cup {NoFd}
        /\ UNCHANGED <<flags, address, joinable, redialled, locals, kernel, reported>>
    BY <1>3 DEF DcReset
  <2> QED
    BY <2>1, <2>2 DEF flags, address, locals, kernel
<1>4. ASSUME NEW t \in Threads, DcSocket(t) PROVE TypeOK'
  BY <1>4 DEF DcSocket, Goto, flags, address, thread
<1>5. ASSUME NEW t \in Threads, DcSocketFails(t) PROVE TypeOK'
  BY <1>5 DEF DcSocketFails, Goto, Return, flags, address, thread, locals, kernel
<1>6. ASSUME NEW t \in Threads, DcStore(t) PROVE TypeOK'
  <2>1. /\ pc' \in [Threads -> Labels] /\ pc'["user"] \in UserLabels
        /\ pc'["recv"] \in RecvLabels
    BY <1>6 DEF DcStore, Goto
  <2>2. /\ refused' \in BOOLEAN /\ fd' \in Fds \cup {NoFd} /\ loc' \in [Threads -> Fds \cup {NoFd}]
        /\ UNCHANGED <<flags, address, joinable, redialled, ready, caller, kernel, reported>>
    BY <1>6 DEF DcStore
  <2> QED
    BY <2>1, <2>2 DEF flags, address, kernel
<1>7. ASSUME NEW t \in Threads, DcSocketGone(t) PROVE TypeOK'
  BY <1>7 DEF DcSocketGone, Goto, Return, flags, address, thread, locals, kernel
<1>8. ASSUME NEW t \in Threads, DcDial(t) PROVE TypeOK'
  BY <1>8 DEF DcDial, Goto, flags, address, thread, kernel
<1>9. ASSUME NEW t \in Threads, DcDialed(t) PROVE TypeOK'
  BY <1>9 DEF DcDialed, Goto, address, thread
<1>10. ASSUME NEW t \in Threads, DcAnnounce(t) PROVE TypeOK'
  BY <1>10 DEF DcAnnounce, Goto, Return, flags, address, thread, locals, kernel
<1>11. ASSUME NEW t \in Threads, DcRefused(t) PROVE TypeOK'
  BY <1>11 DEF DcRefused, Goto, flags, address, kernel
<1>12. ASSUME NEW t \in Threads, DcFail(t) PROVE TypeOK'
  BY <1>12 DEF DcFail, Goto, CLOSE, Return, flags, address, thread, locals
<1>13. ASSUME NEW h \in Hosts, NEW r \in Reconnects, Connect(h, r) PROVE TypeOK'
  BY <1>13 DEF Connect, Goto, thread, locals, kernel
<1>14. ASSUME NEW k \in 1..MaxAddrs, Resolved(k) PROVE TypeOK'
  <2>1. m_host \in Hosts /\ k \in Nat \ {0}
    BY <1>14 DEF Resolved, Goto, FlagPhase
  <2>2. m_hosts \o [i \in 1..k |-> m_host] \in Seq(Hosts)
    BY <2>1, PushBack
  <2> QED
    BY <1>14, <2>2 DEF Resolved, Goto, thread, locals, kernel
<1>15. CASE Unresolved
  BY <1>15 DEF Unresolved, Goto, flags, address, thread, locals, kernel
<1>16. CASE Spawn
  BY <1>16 DEF Spawn, flags, address, locals, kernel
<1>17. CASE Send
  BY <1>17 DEF Send, Goto, flags, address, thread, locals, kernel
<1>18. CASE SendOk
  BY <1>18 DEF SendOk, Goto, flags, address, thread, locals, kernel
<1>19. CASE SendFails
  BY <1>19 DEF SendFails, Goto, flags, address, thread, kernel
<1>20. CASE Disconnect
  BY <1>20 DEF Disconnect, Goto, flags, address, thread, kernel
<1>21. CASE XEnter
  BY <1>21 DEF XEnter, Goto, address, thread, kernel
<1>22. CASE XClose
  BY <1>22 DEF XClose, Goto, CLOSE, flags, address, thread
<1>23. CASE XReset
  <2>1. /\ pc' \in [Threads -> Labels] /\ pc'["user"] \in UserLabels
        /\ pc'["recv"] \in RecvLabels
    BY <1>23 DEF XReset, Goto
  <2>2. /\ refused' \in BOOLEAN /\ fd' \in Fds \cup {NoFd}
        /\ UNCHANGED <<flags, address, joinable, redialled, locals, kernel, reported>>
    BY <1>23 DEF XReset
  <2> QED
    BY <2>1, <2>2 DEF flags, address, locals, kernel
<1>24. CASE XJoin
  <2>1. /\ pc' \in [Threads -> Labels] /\ pc'["user"] \in UserLabels
        /\ pc'["recv"] \in RecvLabels
    BY <1>24 DEF XJoin
  <2>2. /\ joinable' \in BOOLEAN
        /\ UNCHANGED <<flags, fd, address, redialled, refused, locals, kernel, reported>>
    BY <1>24 DEF XJoin
  <2> QED
    BY <2>1, <2>2 DEF flags, address, locals, kernel
<1>25. CASE XJoinThrows
  BY <1>25 DEF XJoinThrows, Goto, flags, address, thread, kernel
<1>26. CASE XClear
  <2>1. /\ pc' \in [Threads -> Labels] /\ pc'["user"] \in UserLabels
        /\ pc'["recv"] \in RecvLabels
    BY <1>26 DEF XClear, Goto
  <2>2. /\ is_connected' \in BOOLEAN /\ reported' \in {"up", "down"} /\ caller' = "user"
        /\ UNCHANGED <<is_running, is_reconnect, fd, address, thread, loc, ready, kernel>>
    BY <1>26 DEF XClear
  <2> QED
    BY <2>1, <2>2 DEF address, thread, kernel
<1>27. CASE RunCheck
  BY <1>27 DEF RunCheck, Goto, flags, address, thread, locals, kernel
<1>28. CASE RunPrepare
  BY <1>28 DEF RunPrepare, Goto, flags, address, thread, kernel
<1>29. CASE SelectReady
  BY <1>29 DEF SelectReady, Goto, flags, address, thread, kernel
<1>30. CASE SelectError
  BY <1>30 DEF SelectError, Goto, flags, address, thread, kernel
<1>31. CASE SelectTimeout
  BY <1>31 DEF SelectTimeout, TimeoutThen, Goto, flags, address, kernel
<1>32. CASE RunReadable
  <2>1. is_connected' \in BOOLEAN /\ pc' \in [Threads -> Labels]
    BY <1>32, Readable
  <2>2. pc'["user"] \in UserLabels /\ pc'["recv"] \in RecvLabels
    BY <1>32, Readable
  <2>3. UNCHANGED <<is_running, is_reconnect, fd, address, thread, locals, kernel, reported>>
    BY <1>32, Readable
  <2> QED
    BY <2>1, <2>2, <2>3 DEF address, thread, locals, kernel
<1>33. CASE RunLost
  BY <1>33 DEF RunLost, Goto, flags, address, thread, locals, kernel
<1>34. CASE RunExcept
  BY <1>34 DEF RunExcept, Goto, FD_ISSET, flags, address, thread, kernel
<1>35. CASE PeerCloses
  BY <1>35 DEF PeerCloses, flags, address, thread, locals
<1>36. CASE FileOpen
  BY <1>36 DEF FileOpen, flags, address, thread, locals
<1>37. CASE FileClose
  BY <1>37 DEF FileClose, flags, address, thread, locals
<1>38. CASE UNCHANGED vars
  BY <1>38 DEF vars, flags, address, thread, locals, kernel
<1>39. QED
  BY <1>1, <1>2, <1>3, <1>4, <1>5, <1>6, <1>7, <1>8, <1>9, <1>10, <1>11,
     <1>12, <1>13, <1>14, <1>15, <1>16, <1>17, <1>18, <1>19, <1>20,
     <1>21, <1>22, <1>23, <1>24, <1>25, <1>26, <1>27, <1>28, <1>29,
     <1>30, <1>31, <1>32, <1>33, <1>34, <1>35, <1>36, <1>37, <1>38
  DEF Next, UserCall, UserStep, StopStep, RecvStep, DoConnect, Environment

\* A step keeps the two threads in phase: connect starts a thread only after
\* the join of the one before it.
LEMMA ThreadPhaseStep ==
  ASSUME TypeOK, ThreadPhase, FlagPhase, [Next]_vars
  PROVE  ThreadPhase'
<1> USE DEF TypeOK, Threads, ThreadPhase, FlagPhase, DialLabels, StopLabels,
          UserLabels, RecvLabels, Labels
<1>1. ASSUME NEW t \in Threads, DcEnter(t) PROVE ThreadPhase'
  BY <1>1 DEF DcEnter, Goto, flags, address, thread, kernel
<1>2. ASSUME NEW t \in Threads, DcClose(t) PROVE ThreadPhase'
  BY <1>2 DEF DcClose, Goto, CLOSE, flags, address, thread
<1>3. ASSUME NEW t \in Threads, DcReset(t) PROVE ThreadPhase'
  BY <1>3 DEF DcReset, Goto, flags, address, locals, kernel
<1>4. ASSUME NEW t \in Threads, DcSocket(t) PROVE ThreadPhase'
  BY <1>4 DEF DcSocket, Goto, flags, address, thread
<1>5. ASSUME NEW t \in Threads, DcSocketFails(t) PROVE ThreadPhase'
  BY <1>5 DEF DcSocketFails, Goto, Return, flags, address, thread, locals, kernel
<1>6. ASSUME NEW t \in Threads, DcStore(t) PROVE ThreadPhase'
  BY <1>6 DEF DcStore, Goto, flags, address, kernel
<1>7. ASSUME NEW t \in Threads, DcSocketGone(t) PROVE ThreadPhase'
  BY <1>7 DEF DcSocketGone, Goto, Return, flags, address, thread, locals, kernel
<1>8. ASSUME NEW t \in Threads, DcDial(t) PROVE ThreadPhase'
  BY <1>8 DEF DcDial, Goto, flags, address, thread, kernel
<1>9. ASSUME NEW t \in Threads, DcDialed(t) PROVE ThreadPhase'
  BY <1>9 DEF DcDialed, Goto, address, thread
<1>10. ASSUME NEW t \in Threads, DcAnnounce(t) PROVE ThreadPhase'
  BY <1>10 DEF DcAnnounce, Goto, Return, flags, address, thread, locals, kernel
<1>11. ASSUME NEW t \in Threads, DcRefused(t) PROVE ThreadPhase'
  BY <1>11 DEF DcRefused, Goto, flags, address, kernel
<1>12. ASSUME NEW t \in Threads, DcFail(t) PROVE ThreadPhase'
  BY <1>12 DEF DcFail, Goto, CLOSE, Return, flags, address, thread, locals
<1>13. ASSUME NEW h \in Hosts, NEW r \in Reconnects, Connect(h, r) PROVE ThreadPhase'
  BY <1>13 DEF Connect, Goto, thread, locals, kernel
<1>14. ASSUME NEW k \in 1..MaxAddrs, Resolved(k) PROVE ThreadPhase'
  BY <1>14 DEF Resolved, Goto, thread, locals, kernel
<1>15. CASE Unresolved
  BY <1>15 DEF Unresolved, Goto, flags, address, thread, locals, kernel
<1>16. CASE Spawn
  BY <1>16 DEF Spawn, flags, address, locals, kernel
<1>17. CASE Send
  BY <1>17 DEF Send, Goto, flags, address, thread, locals, kernel
<1>18. CASE SendOk
  BY <1>18 DEF SendOk, Goto, flags, address, thread, locals, kernel
<1>19. CASE SendFails
  BY <1>19 DEF SendFails, Goto, flags, address, thread, kernel
<1>20. CASE Disconnect
  BY <1>20 DEF Disconnect, Goto, flags, address, thread, kernel
<1>21. CASE XEnter
  BY <1>21 DEF XEnter, Goto, address, thread, kernel
<1>22. CASE XClose
  BY <1>22 DEF XClose, Goto, CLOSE, flags, address, thread
<1>23. CASE XReset
  BY <1>23 DEF XReset, Goto, flags, address, locals, kernel
<1>24. CASE XJoin
  BY <1>24 DEF XJoin, flags, address, locals, kernel
<1>25. CASE XJoinThrows
  BY <1>25 DEF XJoinThrows, Goto, flags, address, thread, kernel
<1>26. CASE XClear
  BY <1>26 DEF XClear, Goto, address, thread, kernel
<1>27. CASE RunCheck
  BY <1>27 DEF RunCheck, Goto, flags, address, thread, locals, kernel
<1>28. CASE RunPrepare
  BY <1>28 DEF RunPrepare, Goto, flags, address, thread, kernel
<1>29. CASE SelectReady
  BY <1>29 DEF SelectReady, Goto, flags, address, thread, kernel
<1>30. CASE SelectError
  BY <1>30 DEF SelectError, Goto, flags, address, thread, kernel
<1>31. CASE SelectTimeout
  BY <1>31 DEF SelectTimeout, TimeoutThen, Goto, flags, address, kernel
<1>32. CASE RunReadable
  <2>1. pc["recv"] = "isset" /\ pc'["recv"] \in {"except", "lost"} /\ pc'["user"] = pc["user"]
    BY <1>32, Readable
  <2>2. UNCHANGED <<is_running, is_reconnect, fd, address, thread, locals, kernel, reported>>
    BY <1>32, Readable
  <2> QED
    BY <2>1, <2>2 DEF address, thread, locals, kernel
<1>33. CASE RunLost
  BY <1>33 DEF RunLost, Goto, flags, address, thread, locals, kernel
<1>34. CASE RunExcept
  BY <1>34 DEF RunExcept, Goto, FD_ISSET, flags, address, thread, kernel
<1>35. CASE PeerCloses
  BY <1>35 DEF PeerCloses, flags, address, thread, locals
<1>36. CASE FileOpen
  BY <1>36 DEF FileOpen, flags, address, thread, locals
<1>37. CASE FileClose
  BY <1>37 DEF FileClose, flags, address, thread, locals
<1>38. CASE UNCHANGED vars
  BY <1>38 DEF vars, flags, address, thread, locals, kernel
<1>39. QED
  BY <1>1, <1>2, <1>3, <1>4, <1>5, <1>6, <1>7, <1>8, <1>9, <1>10, <1>11,
     <1>12, <1>13, <1>14, <1>15, <1>16, <1>17, <1>18, <1>19, <1>20,
     <1>21, <1>22, <1>23, <1>24, <1>25, <1>26, <1>27, <1>28, <1>29,
     <1>30, <1>31, <1>32, <1>33, <1>34, <1>35, <1>36, <1>37, <1>38
  DEF Next, UserCall, UserStep, StopStep, RecvStep, DoConnect, Environment

\* A step keeps is_connected to the phases in which a connection can exist.
LEMMA FlagPhaseStep ==
  ASSUME TypeOK, ThreadPhase, FlagPhase, [Next]_vars
  PROVE  FlagPhase'
<1> USE DEF TypeOK, Threads, ThreadPhase, FlagPhase, DialLabels, StopLabels,
          UserLabels, RecvLabels, Labels
<1>1. ASSUME NEW t \in Threads, DcEnter(t) PROVE FlagPhase'
  BY <1>1 DEF DcEnter, Goto, flags, address, thread, kernel
<1>2. ASSUME NEW t \in Threads, DcClose(t) PROVE FlagPhase'
  BY <1>2 DEF DcClose, Goto, CLOSE, flags, address, thread
<1>3. ASSUME NEW t \in Threads, DcReset(t) PROVE FlagPhase'
  BY <1>3 DEF DcReset, Goto, flags, address, locals, kernel
<1>4. ASSUME NEW t \in Threads, DcSocket(t) PROVE FlagPhase'
  BY <1>4 DEF DcSocket, Goto, flags, address, thread
<1>5. ASSUME NEW t \in Threads, DcSocketFails(t) PROVE FlagPhase'
  BY <1>5 DEF DcSocketFails, Goto, Return, flags, address, thread, locals, kernel
<1>6. ASSUME NEW t \in Threads, DcStore(t) PROVE FlagPhase'
  BY <1>6 DEF DcStore, Goto, flags, address, kernel
<1>7. ASSUME NEW t \in Threads, DcSocketGone(t) PROVE FlagPhase'
  BY <1>7 DEF DcSocketGone, Goto, Return, flags, address, thread, locals, kernel
<1>8. ASSUME NEW t \in Threads, DcDial(t) PROVE FlagPhase'
  BY <1>8 DEF DcDial, Goto, flags, address, thread, kernel
<1>9. ASSUME NEW t \in Threads, DcDialed(t) PROVE FlagPhase'
  BY <1>9 DEF DcDialed, Goto, address, thread
<1>10. ASSUME NEW t \in Threads, DcAnnounce(t) PROVE FlagPhase'
  BY <1>10 DEF DcAnnounce, Goto, Return, flags, address, thread, locals, kernel
<1>11. ASSUME NEW t \in Threads, DcRefused(t) PROVE FlagPhase'
  BY <1>11 DEF DcRefused, Goto, flags, address, kernel
<1>12. ASSUME NEW t \in Threads, DcFail(t) PROVE FlagPhase'
  BY <1>12 DEF DcFail, Goto, CLOSE, Return, flags, address, thread, locals
<1>13. ASSUME NEW h \in Hosts, NEW r \in Reconnects, Connect(h, r) PROVE FlagPhase'
  BY <1>13 DEF Connect, Goto, thread, locals, kernel
<1>14. ASSUME NEW k \in 1..MaxAddrs, Resolved(k) PROVE FlagPhase'
  <2>1. m_host \in Hosts /\ k \in Nat \ {0}
    BY <1>14, TcpAssumption DEF Resolved, Goto
  <2>2. m_hosts \o [i \in 1..k |-> m_host] # <<>>
    BY <2>1, PushBack
  <2>3. m_hosts' # <<>>
    BY <1>14, <2>2 DEF Resolved
  <2> QED
    BY <1>14, <2>3 DEF Resolved, Goto, thread, locals, kernel
<1>15. CASE Unresolved
  BY <1>15 DEF Unresolved, Goto, flags, address, thread, locals, kernel
<1>16. CASE Spawn
  BY <1>16 DEF Spawn, flags, address, locals, kernel
<1>17. CASE Send
  BY <1>17 DEF Send, Goto, flags, address, thread, locals, kernel
<1>18. CASE SendOk
  BY <1>18 DEF SendOk, Goto, flags, address, thread, locals, kernel
<1>19. CASE SendFails
  BY <1>19 DEF SendFails, Goto, flags, address, thread, kernel
<1>20. CASE Disconnect
  BY <1>20 DEF Disconnect, Goto, flags, address, thread, kernel
<1>21. CASE XEnter
  BY <1>21 DEF XEnter, Goto, address, thread, kernel
<1>22. CASE XClose
  BY <1>22 DEF XClose, Goto, CLOSE, flags, address, thread
<1>23. CASE XReset
  BY <1>23 DEF XReset, Goto, flags, address, locals, kernel
<1>24. CASE XJoin
  BY <1>24 DEF XJoin, flags, address, locals, kernel
<1>25. CASE XJoinThrows
  BY <1>25 DEF XJoinThrows, Goto, flags, address, thread, kernel
<1>26. CASE XClear
  BY <1>26 DEF XClear, Goto, address, thread, kernel
<1>27. CASE RunCheck
  BY <1>27 DEF RunCheck, Goto, flags, address, thread, locals, kernel
<1>28. CASE RunPrepare
  BY <1>28 DEF RunPrepare, Goto, flags, address, thread, kernel
<1>29. CASE SelectReady
  BY <1>29 DEF SelectReady, Goto, flags, address, thread, kernel
<1>30. CASE SelectError
  BY <1>30 DEF SelectError, Goto, flags, address, thread, kernel
<1>31. CASE SelectTimeout
  BY <1>31 DEF SelectTimeout, TimeoutThen, Goto, flags, address, kernel
<1>32. CASE RunReadable
  BY <1>32, Readable DEF address, thread, locals, kernel
<1>33. CASE RunLost
  BY <1>33 DEF RunLost, Goto, flags, address, thread, locals, kernel
<1>34. CASE RunExcept
  BY <1>34 DEF RunExcept, Goto, FD_ISSET, flags, address, thread, kernel
<1>35. CASE PeerCloses
  BY <1>35 DEF PeerCloses, flags, address, thread, locals
<1>36. CASE FileOpen
  BY <1>36 DEF FileOpen, flags, address, thread, locals
<1>37. CASE FileClose
  BY <1>37 DEF FileClose, flags, address, thread, locals
<1>38. CASE UNCHANGED vars
  BY <1>38 DEF vars, flags, address, thread, locals, kernel
<1>39. QED
  BY <1>1, <1>2, <1>3, <1>4, <1>5, <1>6, <1>7, <1>8, <1>9, <1>10, <1>11,
     <1>12, <1>13, <1>14, <1>15, <1>16, <1>17, <1>18, <1>19, <1>20,
     <1>21, <1>22, <1>23, <1>24, <1>25, <1>26, <1>27, <1>28, <1>29,
     <1>30, <1>31, <1>32, <1>33, <1>34, <1>35, <1>36, <1>37, <1>38
  DEF Next, UserCall, UserStep, StopStep, RecvStep, DoConnect, Environment

\* While nothing has been stolen, a step leaves a dialling thread its socket
\* and the process its file.
LEMMA HoldingsStep ==
  ASSUME TypeOK, ThreadPhase, FlagPhase, Holdings, ConnectedHasSocket,
         [Next]_vars
  PROVE  Holdings'
<1> USE TcpAssumption DEF TypeOK, ThreadPhase, FlagPhase, Holdings, Threads,
          Sockets, ConnectedHasSocket, DialLabels, StopLabels, UserLabels,
          RecvLabels, Labels
<1>1. ASSUME NEW t \in Threads, DcEnter(t) PROVE Holdings'
  BY <1>1 DEF DcEnter, Goto, flags, address, thread, kernel
<1>2. ASSUME NEW t \in Threads, DcClose(t) PROVE Holdings'
  BY <1>2 DEF DcClose, Goto, CLOSE, flags, address, thread
<1>3. ASSUME NEW t \in Threads, DcReset(t) PROVE Holdings'
  BY <1>3 DEF DcReset, Goto, flags, address, locals, kernel
<1>4. ASSUME NEW t \in Threads, DcSocket(t) PROVE Holdings'
  BY <1>4 DEF DcSocket, Goto, flags, address, thread
<1>5. ASSUME NEW t \in Threads, DcSocketFails(t) PROVE Holdings'
  BY <1>5 DEF DcSocketFails, Goto, Return, flags, address, thread, locals, kernel
<1>6. ASSUME NEW t \in Threads, DcStore(t) PROVE Holdings'
  BY <1>6 DEF DcStore, Goto, flags, address, kernel
<1>7. ASSUME NEW t \in Threads, DcSocketGone(t) PROVE Holdings'
  BY <1>7 DEF DcSocketGone, Goto, Return, flags, address, thread, locals, kernel
<1>8. ASSUME NEW t \in Threads, DcDial(t) PROVE Holdings'
  BY <1>8 DEF DcDial, Goto, flags, address, thread, kernel
<1>9. ASSUME NEW t \in Threads, DcDialed(t) PROVE Holdings'
  BY <1>9 DEF DcDialed, Goto, address, thread
<1>10. ASSUME NEW t \in Threads, DcAnnounce(t) PROVE Holdings'
  BY <1>10 DEF DcAnnounce, Goto, Return, flags, address, thread, locals, kernel
<1>11. ASSUME NEW t \in Threads, DcRefused(t) PROVE Holdings'
  BY <1>11 DEF DcRefused, Goto, flags, address, kernel
<1>12. ASSUME NEW t \in Threads, DcFail(t) PROVE Holdings'
  BY <1>12 DEF DcFail, Goto, CLOSE, Return, flags, address, thread, locals
<1>13. ASSUME NEW h \in Hosts, NEW r \in Reconnects, Connect(h, r) PROVE Holdings'
  BY <1>13 DEF Connect, Goto, thread, locals, kernel
<1>14. ASSUME NEW k \in 1..MaxAddrs, Resolved(k) PROVE Holdings'
  BY <1>14 DEF Resolved, Goto, thread, locals, kernel
<1>15. CASE Unresolved
  BY <1>15 DEF Unresolved, Goto, flags, address, thread, locals, kernel
<1>16. CASE Spawn
  BY <1>16 DEF Spawn, flags, address, locals, kernel
<1>17. CASE Send
  BY <1>17 DEF Send, Goto, flags, address, thread, locals, kernel
<1>18. CASE SendOk
  BY <1>18 DEF SendOk, Goto, flags, address, thread, locals, kernel
<1>19. CASE SendFails
  BY <1>19 DEF SendFails, Goto, flags, address, thread, kernel
<1>20. CASE Disconnect
  BY <1>20 DEF Disconnect, Goto, flags, address, thread, kernel
<1>21. CASE XEnter
  BY <1>21 DEF XEnter, Goto, address, thread, kernel
<1>22. CASE XClose
  <2>1. PICK f \in {loc["user"], fd} : CLOSE(f)
    BY <1>22 DEF XClose
  <2>2. pc'["user"] = "x_reset"
    BY <1>22 DEF XClose, Goto
  <2>3. ASSUME ~stolen', file' # NoFd PROVE desc'[file'] = "file"
    <3>1. ~stolen /\ file' = file /\ file \in Fds /\ desc[file] = "file"
      BY <2>1, <2>3 DEF CLOSE
    <3>2. f # file
      BY <2>1, <2>3, <3>1 DEF CLOSE
    <3> QED
      BY <2>1, <3>1, <3>2 DEF CLOSE
  <2> QED
    BY <2>2, <2>3
<1>23. CASE XReset
  BY <1>23 DEF XReset, Goto, flags, address, locals, kernel
<1>24. CASE XJoin
  BY <1>24 DEF XJoin, flags, address, locals, kernel
<1>25. CASE XJoinThrows
  BY <1>25 DEF XJoinThrows, Goto, flags, address, thread, kernel
<1>26. CASE XClear
  BY <1>26 DEF XClear, Goto, address, thread, kernel
<1>27. CASE RunCheck
  BY <1>27 DEF RunCheck, Goto, flags, address, thread, locals, kernel
<1>28. CASE RunPrepare
  BY <1>28 DEF RunPrepare, Goto, flags, address, thread, kernel
<1>29. CASE SelectReady
  BY <1>29 DEF SelectReady, Goto, flags, address, thread, kernel
<1>30. CASE SelectError
  BY <1>30 DEF SelectError, Goto, flags, address, thread, kernel
<1>31. CASE SelectTimeout
  BY <1>31 DEF SelectTimeout, TimeoutThen, Goto, flags, address, kernel
<1>32. CASE RunReadable
  BY <1>32, Readable DEF address, thread, locals, kernel
<1>33. CASE RunLost
  BY <1>33 DEF RunLost, Goto, flags, address, thread, locals, kernel
<1>34. CASE RunExcept
  BY <1>34 DEF RunExcept, Goto, FD_ISSET, flags, address, thread, kernel
<1>35. CASE PeerCloses
  BY <1>35 DEF PeerCloses, flags, address, thread, locals
<1>36. CASE FileOpen
  BY <1>36 DEF FileOpen, flags, address, thread, locals
<1>37. CASE FileClose
  BY <1>37 DEF FileClose, flags, address, thread, locals
<1>38. CASE UNCHANGED vars
  BY <1>38 DEF vars, flags, address, thread, locals, kernel
<1>39. QED
  BY <1>1, <1>2, <1>3, <1>4, <1>5, <1>6, <1>7, <1>8, <1>9, <1>10, <1>11,
     <1>12, <1>13, <1>14, <1>15, <1>16, <1>17, <1>18, <1>19, <1>20,
     <1>21, <1>22, <1>23, <1>24, <1>25, <1>26, <1>27, <1>28, <1>29,
     <1>30, <1>31, <1>32, <1>33, <1>34, <1>35, <1>36, <1>37, <1>38
  DEF Next, UserCall, UserStep, StopStep, RecvStep, DoConnect, Environment

\* A step brings do_connect to socket() only after the earlier descriptor was
\* closed.
LEMMA EmptyHandedStep ==
  ASSUME TypeOK, ThreadPhase, FlagPhase, EmptyHanded, [Next]_vars
  PROVE  EmptyHanded'
<1> USE TcpAssumption DEF TypeOK, ThreadPhase, FlagPhase, EmptyHanded,
          Threads, Sockets, DialLabels, StopLabels, UserLabels, RecvLabels,
          Labels
<1>1. ASSUME NEW t \in Threads, DcEnter(t) PROVE EmptyHanded'
  BY <1>1 DEF DcEnter, Goto, flags, address, thread, kernel
<1>2. ASSUME NEW t \in Threads, DcClose(t) PROVE EmptyHanded'
  BY <1>2 DEF DcClose, Goto, CLOSE, flags, address, thread
<1>3. ASSUME NEW t \in Threads, DcReset(t) PROVE EmptyHanded'
  BY <1>3 DEF DcReset, Goto, flags, address, locals, kernel
<1>4. ASSUME NEW t \in Threads, DcSocket(t) PROVE EmptyHanded'
  BY <1>4 DEF DcSocket, Goto, flags, address, thread
<1>5. ASSUME NEW t \in Threads, DcSocketFails(t) PROVE EmptyHanded'
  BY <1>5 DEF DcSocketFails, Goto, Return, flags, address, thread, locals, kernel
<1>6. ASSUME NEW t \in Threads, DcStore(t) PROVE EmptyHanded'
  BY <1>6 DEF DcStore, Goto, flags, address, kernel
<1>7. ASSUME NEW t \in Threads, DcSocketGone(t) PROVE EmptyHanded'
  BY <1>7 DEF DcSocketGone, Goto, Return, flags, address, thread, locals, kernel
<1>8. ASSUME NEW t \in Threads, DcDial(t) PROVE EmptyHanded'
  BY <1>8 DEF DcDial, Goto, flags, address, thread, kernel
<1>9. ASSUME NEW t \in Threads, DcDialed(t) PROVE EmptyHanded'
  BY <1>9 DEF DcDialed, Goto, address, thread
<1>10. ASSUME NEW t \in Threads, DcAnnounce(t) PROVE EmptyHanded'
  BY <1>10 DEF DcAnnounce, Goto, Return, flags, address, thread, locals, kernel
<1>11. ASSUME NEW t \in Threads, DcRefused(t) PROVE EmptyHanded'
  BY <1>11 DEF DcRefused, Goto, flags, address, kernel
<1>12. ASSUME NEW t \in Threads, DcFail(t) PROVE EmptyHanded'
  BY <1>12 DEF DcFail, Goto, CLOSE, Return, flags, address, thread, locals
<1>13. ASSUME NEW h \in Hosts, NEW r \in Reconnects, Connect(h, r) PROVE EmptyHanded'
  BY <1>13 DEF Connect, Goto, thread, locals, kernel
<1>14. ASSUME NEW k \in 1..MaxAddrs, Resolved(k) PROVE EmptyHanded'
  BY <1>14 DEF Resolved, Goto, thread, locals, kernel
<1>15. CASE Unresolved
  BY <1>15 DEF Unresolved, Goto, flags, address, thread, locals, kernel
<1>16. CASE Spawn
  BY <1>16 DEF Spawn, flags, address, locals, kernel
<1>17. CASE Send
  BY <1>17 DEF Send, Goto, flags, address, thread, locals, kernel
<1>18. CASE SendOk
  BY <1>18 DEF SendOk, Goto, flags, address, thread, locals, kernel
<1>19. CASE SendFails
  BY <1>19 DEF SendFails, Goto, flags, address, thread, kernel
<1>20. CASE Disconnect
  BY <1>20 DEF Disconnect, Goto, flags, address, thread, kernel
<1>21. CASE XEnter
  BY <1>21 DEF XEnter, Goto, address, thread, kernel
<1>22. CASE XClose
  BY <1>22 DEF XClose, Goto, CLOSE, flags, address, thread
<1>23. CASE XReset
  BY <1>23 DEF XReset, Goto, flags, address, locals, kernel
<1>24. CASE XJoin
  BY <1>24 DEF XJoin, flags, address, locals, kernel
<1>25. CASE XJoinThrows
  BY <1>25 DEF XJoinThrows, Goto, flags, address, thread, kernel
<1>26. CASE XClear
  BY <1>26 DEF XClear, Goto, address, thread, kernel
<1>27. CASE RunCheck
  BY <1>27 DEF RunCheck, Goto, flags, address, thread, locals, kernel
<1>28. CASE RunPrepare
  BY <1>28 DEF RunPrepare, Goto, flags, address, thread, kernel
<1>29. CASE SelectReady
  BY <1>29 DEF SelectReady, Goto, flags, address, thread, kernel
<1>30. CASE SelectError
  BY <1>30 DEF SelectError, Goto, flags, address, thread, kernel
<1>31. CASE SelectTimeout
  BY <1>31 DEF SelectTimeout, TimeoutThen, Goto, flags, address, kernel
<1>32. CASE RunReadable
  BY <1>32, Readable DEF address, thread, locals, kernel
<1>33. CASE RunLost
  BY <1>33 DEF RunLost, Goto, flags, address, thread, locals, kernel
<1>34. CASE RunExcept
  BY <1>34 DEF RunExcept, Goto, FD_ISSET, flags, address, thread, kernel
<1>35. CASE PeerCloses
  BY <1>35 DEF PeerCloses, flags, address, thread, locals
<1>36. CASE FileOpen
  BY <1>36 DEF FileOpen, flags, address, thread, locals
<1>37. CASE FileClose
  BY <1>37 DEF FileClose, flags, address, thread, locals
<1>38. CASE UNCHANGED vars
  BY <1>38 DEF vars, flags, address, thread, locals, kernel
<1>39. QED
  BY <1>1, <1>2, <1>3, <1>4, <1>5, <1>6, <1>7, <1>8, <1>9, <1>10, <1>11,
     <1>12, <1>13, <1>14, <1>15, <1>16, <1>17, <1>18, <1>19, <1>20,
     <1>21, <1>22, <1>23, <1>24, <1>25, <1>26, <1>27, <1>28, <1>29,
     <1>30, <1>31, <1>32, <1>33, <1>34, <1>35, <1>36, <1>37, <1>38
  DEF Next, UserCall, UserStep, StopStep, RecvStep, DoConnect, Environment

\* A step keeps is_connected backed by a connected socket.
LEMMA ConnectedStep ==
  ASSUME TypeOK, ThreadPhase, FlagPhase, Holdings, ConnectedHasSocket,
         [Next]_vars
  PROVE  ConnectedHasSocket'
<1> USE TcpAssumption DEF TypeOK, ThreadPhase, FlagPhase, Holdings,
          ConnectedHasSocket, Threads, Sockets, DialLabels, StopLabels,
          UserLabels, RecvLabels, Labels
<1>1. ASSUME NEW t \in Threads, DcEnter(t) PROVE ConnectedHasSocket'
  BY <1>1 DEF DcEnter, Goto, flags, address, thread, kernel
<1>2. ASSUME NEW t \in Threads, DcClose(t) PROVE ConnectedHasSocket'
  BY <1>2 DEF DcClose, Goto, CLOSE, flags, address, thread
<1>3. ASSUME NEW t \in Threads, DcReset(t) PROVE ConnectedHasSocket'
  BY <1>3 DEF DcReset, Goto, flags, address, locals, kernel
<1>4. ASSUME NEW t \in Threads, DcSocket(t) PROVE ConnectedHasSocket'
  BY <1>4 DEF DcSocket, Goto, flags, address, thread
<1>5. ASSUME NEW t \in Threads, DcSocketFails(t) PROVE ConnectedHasSocket'
  BY <1>5 DEF DcSocketFails, Goto, Return, flags, address, thread, locals, kernel
<1>6. ASSUME NEW t \in Threads, DcStore(t) PROVE ConnectedHasSocket'
  BY <1>6 DEF DcStore, Goto, flags, address, kernel
<1>7. ASSUME NEW t \in Threads, DcSocketGone(t) PROVE ConnectedHasSocket'
  BY <1>7 DEF DcSocketGone, Goto, Return, flags, address, thread, locals, kernel
<1>8. ASSUME NEW t \in Threads, DcDial(t) PROVE ConnectedHasSocket'
  BY <1>8 DEF DcDial, Goto, flags, address, thread, kernel
<1>9. ASSUME NEW t \in Threads, DcDialed(t) PROVE ConnectedHasSocket'
  BY <1>9 DEF DcDialed, Goto, address, thread
<1>10. ASSUME NEW t \in Threads, DcAnnounce(t) PROVE ConnectedHasSocket'
  BY <1>10 DEF DcAnnounce, Goto, Return, flags, address, thread, locals, kernel
<1>11. ASSUME NEW t \in Threads, DcRefused(t) PROVE ConnectedHasSocket'
  BY <1>11 DEF DcRefused, Goto, flags, address, kernel
<1>12. ASSUME NEW t \in Threads, DcFail(t) PROVE ConnectedHasSocket'
  BY <1>12 DEF DcFail, Goto, CLOSE, Return, flags, address, thread, locals
<1>13. ASSUME NEW h \in Hosts, NEW r \in Reconnects, Connect(h, r) PROVE ConnectedHasSocket'
  BY <1>13 DEF Connect, Goto, thread, locals, kernel
<1>14. ASSUME NEW k \in 1..MaxAddrs, Resolved(k) PROVE ConnectedHasSocket'
  BY <1>14 DEF Resolved, Goto, thread, locals, kernel
<1>15. CASE Unresolved
  BY <1>15 DEF Unresolved, Goto, flags, address, thread, locals, kernel
<1>16. CASE Spawn
  BY <1>16 DEF Spawn, flags, address, locals, kernel
<1>17. CASE Send
  BY <1>17 DEF Send, Goto, flags, address, thread, locals, kernel
<1>18. CASE SendOk
  BY <1>18 DEF SendOk, Goto, flags, address, thread, locals, kernel
<1>19. CASE SendFails
  BY <1>19 DEF SendFails, Goto, flags, address, thread, kernel
<1>20. CASE Disconnect
  BY <1>20 DEF Disconnect, Goto, flags, address, thread, kernel
<1>21. CASE XEnter
  BY <1>21 DEF XEnter, Goto, address, thread, kernel
<1>22. CASE XClose
  BY <1>22 DEF XClose, Goto, CLOSE, flags, address, thread
<1>23. CASE XReset
  BY <1>23 DEF XReset, Goto, flags, address, locals, kernel
<1>24. CASE XJoin
  BY <1>24 DEF XJoin, flags, address, locals, kernel
<1>25. CASE XJoinThrows
  BY <1>25 DEF XJoinThrows, Goto, flags, address, thread, kernel
<1>26. CASE XClear
  BY <1>26 DEF XClear, Goto, address, thread, kernel
<1>27. CASE RunCheck
  BY <1>27 DEF RunCheck, Goto, flags, address, thread, locals, kernel
<1>28. CASE RunPrepare
  BY <1>28 DEF RunPrepare, Goto, flags, address, thread, kernel
<1>29. CASE SelectReady
  BY <1>29 DEF SelectReady, Goto, flags, address, thread, kernel
<1>30. CASE SelectError
  BY <1>30 DEF SelectError, Goto, flags, address, thread, kernel
<1>31. CASE SelectTimeout
  BY <1>31 DEF SelectTimeout, TimeoutThen, Goto, flags, address, kernel
<1>32. CASE RunReadable
  BY <1>32, Readable DEF address, thread, locals, kernel
<1>33. CASE RunLost
  BY <1>33 DEF RunLost, Goto, flags, address, thread, locals, kernel
<1>34. CASE RunExcept
  BY <1>34 DEF RunExcept, Goto, FD_ISSET, flags, address, thread, kernel
<1>35. CASE PeerCloses
  BY <1>35 DEF PeerCloses, flags, address, thread, locals
<1>36. CASE FileOpen
  BY <1>36 DEF FileOpen, flags, address, thread, locals
<1>37. CASE FileClose
  BY <1>37 DEF FileClose, flags, address, thread, locals
<1>38. CASE UNCHANGED vars
  BY <1>38 DEF vars, flags, address, thread, locals, kernel
<1>39. QED
  BY <1>1, <1>2, <1>3, <1>4, <1>5, <1>6, <1>7, <1>8, <1>9, <1>10, <1>11,
     <1>12, <1>13, <1>14, <1>15, <1>16, <1>17, <1>18, <1>19, <1>20,
     <1>21, <1>22, <1>23, <1>24, <1>25, <1>26, <1>27, <1>28, <1>29,
     <1>30, <1>31, <1>32, <1>33, <1>34, <1>35, <1>36, <1>37, <1>38
  DEF Next, UserCall, UserStep, StopStep, RecvStep, DoConnect, Environment

\* A step that clears is_connected brings the news, or is do_recv's, whose next
\* step does.
LEMMA NewsStep ==
  ASSUME TypeOK, ThreadPhase, FlagPhase, NoSilentLoss, [Next]_vars
  PROVE  NoSilentLoss'
<1> USE DEF TypeOK, ThreadPhase, FlagPhase, NoSilentLoss, Threads, DialLabels
<1>1. ASSUME NEW t \in Threads, DcEnter(t) PROVE NoSilentLoss'
  BY <1>1 DEF DcEnter, Goto, flags, address, thread, kernel
<1>2. ASSUME NEW t \in Threads, DcClose(t) PROVE NoSilentLoss'
  BY <1>2 DEF DcClose, Goto, CLOSE, flags, address, thread
<1>3. ASSUME NEW t \in Threads, DcReset(t) PROVE NoSilentLoss'
  BY <1>3 DEF DcReset, Goto, flags, address, locals, kernel
<1>4. ASSUME NEW t \in Threads, DcSocket(t) PROVE NoSilentLoss'
  BY <1>4 DEF DcSocket, Goto, flags, address, thread
<1>5. ASSUME NEW t \in Threads, DcSocketFails(t) PROVE NoSilentLoss'
  BY <1>5 DEF DcSocketFails, Goto, Return, flags, address, thread, locals, kernel
<1>6. ASSUME NEW t \in Threads, DcStore(t) PROVE NoSilentLoss'
  BY <1>6 DEF DcStore, Goto, flags, address, kernel
<1>7. ASSUME NEW t \in Threads, DcSocketGone(t) PROVE NoSilentLoss'
  BY <1>7 DEF DcSocketGone, Goto, Return, flags, address, thread, locals, kernel
<1>8. ASSUME NEW t \in Threads, DcDial(t) PROVE NoSilentLoss'
  BY <1>8 DEF DcDial, Goto, flags, address, thread, kernel
<1>9. ASSUME NEW t \in Threads, DcDialed(t) PROVE NoSilentLoss'
  BY <1>9 DEF DcDialed, Goto, address, thread
<1>10. ASSUME NEW t \in Threads, DcAnnounce(t) PROVE NoSilentLoss'
  BY <1>10 DEF DcAnnounce, Goto, Return, flags, address, thread, locals, kernel
<1>11. ASSUME NEW t \in Threads, DcRefused(t) PROVE NoSilentLoss'
  BY <1>11 DEF DcRefused, Goto, flags, address, kernel
<1>12. ASSUME NEW t \in Threads, DcFail(t) PROVE NoSilentLoss'
  BY <1>12 DEF DcFail, Goto, CLOSE, Return, flags, address, thread, locals
<1>13. ASSUME NEW h \in Hosts, NEW r \in Reconnects, Connect(h, r) PROVE NoSilentLoss'
  BY <1>13 DEF Connect, Goto, thread, locals, kernel
<1>14. ASSUME NEW k \in 1..MaxAddrs, Resolved(k) PROVE NoSilentLoss'
  BY <1>14 DEF Resolved, Goto, thread, locals, kernel
<1>15. CASE Unresolved
  BY <1>15 DEF Unresolved, Goto, flags, address, thread, locals, kernel
<1>16. CASE Spawn
  BY <1>16 DEF Spawn, flags, address, locals, kernel
<1>17. CASE Send
  BY <1>17 DEF Send, Goto, flags, address, thread, locals, kernel
<1>18. CASE SendOk
  BY <1>18 DEF SendOk, Goto, flags, address, thread, locals, kernel
<1>19. CASE SendFails
  BY <1>19 DEF SendFails, Goto, flags, address, thread, kernel
<1>20. CASE Disconnect
  BY <1>20 DEF Disconnect, Goto, flags, address, thread, kernel
<1>21. CASE XEnter
  BY <1>21 DEF XEnter, Goto, address, thread, kernel
<1>22. CASE XClose
  BY <1>22 DEF XClose, Goto, CLOSE, flags, address, thread
<1>23. CASE XReset
  BY <1>23 DEF XReset, Goto, flags, address, locals, kernel
<1>24. CASE XJoin
  BY <1>24 DEF XJoin, flags, address, locals, kernel
<1>25. CASE XJoinThrows
  BY <1>25 DEF XJoinThrows, Goto, flags, address, thread, kernel
<1>26. CASE XClear
  BY <1>26 DEF XClear, Goto, address, thread, kernel
<1>27. CASE RunCheck
  BY <1>27 DEF RunCheck, Goto, flags, address, thread, locals, kernel
<1>28. CASE RunPrepare
  BY <1>28 DEF RunPrepare, Goto, flags, address, thread, kernel
<1>29. CASE SelectReady
  BY <1>29 DEF SelectReady, Goto, flags, address, thread, kernel
<1>30. CASE SelectError
  BY <1>30 DEF SelectError, Goto, flags, address, thread, kernel
<1>31. CASE SelectTimeout
  BY <1>31 DEF SelectTimeout, TimeoutThen, Goto, flags, address, kernel
<1>32. CASE RunReadable
  BY <1>32, Readable DEF address, thread, locals, kernel
<1>33. CASE RunLost
  BY <1>33 DEF RunLost, Goto, flags, address, thread, locals, kernel
<1>34. CASE RunExcept
  BY <1>34 DEF RunExcept, Goto, FD_ISSET, flags, address, thread, kernel
<1>35. CASE PeerCloses
  BY <1>35 DEF PeerCloses, flags, address, thread, locals
<1>36. CASE FileOpen
  BY <1>36 DEF FileOpen, flags, address, thread, locals
<1>37. CASE FileClose
  BY <1>37 DEF FileClose, flags, address, thread, locals
<1>38. CASE UNCHANGED vars
  BY <1>38 DEF vars, flags, address, thread, locals, kernel
<1>39. QED
  BY <1>1, <1>2, <1>3, <1>4, <1>5, <1>6, <1>7, <1>8, <1>9, <1>10, <1>11,
     <1>12, <1>13, <1>14, <1>15, <1>16, <1>17, <1>18, <1>19, <1>20,
     <1>21, <1>22, <1>23, <1>24, <1>25, <1>26, <1>27, <1>28, <1>29,
     <1>30, <1>31, <1>32, <1>33, <1>34, <1>35, <1>36, <1>37, <1>38
  DEF Next, UserCall, UserStep, StopStep, RecvStep, DoConnect, Environment

\* A step of a client that has not redialled leaves fd its only socket.
LEMMA OneSocketStep ==
  ASSUME TypeOK, ThreadPhase, FlagPhase, EmptyHanded, OneSocket, [Next]_vars
  PROVE  OneSocket'
<1> USE TcpAssumption DEF TypeOK, ThreadPhase, FlagPhase, EmptyHanded,
          OneSocket, Threads, Sockets, DialLabels, StopLabels, UserLabels,
          RecvLabels, Labels
<1>1. ASSUME NEW t \in Threads, DcEnter(t) PROVE OneSocket'
  BY <1>1 DEF DcEnter, Goto, flags, address, thread, kernel
<1>2. ASSUME NEW t \in Threads, DcClose(t) PROVE OneSocket'
  BY <1>2 DEF DcClose, Goto, CLOSE, flags, address, thread
<1>3. ASSUME NEW t \in Threads, DcReset(t) PROVE OneSocket'
  BY <1>3 DEF DcReset, Goto, flags, address, locals, kernel
<1>4. ASSUME NEW t \in Threads, DcSocket(t) PROVE OneSocket'
  BY <1>4 DEF DcSocket, Goto, flags, address, thread
<1>5. ASSUME NEW t \in Threads, DcSocketFails(t) PROVE OneSocket'
  BY <1>5 DEF DcSocketFails, Goto, Return, flags, address, thread, locals, kernel
<1>6. ASSUME NEW t \in Threads, DcStore(t) PROVE OneSocket'
  BY <1>6 DEF DcStore, Goto, flags, address, kernel
<1>7. ASSUME NEW t \in Threads, DcSocketGone(t) PROVE OneSocket'
  BY <1>7 DEF DcSocketGone, Goto, Return, flags, address, thread, locals, kernel
<1>8. ASSUME NEW t \in Threads, DcDial(t) PROVE OneSocket'
  BY <1>8 DEF DcDial, Goto, flags, address, thread, kernel
<1>9. ASSUME NEW t \in Threads, DcDialed(t) PROVE OneSocket'
  BY <1>9 DEF DcDialed, Goto, address, thread
<1>10. ASSUME NEW t \in Threads, DcAnnounce(t) PROVE OneSocket'
  BY <1>10 DEF DcAnnounce, Goto, Return, flags, address, thread, locals, kernel
<1>11. ASSUME NEW t \in Threads, DcRefused(t) PROVE OneSocket'
  BY <1>11 DEF DcRefused, Goto, flags, address, kernel
<1>12. ASSUME NEW t \in Threads, DcFail(t) PROVE OneSocket'
  BY <1>12 DEF DcFail, Goto, CLOSE, Return, flags, address, thread, locals
<1>13. ASSUME NEW h \in Hosts, NEW r \in Reconnects, Connect(h, r) PROVE OneSocket'
  BY <1>13 DEF Connect, Goto, thread, locals, kernel
<1>14. ASSUME NEW k \in 1..MaxAddrs, Resolved(k) PROVE OneSocket'
  BY <1>14 DEF Resolved, Goto, thread, locals, kernel
<1>15. CASE Unresolved
  BY <1>15 DEF Unresolved, Goto, flags, address, thread, locals, kernel
<1>16. CASE Spawn
  BY <1>16 DEF Spawn, flags, address, locals, kernel
<1>17. CASE Send
  BY <1>17 DEF Send, Goto, flags, address, thread, locals, kernel
<1>18. CASE SendOk
  BY <1>18 DEF SendOk, Goto, flags, address, thread, locals, kernel
<1>19. CASE SendFails
  BY <1>19 DEF SendFails, Goto, flags, address, thread, kernel
<1>20. CASE Disconnect
  BY <1>20 DEF Disconnect, Goto, flags, address, thread, kernel
<1>21. CASE XEnter
  BY <1>21 DEF XEnter, Goto, address, thread, kernel
<1>22. CASE XClose
  BY <1>22 DEF XClose, Goto, CLOSE, flags, address, thread
<1>23. CASE XReset
  BY <1>23 DEF XReset, Goto, flags, address, locals, kernel
<1>24. CASE XJoin
  BY <1>24 DEF XJoin, flags, address, locals, kernel
<1>25. CASE XJoinThrows
  BY <1>25 DEF XJoinThrows, Goto, flags, address, thread, kernel
<1>26. CASE XClear
  BY <1>26 DEF XClear, Goto, address, thread, kernel
<1>27. CASE RunCheck
  BY <1>27 DEF RunCheck, Goto, flags, address, thread, locals, kernel
<1>28. CASE RunPrepare
  BY <1>28 DEF RunPrepare, Goto, flags, address, thread, kernel
<1>29. CASE SelectReady
  BY <1>29 DEF SelectReady, Goto, flags, address, thread, kernel
<1>30. CASE SelectError
  BY <1>30 DEF SelectError, Goto, flags, address, thread, kernel
<1>31. CASE SelectTimeout
  BY <1>31 DEF SelectTimeout, TimeoutThen, Goto, flags, address, kernel
<1>32. CASE RunReadable
  BY <1>32, Readable DEF address, thread, locals, kernel
<1>33. CASE RunLost
  BY <1>33 DEF RunLost, Goto, flags, address, thread, locals, kernel
<1>34. CASE RunExcept
  BY <1>34 DEF RunExcept, Goto, FD_ISSET, flags, address, thread, kernel
<1>35. CASE PeerCloses
  BY <1>35 DEF PeerCloses, flags, address, thread, locals
<1>36. CASE FileOpen
  BY <1>36 DEF FileOpen, flags, address, thread, locals
<1>37. CASE FileClose
  BY <1>37 DEF FileClose, flags, address, thread, locals
<1>38. CASE UNCHANGED vars
  BY <1>38 DEF vars, flags, address, thread, locals, kernel
<1>39. QED
  BY <1>1, <1>2, <1>3, <1>4, <1>5, <1>6, <1>7, <1>8, <1>9, <1>10, <1>11,
     <1>12, <1>13, <1>14, <1>15, <1>16, <1>17, <1>18, <1>19, <1>20,
     <1>21, <1>22, <1>23, <1>24, <1>25, <1>26, <1>27, <1>28, <1>29,
     <1>30, <1>31, <1>32, <1>33, <1>34, <1>35, <1>36, <1>37, <1>38
  DEF Next, UserCall, UserStep, StopStep, RecvStep, DoConnect, Environment

\* Unless its socket's dial was refused, a step leaves fd a closed number only until
\* the reset that follows.
LEMMA NumberForgottenStep ==
  ASSUME TypeOK, ThreadPhase, FlagPhase, Holdings, EmptyHanded, NumberForgotten,
         [Next]_vars
  PROVE  NumberForgotten'
<1> USE TcpAssumption DEF TypeOK, ThreadPhase, Holdings, EmptyHanded, NumberForgotten, Threads,
          Sockets, DialLabels, StopLabels, UserLabels, RecvLabels, Labels
<1>1. ASSUME NEW t \in Threads, DcEnter(t) PROVE NumberForgotten'
  BY <1>1 DEF DcEnter, Goto, flags, address, thread, kernel
<1>2. ASSUME NEW t \in Threads, DcClose(t) PROVE NumberForgotten'
  BY <1>2 DEF DcClose, Goto, CLOSE, flags, address, thread
<1>3. ASSUME NEW t \in Threads, DcReset(t) PROVE NumberForgotten'
  BY <1>3 DEF DcReset, Goto, flags, address, locals, kernel
<1>4. ASSUME NEW t \in Threads, DcSocket(t) PROVE NumberForgotten'
  BY <1>4 DEF DcSocket, Goto, flags, address, thread
<1>5. ASSUME NEW t \in Threads, DcSocketFails(t) PROVE NumberForgotten'
  BY <1>5 DEF DcSocketFails, Goto, Return, flags, address, thread, locals, kernel
<1>6. ASSUME NEW t \in Threads, DcStore(t) PROVE NumberForgotten'
  BY <1>6 DEF DcStore, Goto, flags, address, kernel
<1>7. ASSUME NEW t \in Threads, DcSocketGone(t) PROVE NumberForgotten'
  BY <1>7 DEF DcSocketGone, Goto, Return, flags, address, thread, locals, kernel
<1>8. ASSUME NEW t \in Threads, DcDial(t) PROVE NumberForgotten'
  BY <1>8 DEF DcDial, Goto, flags, address, thread, kernel
<1>9. ASSUME NEW t \in Threads, DcDialed(t) PROVE NumberForgotten'
  BY <1>9 DEF DcDialed, Goto, address, thread
<1>10. ASSUME NEW t \in Threads, DcAnnounce(t) PROVE NumberForgotten'
  BY <1>10 DEF DcAnnounce, Goto, Return, flags, address, thread, locals, kernel
<1>11. ASSUME NEW t \in Threads, DcRefused(t) PROVE NumberForgotten'
  BY <1>11 DEF DcRefused, Goto, flags, address, kernel
<1>12. ASSUME NEW t \in Threads, DcFail(t) PROVE NumberForgotten'
  BY <1>12 DEF DcFail, Goto, CLOSE, Return, flags, address, thread, locals
<1>13. ASSUME NEW h \in Hosts, NEW r \in Reconnects, Connect(h, r) PROVE NumberForgotten'
  BY <1>13 DEF Connect, Goto, thread, locals, kernel
<1>14. ASSUME NEW k \in 1..MaxAddrs, Resolved(k) PROVE NumberForgotten'
  BY <1>14 DEF Resolved, Goto, thread, locals, kernel
<1>15. CASE Unresolved
  BY <1>15 DEF Unresolved, Goto, flags, address, thread, locals, kernel
<1>16. CASE Spawn
  BY <1>16 DEF Spawn, flags, address, locals, kernel
<1>17. CASE Send
  BY <1>17 DEF Send, Goto, flags, address, thread, locals, kernel
<1>18. CASE SendOk
  BY <1>18 DEF SendOk, Goto, flags, address, thread, locals, kernel
<1>19. CASE SendFails
  BY <1>19 DEF SendFails, Goto, flags, address, thread, kernel
<1>20. CASE Disconnect
  BY <1>20 DEF Disconnect, Goto, flags, address, thread, kernel
<1>21. CASE XEnter
  BY <1>21 DEF XEnter, Goto, address, thread, kernel
<1>22. CASE XClose
  BY <1>22 DEF XClose, Goto, CLOSE, flags, address, thread
<1>23. CASE XReset
  BY <1>23 DEF XReset, Goto, flags, address, locals, kernel
<1>24. CASE XJoin
  BY <1>24 DEF XJoin, flags, address, locals, kernel
<1>25. CASE XJoinThrows
  BY <1>25 DEF XJoinThrows, Goto, flags, address, thread, kernel
<1>26. CASE XClear
  BY <1>26 DEF XClear, Goto, address, thread, kernel
<1>27. CASE RunCheck
  BY <1>27 DEF RunCheck, Goto, flags, address, thread, locals, kernel
<1>28. CASE RunPrepare
  BY <1>28 DEF RunPrepare, Goto, flags, address, thread, kernel
<1>29. CASE SelectReady
  BY <1>29 DEF SelectReady, Goto, flags, address, thread, kernel
<1>30. CASE SelectError
  BY <1>30 DEF SelectError, Goto, flags, address, thread, kernel
<1>31. CASE SelectTimeout
  BY <1>31 DEF SelectTimeout, TimeoutThen, Goto, flags, address, kernel
<1>32. CASE RunReadable
  <2>1. pc["recv"] = "isset" /\ pc'["recv"] \in {"except", "lost"} /\ pc'["user"] = pc["user"]
    BY <1>32, Readable
  <2>2. UNCHANGED <<is_running, is_reconnect, fd, address, thread, locals, kernel, reported>>
    BY <1>32, Readable
  <2> QED
    BY <2>1, <2>2 DEF thread, locals, kernel
<1>33. CASE RunLost
  BY <1>33 DEF RunLost, Goto, flags, address, thread, locals, kernel
<1>34. CASE RunExcept
  BY <1>34 DEF RunExcept, Goto, FD_ISSET, flags, address, thread, kernel
<1>35. CASE PeerCloses
  BY <1>35 DEF PeerCloses, flags, address, thread, locals
<1>36. CASE FileOpen
  BY <1>36 DEF FileOpen, flags, address, thread, locals
<1>37. CASE FileClose
  BY <1>37 DEF FileClose, flags, address, thread, locals
<1>38. CASE UNCHANGED vars
  BY <1>38 DEF vars, flags, address, thread, locals, kernel
<1>39. QED
  BY <1>1, <1>2, <1>3, <1>4, <1>5, <1>6, <1>7, <1>8, <1>9, <1>10, <1>11,
     <1>12, <1>13, <1>14, <1>15, <1>16, <1>17, <1>18, <1>19, <1>20,
     <1>21, <1>22, <1>23, <1>24, <1>25, <1>26, <1>27, <1>28, <1>29,
     <1>30, <1>31, <1>32, <1>33, <1>34, <1>35, <1>36, <1>37, <1>38
  DEF Next, UserCall, UserStep, StopStep, RecvStep, DoConnect, Environment

\* A step of Connection as TcpClient's state shows it.
PromiseNext == [Promise!Next]_<<Phase, is_connected, reported>>

\* A step of either thread is a step of Connection or changes nothing of what
\* Connection speaks of.
LEMMA PromiseStep ==
  ASSUME IInv, [Next]_vars
  PROVE  PromiseNext
<1> USE DEF IInv, TypeOK, ThreadPhase, FlagPhase, NoSilentLoss, PromiseNext,
          Phase, Threads, Promise!Next, Promise!Start, Promise!Dialled,
          Promise!Announced, Promise!Lost, Promise!Alarm, Promise!Stop, Promise!Stopped,
          DialLabels, StopLabels, UserLabels, RecvLabels, Labels
<1>1. ASSUME NEW t \in Threads, DcEnter(t) PROVE PromiseNext
  BY <1>1 DEF DcEnter, Goto, flags, address, thread, kernel
<1>2. ASSUME NEW t \in Threads, DcClose(t) PROVE PromiseNext
  BY <1>2 DEF DcClose, Goto, CLOSE, flags, address, thread
<1>3. ASSUME NEW t \in Threads, DcReset(t) PROVE PromiseNext
  BY <1>3 DEF DcReset, Goto, flags, address, locals, kernel
<1>4. ASSUME NEW t \in Threads, DcSocket(t) PROVE PromiseNext
  BY <1>4 DEF DcSocket, Goto, flags, address, thread
<1>5. ASSUME NEW t \in Threads, DcSocketFails(t) PROVE PromiseNext
  BY <1>5 DEF DcSocketFails, Goto, Return, flags, address, thread, locals, kernel
<1>6. ASSUME NEW t \in Threads, DcStore(t) PROVE PromiseNext
  BY <1>6 DEF DcStore, Goto, flags, address, kernel
<1>7. ASSUME NEW t \in Threads, DcSocketGone(t) PROVE PromiseNext
  BY <1>7 DEF DcSocketGone, Goto, Return, flags, address, thread, locals, kernel
<1>8. ASSUME NEW t \in Threads, DcDial(t) PROVE PromiseNext
  BY <1>8 DEF DcDial, Goto, flags, address, thread, kernel
<1>9. ASSUME NEW t \in Threads, DcDialed(t) PROVE PromiseNext
  BY <1>9 DEF DcDialed, Goto, address, thread
<1>10. ASSUME NEW t \in Threads, DcAnnounce(t) PROVE PromiseNext
  BY <1>10 DEF DcAnnounce, Goto, Return, flags, address, thread, locals, kernel
<1>11. ASSUME NEW t \in Threads, DcRefused(t) PROVE PromiseNext
  BY <1>11 DEF DcRefused, Goto, flags, address, kernel
<1>12. ASSUME NEW t \in Threads, DcFail(t) PROVE PromiseNext
  BY <1>12 DEF DcFail, Goto, CLOSE, Return, flags, address, thread, locals
<1>13. ASSUME NEW h \in Hosts, NEW r \in Reconnects, Connect(h, r) PROVE PromiseNext
  BY <1>13 DEF Connect, Goto, thread, locals, kernel
<1>14. ASSUME NEW k \in 1..MaxAddrs, Resolved(k) PROVE PromiseNext
  BY <1>14 DEF Resolved, Goto, thread, locals, kernel
<1>15. CASE Unresolved
  BY <1>15 DEF Unresolved, Goto, flags, address, thread, locals, kernel
<1>16. CASE Spawn
  BY <1>16 DEF Spawn, flags, address, locals, kernel
<1>17. CASE Send
  BY <1>17 DEF Send, Goto, flags, address, thread, locals, kernel
<1>18. CASE SendOk
  BY <1>18 DEF SendOk, Goto, flags, address, thread, locals, kernel
<1>19. CASE SendFails
  BY <1>19 DEF SendFails, Goto, flags, address, thread, kernel
<1>20. CASE Disconnect
  BY <1>20 DEF Disconnect, Goto, flags, address, thread, kernel
<1>21. CASE XEnter
  BY <1>21 DEF XEnter, Goto, address, thread, kernel
<1>22. CASE XClose
  BY <1>22 DEF XClose, Goto, CLOSE, flags, address, thread
<1>23. CASE XReset
  BY <1>23 DEF XReset, Goto, flags, address, locals, kernel
<1>24. CASE XJoin
  BY <1>24 DEF XJoin, flags, address, locals, kernel
<1>25. CASE XJoinThrows
  BY <1>25 DEF XJoinThrows, Goto, flags, address, thread, kernel
<1>26. CASE XClear
  BY <1>26 DEF XClear, Goto, address, thread, kernel
<1>27. CASE RunCheck
  BY <1>27 DEF RunCheck, Goto, flags, address, thread, locals, kernel
<1>28. CASE RunPrepare
  BY <1>28 DEF RunPrepare, Goto, flags, address, thread, kernel
<1>29. CASE SelectReady
  BY <1>29 DEF SelectReady, Goto, flags, address, thread, kernel
<1>30. CASE SelectError
  BY <1>30 DEF SelectError, Goto, flags, address, thread, kernel
<1>31. CASE SelectTimeout
  BY <1>31 DEF SelectTimeout, TimeoutThen, Goto, flags, address, kernel
<1>32. CASE RunReadable
  <2>1. is_connected' = is_connected \/ is_connected' = FALSE
    BY <1>32, Readable
  <2>2. UNCHANGED <<is_running, thread, reported>> /\ pc'["user"] = pc["user"]
    BY <1>32, Readable
  <2>3. Phase' = Phase
    BY <2>2 DEF thread
  <2>4. Phase # "stopped"
    BY <1>32, Readable
  <2> QED
    BY <2>1, <2>2, <2>3, <2>4
<1>33. CASE RunLost
  BY <1>33 DEF RunLost, Goto, flags, address, thread, locals, kernel
<1>34. CASE RunExcept
  BY <1>34 DEF RunExcept, Goto, FD_ISSET, flags, address, thread, kernel
<1>35. CASE PeerCloses
  BY <1>35 DEF PeerCloses, flags, address, thread, locals
<1>36. CASE FileOpen
  BY <1>36 DEF FileOpen, flags, address, thread, locals
<1>37. CASE FileClose
  BY <1>37 DEF FileClose, flags, address, thread, locals
<1>38. CASE UNCHANGED vars
  BY <1>38 DEF vars, flags, address, thread, locals, kernel
<1>39. QED
  BY <1>1, <1>2, <1>3, <1>4, <1>5, <1>6, <1>7, <1>8, <1>9, <1>10, <1>11,
     <1>12, <1>13, <1>14, <1>15, <1>16, <1>17, <1>18, <1>19, <1>20,
     <1>21, <1>22, <1>23, <1>24, <1>25, <1>26, <1>27, <1>28, <1>29,
     <1>30, <1>31, <1>32, <1>33, <1>34, <1>35, <1>36, <1>37, <1>38
  DEF Next, UserCall, UserStep, StopStep, RecvStep, DoConnect, Environment

-----------------------------------------------------------------------------

\* Every initial state of a fresh client satisfies the inductive invariant.
LEMMA InitIInv == Init => IInv
<1> SUFFICES ASSUME Init PROVE IInv
  OBVIOUS
<1> USE TcpAssumption DEF Init, Threads
<1>1. TypeOK
  <2>1. m_hosts \in Seq(Hosts)
    OBVIOUS
  <2>2. pc \in [Threads -> Labels] /\ pc["user"] = "idle" /\ pc["recv"] = "none"
    BY DEF Labels, UserLabels, RecvLabels
  <2>3. loc \in [Threads -> Fds \cup {NoFd}] /\ desc \in [Fds -> {"free", "file"} \cup Sockets]
    OBVIOUS
  <2> QED
    BY <2>1, <2>2, <2>3 DEF TypeOK, UserLabels, RecvLabels
<1>2. ThreadPhase /\ FlagPhase
  BY DEF ThreadPhase, FlagPhase, DialLabels
<1>3. Holdings /\ EmptyHanded
  BY DEF Holdings, EmptyHanded
<1>4. ConnectedHasSocket /\ NoSilentLoss /\ OneSocket /\ NumberForgotten
  BY DEF ConnectedHasSocket, NoSilentLoss, OneSocket, NumberForgotten, DialLabels, Sockets
<1> QED
  BY <1>1, <1>2, <1>3, <1>4 DEF IInv

\* Every reachable state of the client, on either platform and for any number of
\* descriptors, satisfies the inductive invariant.
THEOREM Invariance == Spec => []IInv
<1>1. IInv /\ [Next]_vars => IInv'
  BY TypeStep, ThreadPhaseStep, FlagPhaseStep, HoldingsStep, EmptyHandedStep,
     ConnectedStep, NewsStep, OneSocketStep, NumberForgottenStep DEF IInv
<1> QED
  BY InitIInv, <1>1, PTL DEF Spec

\* Every variable keeps the type its C++ declaration gives it and no thread
\* strays into the other's code.
THEOREM TypeCorrect == Spec => []TypeOK
<1>1. IInv => TypeOK
  BY DEF IInv
<1> QED
  BY Invariance, <1>1, PTL

\* connect never assigns over a joinable thread, and the disconnect inside a
\* failed send never throws.
THEOREM ThreadSafe == Spec => []ThreadOwnership
<1>1. IInv => ThreadOwnership
  BY DEF IInv, ThreadPhase, ThreadOwnership
<1> QED
  BY Invariance, <1>1, PTL

\* After disconnect no receive thread is left and the client does not claim to
\* be connected.
THEOREM StopsQuietly == Spec => []StoppedIsQuiet
<1>1. IInv => StoppedIsQuiet
  BY DEF IInv, ThreadPhase, FlagPhase, StoppedIsQuiet
<1> QED
  BY Invariance, <1>1, PTL

\* The two threads are never in do_connect together, which is what lets it
\* change fd without a lock.
THEOREM OneDialler == Spec => []DoConnectExclusive
<1>1. IInv => DoConnectExclusive
  BY DEF IInv, ThreadPhase, DoConnectExclusive, DialLabels
<1> QED
  BY Invariance, <1>1, PTL

\* do_connect never reads m_hosts[0] of an empty vector.
THEOREM DialsAnAddress == Spec => []DialHasAddress
<1>1. IInv => DialHasAddress
  BY DEF IInv, TypeOK, ThreadPhase, FlagPhase, DialHasAddress, DialLabels, Threads
<1> QED
  BY Invariance, <1>1, PTL

\* Outside disconnect, and until a double close has hit a foreign descriptor,
\* is_connected means that fd is a connected socket.
THEOREM ConnectedIsBacked == Spec => []ConnectedHasSocket
<1>1. IInv => ConnectedHasSocket
  BY DEF IInv
<1> QED
  BY Invariance, <1>1, PTL

\* A client whose user last heard on_connected is connected, or do_recv has just
\* cleared the flag and calls on_disconnect next.
THEOREM LossesReported == Spec => []NoSilentLoss
<1>1. IInv => NoSilentLoss
  BY DEF IInv
<1> QED
  BY Invariance, <1>1, PTL

\* A client whose receive thread never redialled has no socket left when
\* disconnect has returned.
THEOREM StopLeavesNothing == Spec => []StopClosesSockets
<1>1. IInv => StopClosesSockets
  BY DEF IInv, OneSocket, StopClosesSockets
<1> QED
  BY Invariance, <1>1, PTL

\* Outside disconnect no step overwrites fd while it names an open socket: only
\* the steps of do_connect write it, after the earlier descriptor was closed.
THEOREM RedialsLeakNothing == Spec => DialLeaksNothing
<1>1. ASSUME IInv, [Next]_vars,
             pc["user"] \notin StopLabels, fd \in Fds, fd' # fd
      PROVE  desc[fd] \notin Sockets
  <2> USE <1>1, TcpAssumption DEF IInv, EmptyHanded, Threads
  <2>1. ASSUME NEW t \in Threads, DcReset(t) PROVE desc[fd] \notin Sockets
    BY <2>1 DEF DcReset, Goto
  <2>2. ASSUME NEW t \in Threads, DcSocketFails(t) \/ DcStore(t) PROVE FALSE
    BY <2>2 DEF DcSocketFails, DcStore, Goto
  <2>3. CASE XReset
    BY <2>3 DEF XReset, Goto, StopLabels
  <2>4. ASSUME NEW t \in Threads,
               \/ DcEnter(t) \/ DcClose(t) \/ DcSocket(t) \/ DcSocketGone(t) \/ DcDial(t)
               \/ DcDialed(t) \/ DcAnnounce(t) \/ DcRefused(t) \/ DcFail(t)
        PROVE  FALSE
    BY <2>4 DEF DcEnter, DcClose, DcSocket, DcSocketGone, DcDial, DcDialed, DcAnnounce, DcRefused,
                DcFail
  <2>5. CASE UserCall
    BY <2>5 DEF UserCall, Connect, Send, Disconnect
  <2>6. CASE \/ \E k \in 1..MaxAddrs : Resolved(k)
             \/ Unresolved \/ Spawn \/ SendOk \/ SendFails
    BY <2>6 DEF Resolved, Unresolved, Spawn, SendOk, SendFails
  <2>7. CASE XEnter \/ XClose \/ XJoin \/ XJoinThrows \/ XClear
    BY <2>7 DEF XEnter, XClose, XJoin, XJoinThrows, XClear
  <2>8. CASE \/ RunCheck \/ RunPrepare \/ SelectReady \/ SelectError
             \/ SelectTimeout \/ RunReadable \/ RunLost \/ RunExcept
    BY <2>8 DEF RunCheck, RunPrepare, SelectReady, SelectError, SelectTimeout, TimeoutThen,
                RunReadable, RunLost, RunExcept
  <2>9. CASE Environment
    BY <2>9 DEF Environment, PeerCloses, FileOpen, FileClose
  <2>10. CASE UNCHANGED vars
    BY <2>10 DEF vars
  <2> QED
    BY <2>1, <2>2, <2>3, <2>4, <2>5, <2>6, <2>7, <2>8, <2>9, <2>10
    DEF Next, UserStep, StopStep, RecvStep, DoConnect
<1>2. IInv /\ [Next]_vars =>
        [ pc["user"] \notin StopLabels /\ fd \in Fds /\ fd' # fd
            => desc[fd] \notin Sockets ]_vars
  BY <1>1
<1> QED
  BY Invariance, <1>2, PTL DEF Spec, DialLeaksNothing

\* A foreign descriptor is closed only after fd's dial was refused, or by disconnect's
\* own close in a client that has redialled: until then a thread in do_connect
\* closes what fd names before it can stand for anything else.
THEOREM TheftsExplained == Spec => DoubleCloseHasCause
<1>1. ASSUME IInv, [Next]_vars, ~stolen, stolen', ~refused
      PROVE  redialled /\ pc["user"] = "x_close"
  <2> USE <1>1 DEF IInv, TypeOK, ThreadPhase, NumberForgotten, Threads, DialLabels
  <2>1. ASSUME NEW t \in Threads, DcClose(t) PROVE FALSE
    <3>1. PICK f \in {loc[t], fd} : CLOSE(f)
      BY <2>1 DEF DcClose
    <3>2. pc[t] = "dc_close" /\ f \in Fds /\ desc[f] = "file"
      BY <2>1, <3>1 DEF DcClose, Goto, CLOSE
    <3>3. loc[t] \in Fds /\ desc[loc[t]] # "file" /\ f = fd
      BY <3>1, <3>2
    <3>4. pc["recv"] = "dc_reset"
      BY <3>2, <3>3
    <3> QED
      BY <3>2, <3>4
  <2>2. ASSUME NEW t \in Threads, DcFail(t) PROVE FALSE
    <3>1. pc[t] = "dc_fail" /\ CLOSE(fd)
      BY <2>2 DEF DcFail, Goto
    <3>2. fd = NoFd
      BY <3>1
    <3> QED
      BY <3>1, <3>2, TcpAssumption DEF CLOSE
  <2>3. CASE XClose
    <3>1. PICK f \in {loc["user"], fd} : CLOSE(f)
      BY <2>3 DEF XClose
    <3>2. pc["user"] = "x_close" /\ f \in Fds /\ desc[f] = "file"
      BY <2>3, <3>1 DEF XClose, Goto, CLOSE
    <3> QED
      BY <3>2
  <2>4. ASSUME NEW t \in Threads,
               \/ DcEnter(t) \/ DcReset(t) \/ DcSocket(t) \/ DcSocketFails(t) \/ DcStore(t)
               \/ DcSocketGone(t) \/ DcDial(t) \/ DcDialed(t) \/ DcAnnounce(t) \/ DcRefused(t)
        PROVE  FALSE
    BY <2>4 DEF DcEnter, DcReset, DcSocket, DcSocketFails, DcStore, DcSocketGone, DcDial, DcDialed,
                DcAnnounce, DcRefused, kernel
  <2>5. CASE UserCall
    BY <2>5 DEF UserCall, Connect, Send, Disconnect, kernel
  <2>6. CASE \/ \E k \in 1..MaxAddrs : Resolved(k)
             \/ Unresolved \/ Spawn \/ SendOk \/ SendFails
    BY <2>6 DEF Resolved, Unresolved, Spawn, SendOk, SendFails, kernel
  <2>7. CASE XEnter \/ XReset \/ XJoin \/ XJoinThrows \/ XClear
    BY <2>7 DEF XEnter, XReset, XJoin, XJoinThrows, XClear, kernel
  <2>8. CASE \/ RunCheck \/ RunPrepare \/ SelectReady \/ SelectError
             \/ SelectTimeout \/ RunReadable \/ RunLost \/ RunExcept
    BY <2>8 DEF RunCheck, RunPrepare, SelectReady, SelectError, SelectTimeout, TimeoutThen,
                RunReadable, RunLost, RunExcept, kernel
  <2>9. CASE Environment
    BY <2>9 DEF Environment, PeerCloses, FileOpen, FileClose
  <2>10. CASE UNCHANGED vars
    BY <2>10 DEF vars, kernel
  <2> QED
    BY <2>1, <2>2, <2>3, <2>4, <2>5, <2>6, <2>7, <2>8, <2>9, <2>10
    DEF Next, UserStep, StopStep, RecvStep, DoConnect
<1>2. IInv /\ [Next]_vars =>
        [ ~stolen /\ stolen' => refused \/ (redialled /\ pc["user"] = "x_close") ]_vars
  BY <1>1
<1> QED
  BY Invariance, <1>2, PTL DEF Spec, DoubleCloseHasCause

\* A client that disconnect has told to stop does not begin another turn of run's
\* loop: only the test of is_running leads back to the head, and only Spawn and the
\* join move the thread outside a turn.
THEOREM StopsInOneTurn == Spec => LastTurn
<1> DEFINE from == pc["recv"]
           to   == pc'["recv"]
           Onwards == \E i, j \in DOMAIN TurnOrder :
                        i < j /\ TurnOrder[i] = from /\ TurnOrder[j] = to
<1>1. ASSUME IInv, [Next]_vars, ~is_running, from \notin {"none", "done"}, to # from
      PROVE  Onwards
  <2> USE DEF Threads
  <2>a. /\ pc \in [Threads -> Labels] /\ ~is_running
        /\ to # from /\ from \notin {"none", "done"}
    BY <1>1 DEF IInv, TypeOK
  <2>0. /\ TurnOrder[1] = "prep" /\ TurnOrder[2] = "select" /\ TurnOrder[3] = "dc_enter"
        /\ TurnOrder[4] = "dc_close" /\ TurnOrder[5] = "dc_reset" /\ TurnOrder[6] = "dc_socket"
        /\ TurnOrder[7] = "dc_store" /\ TurnOrder[8] = "dc_dial" /\ TurnOrder[9] = "dc_wait"
        /\ TurnOrder[10] = "dc_up" /\ TurnOrder[11] = "dc_fail" /\ TurnOrder[12] = "isset"
        /\ TurnOrder[13] = "lost" /\ TurnOrder[14] = "except" /\ TurnOrder[15] = "loop"
        /\ TurnOrder[16] = "done"
    BY DEF TurnOrder
  <2>b. DOMAIN TurnOrder = 1..16
    BY DEF TurnOrder
  <2>1. CASE RunCheck
    <3>1. from = "loop" /\ to = "done"
      BY <2>1, <2>a DEF RunCheck, Goto
    <3>2. from = TurnOrder[15] /\ to = TurnOrder[16]
      BY <2>0, <3>1
    <3> QED
      BY <2>b, <3>2
  <2>2. CASE RunPrepare
    <3>1. from = "prep" /\ to = "select"
      BY <2>2, <2>a DEF RunPrepare, Goto
    <3>2. from = TurnOrder[1] /\ to = TurnOrder[2]
      BY <2>0, <3>1
    <3> QED
      BY <2>b, <3>2
  <2>3. CASE SelectReady
    <3>1. from = "select" /\ to = "isset"
      BY <2>3, <2>a DEF SelectReady, Goto
    <3>2. from = TurnOrder[2] /\ to = TurnOrder[12]
      BY <2>0, <3>1
    <3> QED
      BY <2>b, <3>2
  <2>4. CASE SelectError \/ SelectTimeout
    <3>1. from = "select" /\ (to = "loop" \/ to = "dc_enter")
      BY <2>4, <2>a DEF SelectError, SelectTimeout, TimeoutThen, Goto
    <3>2. CASE from = TurnOrder[2] /\ to = TurnOrder[15]
      BY <2>b, <3>2
    <3>3. CASE from = TurnOrder[2] /\ to = TurnOrder[3]
      BY <2>b, <3>3
    <3> QED
      BY <2>0, <3>1, <3>2, <3>3
  <2>5. CASE RunReadable
    <3>1. from = "isset" /\ (to = "except" \/ to = "lost")
      BY <2>5, <2>a, <1>1, Readable DEF IInv
    <3>2. CASE from = TurnOrder[12] /\ to = TurnOrder[14]
      BY <2>b, <3>2
    <3>3. CASE from = TurnOrder[12] /\ to = TurnOrder[13]
      BY <2>b, <3>3
    <3> QED
      BY <2>0, <3>1, <3>2, <3>3
  <2>6. CASE RunLost
    <3>1. from = "lost" /\ to = "except"
      BY <2>6, <2>a DEF RunLost, Goto
    <3>2. from = TurnOrder[13] /\ to = TurnOrder[14]
      BY <2>0, <3>1
    <3> QED
      BY <2>b, <3>2
  <2>7. CASE RunExcept
    <3>1. from = "except" /\ to = "loop"
      BY <2>7, <2>a DEF RunExcept, Goto
    <3>2. from = TurnOrder[14] /\ to = TurnOrder[15]
      BY <2>0, <3>1
    <3> QED
      BY <2>b, <3>2
  <2>8. CASE DcEnter("recv")
    <3>1. from = "dc_enter" /\ (to = "dc_close" \/ to = "dc_socket")
      BY <2>8, <2>a DEF DcEnter, Goto
    <3>2. CASE from = TurnOrder[3] /\ to = TurnOrder[4]
      BY <2>b, <3>2
    <3>3. CASE from = TurnOrder[3] /\ to = TurnOrder[6]
      BY <2>b, <3>3
    <3> QED
      BY <2>0, <3>1, <3>2, <3>3
  <2>9. CASE DcClose("recv")
    <3>1. from = "dc_close" /\ to = "dc_reset"
      BY <2>9, <2>a DEF DcClose, Goto
    <3>2. from = TurnOrder[4] /\ to = TurnOrder[5]
      BY <2>0, <3>1
    <3> QED
      BY <2>b, <3>2
  <2>10. CASE DcReset("recv")
    <3>1. from = "dc_reset" /\ to = "dc_socket"
      BY <2>10, <2>a DEF DcReset, Goto
    <3>2. from = TurnOrder[5] /\ to = TurnOrder[6]
      BY <2>0, <3>1
    <3> QED
      BY <2>b, <3>2
  <2>11. CASE DcSocket("recv") \/ DcSocketFails("recv")
    <3>1. from = "dc_socket" /\ (to = "dc_store" \/ to = "loop")
      BY <2>11, <2>a DEF DcSocket, DcSocketFails, Goto, Return
    <3>2. CASE from = TurnOrder[6] /\ to = TurnOrder[7]
      BY <2>b, <3>2
    <3>3. CASE from = TurnOrder[6] /\ to = TurnOrder[15]
      BY <2>b, <3>3
    <3> QED
      BY <2>0, <3>1, <3>2, <3>3
  <2>12. CASE DcStore("recv")
    <3>1. from = "dc_store" /\ to = "dc_dial"
      BY <2>12, <2>a DEF DcStore, Goto
    <3>2. from = TurnOrder[7] /\ to = TurnOrder[8]
      BY <2>0, <3>1
    <3> QED
      BY <2>b, <3>2
  <2>13. CASE DcSocketGone("recv") \/ DcDial("recv")
    <3>1. from = "dc_dial" /\ (to = "loop" \/ to = "dc_wait")
      BY <2>13, <2>a DEF DcSocketGone, DcDial, Goto, Return
    <3>2. CASE from = TurnOrder[8] /\ to = TurnOrder[15]
      BY <2>b, <3>2
    <3>3. CASE from = TurnOrder[8] /\ to = TurnOrder[9]
      BY <2>b, <3>3
    <3> QED
      BY <2>0, <3>1, <3>2, <3>3
  <2>14. CASE DcDialed("recv") \/ DcRefused("recv")
    <3>1. from = "dc_wait" /\ (to = "dc_up" \/ to = "dc_fail")
      BY <2>14, <2>a DEF DcDialed, DcRefused, Goto
    <3>2. CASE from = TurnOrder[9] /\ to = TurnOrder[10]
      BY <2>b, <3>2
    <3>3. CASE from = TurnOrder[9] /\ to = TurnOrder[11]
      BY <2>b, <3>3
    <3> QED
      BY <2>0, <3>1, <3>2, <3>3
  <2>15. CASE DcAnnounce("recv") \/ DcFail("recv")
    <3>1. (from = "dc_up" \/ from = "dc_fail") /\ to = "loop"
      BY <2>15, <2>a DEF DcAnnounce, DcFail, Goto, Return
    <3>2. CASE from = TurnOrder[10] /\ to = TurnOrder[15]
      BY <2>b, <3>2
    <3>3. CASE from = TurnOrder[11] /\ to = TurnOrder[15]
      BY <2>b, <3>3
    <3> QED
      BY <2>0, <3>1, <3>2, <3>3
  <2>16. CASE DoConnect("user")
    <3>1. to = from
      BY <2>16, <2>a DEF DoConnect, DcEnter, DcClose, DcReset, DcSocket, DcSocketFails, DcStore,
                   DcSocketGone, DcDial, DcDialed, DcAnnounce, DcRefused, DcFail, Goto
    <3> QED
      BY <3>1, <2>a
  <2>17. CASE Spawn
    <3>1. ~joinable /\ from # "none"
      BY <2>17, <2>a, <1>1 DEF Spawn, IInv, ThreadPhase
    <3> QED
      BY <3>1, <1>1 DEF IInv, ThreadPhase
  <2>18. CASE XJoin
    BY <2>18, <2>a DEF XJoin
  <2>19. CASE \/ UserCall
              \/ \E k \in 1..MaxAddrs : Resolved(k)
              \/ Unresolved \/ SendOk \/ SendFails
              \/ XEnter \/ XClose \/ XReset \/ XJoinThrows \/ XClear
    <3>1. to = from
      BY <2>19, <2>a DEF UserCall, Connect, Send, Disconnect, Resolved, Unresolved, SendOk, SendFails,
                   XEnter, XClose, XReset, XJoinThrows, XClear, Goto
    <3> QED
      BY <3>1, <2>a
  <2>20. CASE Environment \/ UNCHANGED vars
    BY <2>20, <2>a DEF Environment, PeerCloses, FileOpen, FileClose, vars
  <2> QED
    BY <1>1, <2>1, <2>2, <2>3, <2>4, <2>5, <2>6, <2>7, <2>8, <2>9, <2>10, <2>11, <2>12, <2>13, <2>14,
       <2>15, <2>16, <2>17, <2>18, <2>19, <2>20
    DEF Next, UserStep, StopStep, RecvStep, DoConnect
<1>2. IInv /\ [Next]_vars =>
        [~is_running /\ from \notin {"none", "done"} /\ to # from => Onwards]_vars
  BY <1>1
<1> QED
  BY Invariance, <1>2, PTL DEF Spec, LastTurn

\* Whatever the two threads do to each other, the user sees a Connection.
THEOREM KeepsPromise == Spec => ConnectionSpec
<1>1. Init => Promise!Init
  BY DEF Init, Promise!Init, Phase, Threads
<1>2. IInv /\ [Next]_vars => PromiseNext
  BY PromiseStep
<1> QED
  BY Invariance, <1>1, <1>2, PTL DEF Spec, ConnectionSpec, Promise!Spec, PromiseNext
=============================================================================
