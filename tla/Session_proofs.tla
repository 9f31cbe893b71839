-------------------------- MODULE Session_proofs --------------------------
(***************************************************************************)
(* The frames of a session, proved for all messages, any number of turns   *)
(* and of connections, and every moment at which the connection is lost,   *)
(* redialled or broken.                                                    *)
(***************************************************************************)
EXTENDS Session, GMsgHead_proofs

\* A head made of a length that fits is packed, and read back as it was.
LEMMA LengthHead ==
  ASSUME NEW x \in Word, NEW h, h = Filled([length |-> x])
  PROVE  /\ Packable(h) => x \subseteq 0..23
         /\ x \subseteq 0..23 => pack(h) \in Wire /\ unpack(pack(h)) = h
<1> DEFINE t == [length |-> x]
<1>1. DOMAIN t = {"length"} /\ t.length = x
  OBVIOUS
<1>2. "length" \in Fields
  BY DEF Fields, MsgHead
<1>3. h \in Head
  <2>1. DOMAIN t \subseteq Fields /\ \A f \in DOMAIN t : t[f] \in Word
    BY <1>1, <1>2
  <2> QED
    BY <2>1, FilledHead
<1>4. h.length = x /\ \A f \in Fields \ {"length"} : h[f] = {}
  BY <1>1, <1>2 DEF Filled
<1>5. Packable(h) => x \subseteq 0..23
  BY <1>4 DEF Packable
<1>6. ASSUME x \subseteq 0..23 PROVE pack(h) \in Wire /\ unpack(pack(h)) = h
  <2>1. InWidth(h)
    <3>1. MsgHead["length"] - 1 = 23
      BY DEF MsgHead
    <3> QED
      BY <1>4, <1>6, <3>1 DEF InWidth
  <2>2. FlagByte(h) \subseteq 0..7
    BY <1>3, <2>1, InWidthPackable DEF Packable
  <2>3. \A k \in 0..2 : Byte(h.length, k) \subseteq 0..7
    BY DEF Byte
  <2>4. pack(h) \in Wire
    BY <2>2, <2>3 DEF pack, Wire
  <2> QED
    BY <1>3, <2>1, <2>4, Inverse
<1> QED
  BY <1>5, <1>6

\* What a turn hands to ::send is a frame that reads back.
LEMMA HeadReads ==
  ASSUME IInv, pc \in {"test", "send", "call"}
  PROVE  head_str \in Wire /\ unpack(head_str) = Filled([length |-> Size[bytes]])
<1>1. Size[bytes] \in Word
  BY SessionAssumption DEF IInv, TypeOK
<1> QED
  BY <1>1, LengthHead DEF IInv, HeadFits

-----------------------------------------------------------------------------

\* Whichever part of a frame ::send accepts, it is the turn's first, on the latest
\* connection.
LEMMA AcceptStep ==
  ASSUME IInv, NEW whole \in BOOLEAN, Goto("call", "pause"), Accept(whole),
         UNCHANGED <<link, script>>
  PROVE  IInv'
<1> USE DEF Goto, link, script
<1> DEFINE f == [conn |-> conn, turn |-> turn, head |-> head_str, body |-> bytes,
                 whole |-> whole]
<1>1. /\ conn \in 1..MaxDials /\ turn \in 1..MaxTurns
      /\ MaxDials \in Nat /\ MaxTurns \in Nat
  BY SessionAssumption DEF IInv, TypeOK, ClientPhase, Turn
<1>2. f \in Frames
  BY <1>1, HeadReads DEF Frames, IInv, TypeOK
<1>3. /\ f.conn = conn /\ f.turn = turn /\ f.whole = whole
      /\ f.head = head_str /\ f.body = bytes
  OBVIOUS
<1> HIDE DEF f
<1>4. sent' = sent \cup {f}
  BY DEF Accept, f
<1>5. TypeOK'
  BY <1>1, <1>2, <1>4 DEF IInv, TypeOK, Labels
<1>6. ClientPhase' /\ HeadFits'
  BY DEF IInv, ClientPhase, HeadFits, Turn
<1>7. \A g \in sent : g.turn < turn /\ g.conn <= conn /\ g.turn \in Nat /\ g.conn \in Nat
  BY SessionAssumption DEF IInv, TypeOK, Frames, Past
<1>8. Past'
  BY <1>1, <1>3, <1>4, <1>7 DEF Past
<1>9. Framed'
  <2>1. unpack(f.head) = Filled([length |-> Size[f.body]])
    BY <1>3, HeadReads
  <2> QED
    BY <1>4, <2>1 DEF IInv, Framed
<1>10. InOrder'
  BY <1>1, <1>3, <1>4, <1>7 DEF IInv, InOrder
<1> QED
  BY <1>5, <1>6, <1>8, <1>9, <1>10 DEF IInv

\* A step that sends nothing preserves what is said of the frames already sent.
LEMMA NothingSent ==
  ASSUME Framed, InOrder, UNCHANGED sent
  PROVE  Framed' /\ InOrder'
  BY DEF Framed, InOrder

\* The steps of client.lua and the beginning of a turn.
LEMMA ScriptSteps ==
  ASSUME IInv, NoClient \/ ClientConnects \/ ConnectReturns \/ BeginTurn
  PROVE  IInv'
<1> USE SessionAssumption, NothingSent
    DEF IInv, TypeOK, ClientPhase, HeadFits, Past, Labels, Turn, Goto, link, script
<1>1. CASE NoClient
  BY <1>1 DEF NoClient
<1>2. CASE ClientConnects
  BY <1>2 DEF ClientConnects, Conn!Start
<1>3. CASE ConnectReturns
  BY <1>3 DEF ConnectReturns
<1>4. CASE BeginTurn
  BY <1>4 DEF BeginTurn, Frames
<1> QED
  BY <1>1, <1>2, <1>3, <1>4

\* The steps of a turn that send nothing.
LEMMA QuietSteps ==
  ASSUME IInv, Build \/ PackHead \/ IsConnected \/ Send
  PROVE  IInv'
<1> USE SessionAssumption, NothingSent
    DEF IInv, TypeOK, ClientPhase, HeadFits, Past, Labels, Turn, Goto, link, script
<1>1. CASE Build
  BY <1>1 DEF Build
<1>2. CASE PackHead
  <2>1. PICK h \in {Filled(LengthTable)} :
          IF Packable(h) THEN head_str' = pack(h) /\ pc' = "test"
                         ELSE pc' = "dead" /\ UNCHANGED head_str
    BY <1>2 DEF PackHead
  <2>2. Size[bytes] \in Word /\ h = Filled([length |-> Size[bytes]])
    BY DEF LengthTable
  <2>3. CASE Packable(h)
    <3>1. Size[bytes] \subseteq 0..23 /\ pack(h) \in Wire
      BY <2>2, <2>3, LengthHead
    <3> QED
      BY <1>2, <2>1, <2>2, <2>3, <3>1 DEF PackHead
  <2>4. CASE ~Packable(h)
    BY <1>2, <2>1, <2>4 DEF PackHead
  <2> QED
    BY <2>3, <2>4
<1>3. CASE IsConnected
  BY <1>3 DEF IsConnected
<1>4. CASE Send
  BY <1>4 DEF Send
<1> QED
  BY <1>1, <1>2, <1>3, <1>4

\* A failed send and the disconnect it makes.
LEMMA FailureSteps ==
  ASSUME IInv, SendFails \/ SendKills \/ Disconnect \/ DisconnectHangs \/ Join
  PROVE  IInv'
<1> USE SessionAssumption, NothingSent
    DEF IInv, TypeOK, ClientPhase, HeadFits, Past, Labels, Turn, Goto, link, script
<1>1. CASE SendFails
  BY <1>1 DEF SendFails, Conn!Alarm
<1>2. CASE SendKills
  BY <1>2 DEF SendKills
<1>3. CASE Disconnect
  BY <1>3 DEF Disconnect, Conn!Stop
<1>4. CASE DisconnectHangs
  BY <1>4 DEF DisconnectHangs
<1>5. CASE Join
  BY <1>5 DEF Join, Conn!Stopped
<1> QED
  BY <1>1, <1>2, <1>3, <1>4, <1>5

\* The receive thread's steps, which may fall between any two of the user's.
LEMMA ConnectionSteps ==
  ASSUME IInv, Dialled \/ Announced \/ Lost \/ Alarm
  PROVE  IInv'
<1> USE SessionAssumption, NothingSent
    DEF IInv, TypeOK, ClientPhase, HeadFits, Past, Labels, Turn, Goto, script
<1>1. CASE Dialled
  BY <1>1 DEF Dialled, Conn!Dialled, Frames
<1>2. CASE Announced
  BY <1>2 DEF Announced, Conn!Announced
<1>3. CASE Lost
  BY <1>3 DEF Lost, Conn!Lost
<1>4. CASE Alarm
  BY <1>4 DEF Alarm, Conn!Alarm
<1> QED
  BY <1>1, <1>2, <1>3, <1>4

\* Every step of a session preserves the inductive invariant.
LEMMA Inductive == IInv /\ [Next]_vars => IInv'
<1> SUFFICES ASSUME IInv, [Next]_vars PROVE IInv'
  OBVIOUS
<1>1. CASE SendsAll
  BY <1>1, AcceptStep DEF SendsAll
<1>2. CASE SendsPart
  BY <1>2, AcceptStep DEF SendsPart
<1>3. CASE UNCHANGED vars
  BY <1>3 DEF IInv, TypeOK, ClientPhase, HeadFits, Past, Framed, InOrder, vars, link, script
<1> QED
  BY <1>1, <1>2, <1>3, ScriptSteps, QuietSteps, FailureSteps, ConnectionSteps
  DEF Next, TurnStep

\* Before client.lua has run nothing has been sent.
LEMMA InitIInv == Init => IInv
<1> SUFFICES ASSUME Init PROVE IInv
  OBVIOUS
<1> USE SessionAssumption DEF Init, Conn!Init
<1>1. TypeOK
  <2>1. bytes \in Bodies /\ head_str \in Wire \cup {NoHead} /\ pc \in Labels
    BY DEF Labels
  <2>2. turn \in 0..MaxTurns /\ conn \in 0..MaxDials
    OBVIOUS
  <2>3. sent \in SUBSET Frames
    OBVIOUS
  <2> QED
    BY <2>1, <2>2, <2>3 DEF TypeOK
<1>2. ClientPhase
  BY DEF ClientPhase, Turn
<1>3. HeadFits /\ Past /\ Framed /\ InOrder
  BY DEF HeadFits, Past, Framed, InOrder
<1> QED
  BY <1>1, <1>2, <1>3 DEF IInv

\* The inductive invariant holds in every reachable state of a session.
THEOREM Invariance == Spec => []IInv
  BY InitIInv, Inductive, PTL DEF Spec

\* Every frame handed to ::send carries a head that announces its body.
THEOREM FramesReadable == Spec => []Framed
<1>1. IInv => Framed
  BY DEF IInv
<1> QED
  BY Invariance, <1>1, PTL

\* A turn sends at most one frame and frames are not overtaken.
THEOREM FramesInOrder == Spec => []InOrder
<1>1. IInv => InOrder
  BY DEF IInv
<1> QED
  BY Invariance, <1>1, PTL

\* A client stopped by a failed send is never connected again.
THEOREM NoSecondLife == Spec => StopIsFinal
<1>1. IInv /\ [Next]_vars =>
        [ phase = "stopped" /\ pc # "client" => UNCHANGED <<phase, up, sent>> ]_vars
  <2> SUFFICES ASSUME IInv, Next, phase = "stopped", pc # "client"
               PROVE  UNCHANGED <<phase, up, sent>>
    OBVIOUS
  <2> USE DEF IInv, ClientPhase, TypeOK, Goto, link, script
  <2>1. CASE NoClient \/ ClientConnects \/ ConnectReturns \/ BeginTurn
    BY <2>1 DEF NoClient, ClientConnects, ConnectReturns, BeginTurn
  <2>2. CASE Build \/ PackHead \/ IsConnected \/ Send
    BY <2>2 DEF Build, PackHead, IsConnected, Send
  <2>3. CASE SendsAll \/ SendsPart
    BY <2>3 DEF SendsAll, SendsPart
  <2>4. CASE SendFails \/ SendKills \/ Disconnect \/ DisconnectHangs \/ Join
    BY <2>4 DEF SendFails, SendKills, Disconnect, DisconnectHangs, Join,
                Conn!Alarm, Conn!Stop, Conn!Stopped
  <2>5. CASE Dialled \/ Announced \/ Lost \/ Alarm
    BY <2>5 DEF Dialled, Announced, Lost, Alarm, Conn!Dialled, Conn!Announced, Conn!Lost,
                Conn!Alarm
  <2> QED
    BY <2>1, <2>2, <2>3, <2>4, <2>5 DEF Next, TurnStep
<1> QED
  BY Invariance, <1>1, PTL DEF Spec, StopIsFinal
=============================================================================
