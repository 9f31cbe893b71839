-------------------------- MODULE WSClient_proofs ---------------------------
(***************************************************************************)
(* Proofs about WSClient: what send's test guarantees and what it takes.   *)
(***************************************************************************)
EXTENDS WSClient, TLAPS

\* The members of a fresh client.
LEMMA InitIInv == Init => IInv
BY DEF Init, IInv, TypeOK, SendsAfterUpgrade, Pointers, HubLabels

\* A step of the user thread: send's two reads and its call.
LEMMA UserKeepsIInv == ASSUME IInv, UserStep PROVE IInv'
<1> USE DEF IInv, TypeOK, SendsAfterUpgrade, Pointers, HubLabels, members, thread
<1>1. CASE Connect BY <1>1 DEF Connect, user
<1>2. CASE ConnectAgain BY <1>2 DEF ConnectAgain
<1>3. CASE SendLoads BY <1>3 DEF SendLoads
<1>4. CASE SendTests BY <1>4 DEF SendTests
<1>5. CASE SendReturns BY <1>5 DEF SendReturns
<1> QED BY <1>1, <1>2, <1>3, <1>4, <1>5 DEF UserStep

\* A step of the hub's thread: the upgrade comes before the handler's stores, the
\* stores only ever replace what ws and is_connected were by more.
LEMMA HubKeepsIInv == ASSUME IInv, HubStep PROVE IInv'
<1> USE DEF IInv, TypeOK, SendsAfterUpgrade, Pointers, HubLabels, user
<1>1. CASE HubConnect BY <1>1 DEF HubConnect, members
<1>2. CASE Upgrade BY <1>2 DEF Upgrade, members
<1>3. CASE HttpEnds BY <1>3 DEF HttpEnds, members
<1>4. CASE StoreWs BY <1>4 DEF StoreWs
<1>5. CASE StoreConnected BY <1>5 DEF StoreConnected
<1>6. CASE HandlerReturns BY <1>6 DEF HandlerReturns, members
<1>7. CASE HubSends BY <1>7 DEF HubSends, members
<1>8. CASE HubSent BY <1>8 DEF HubSent, members
<1>9. CASE OnEnd BY <1>9 DEF OnEnd, members
<1>10. CASE LoopEnds BY <1>10 DEF LoopEnds, members
<1> QED BY <1>1, <1>2, <1>3, <1>4, <1>5, <1>6, <1>7, <1>8, <1>9, <1>10 DEF HubStep

\* The inductive invariant of WSClient holds in every reachable state.
THEOREM Invariance == Spec => []IInv
<1>1. Init => IInv BY InitIInv
<1>2. IInv /\ [Next]_vars => IInv'
  <2> SUFFICES ASSUME IInv, [Next]_vars PROVE IInv'
    OBVIOUS
  <2>1. CASE UserStep BY <2>1, UserKeepsIInv
  <2>2. CASE HubStep BY <2>2, HubKeepsIInv
  <2>3. CASE UNCHANGED vars
    BY <2>3 DEF vars, members, user, thread, IInv, TypeOK, SendsAfterUpgrade
  <2> QED BY <2>1, <2>2, <2>3 DEF Next
<1> QED BY <1>1, <1>2, PTL DEF Spec

\* send never reaches ws->send before the server has accepted the upgrade, nor
\* with a null pointer (wsclient.hpp:25-27).
THEOREM SendsGuarded == Spec => []SendsAfterUpgrade
<1>1. IInv => SendsAfterUpgrade BY DEF IInv
<1> QED BY <1>1, Invariance, PTL
=============================================================================
