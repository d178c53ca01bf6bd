------------------------ MODULE DeviceConnectionsProofs ------------------------
(***************************************************************************)
(* Proofs about DeviceConnections, for any number of connections and       *)
(* instances.                                                              *)
(***************************************************************************)
EXTENDS DeviceConnections, TLAPS

\* What the steps preserve.
Inductive == TypeOK /\ Accounted /\ Placed

USE DEF Phases, Joined, Standings, Withdrawn, AtRest, Goto, AboutToClose

\* A device has no connection in the beginning.
LEMMA Initially == Init => Inductive
<1> SUFFICES ASSUME Init PROVE Inductive
  OBVIOUS
<1> USE ConstantsAssumption DEF Init
<1>1. TypeOK
  <2>1. row \in [name: Names, standing: Standings] /\ held \in [Conns -> Names]
    OBVIOUS
  <2>2. revoke \in {AtRest}
    OBVIOUS
  <2>3. at \in [Conns -> Instances \cup {NoInstance}]
    OBVIOUS
  <2> QED
    BY <2>1, <2>2, <2>3 DEF TypeOK
<1>2. Accounted /\ Placed
  BY DEF Accounted, Placed
<1> QED
  BY <1>1, <1>2 DEF Inductive

\* The steps of a connection keep the hub, the connections it has replaced and the
\* closed ones in agreement.
LEMMA ConnectionStep ==
    ASSUME Inductive, NEW c \in Conns, Open(c) \/ Serve(c) \/ End(c)
    PROVE  Inductive'
<1> USE ConstantsAssumption DEF Inductive, users, presence
<1>1. CASE UpdateFromHandshake(c)
  BY <1>1 DEF UpdateFromHandshake, UpdateRow, TypeOK, Accounted, Placed
<1>2. CASE Register(c)
  BY <1>2 DEF Register, TypeOK, Accounted, Placed
<1>3. CASE CloseEvicted(c)
  <2> USE <1>3 DEF CloseEvicted
  <2>1. TypeOK'
    BY DEF TypeOK
  <2>2. Accounted'
    <3>1. ASSUME NEW d \in Conns, phase'[d] \in Joined, hub'[at'[d]] # d
          PROVE  closed'[d] \/ AboutToClose(d)'
      <4>1. CASE d = evicts[c]
        BY <4>1 DEF TypeOK
      <4>2. CASE d # evicts[c] /\ closed[d]
        BY <4>2 DEF TypeOK
      <4>3. CASE d # evicts[c] /\ ~closed[d]
        <5>1. CASE \E i \in Instances : drained[i] = d
          BY <5>1
        <5>2. ASSUME NEW e \in Conns, evicts[e] = d PROVE evicts'[e] = d
          BY <4>3, <5>2 DEF TypeOK
        <5> QED
          BY <3>1, <4>3, <5>1, <5>2 DEF TypeOK, Accounted
      <4> QED
        BY <4>1, <4>2, <4>3
    <3>2. ASSUME NEW d \in Conns, evicts'[d] # NoConn PROVE phase'[d] = "registered"
      BY <3>2 DEF TypeOK, Accounted
    <3>3. ASSUME NEW i \in Instances, hub'[i] # NoConn
          PROVE  phase'[hub'[i]] \in Joined /\ at'[hub'[i]] = i
      BY <3>3 DEF TypeOK, Accounted
    <3> QED
      BY <3>1, <3>2, <3>3 DEF Accounted
  <2>3. Placed'
    BY DEF TypeOK, Placed
  <2> QED
    BY <2>1, <2>2, <2>3
<1>4. CASE MarkOnline(c)
  <2> USE <1>4 DEF MarkOnline
  <2>1. TypeOK'
    BY DEF TypeOK, Online
  <2>2. Accounted' /\ Placed'
    BY DEF TypeOK, Accounted, Placed
  <2> QED
    BY <2>1, <2>2
<1>5. CASE Touch(c)
  BY <1>5 DEF Touch, Online, TypeOK, Accounted, Placed
<1>6. CASE Leave(c)
  BY <1>6 DEF Leave, TypeOK, Accounted, Placed
<1>7. CASE CloseSlow(c)
  BY <1>7 DEF CloseSlow, TypeOK, Accounted, Placed
<1>8. CASE Unregister(c)
  BY <1>8 DEF Unregister, TypeOK, Accounted, Placed
<1>9. CASE OnDisconnect(c)
  <2> USE <1>9 DEF OnDisconnect
  <2>1. TypeOK'
    BY DEF TypeOK, Offline
  <2>2. Accounted'
    BY DEF TypeOK, Accounted
  <2>3. Placed'
    BY DEF TypeOK, Accounted, Placed
  <2> QED
    BY <2>1, <2>2, <2>3
<1> QED
  BY <1>1, <1>2, <1>3, <1>4, <1>5, <1>6, <1>7, <1>8, <1>9 DEF Open, Serve, End

\* An instance that shuts down or dies leaves no entry of its own behind.
LEMMA InstanceStep ==
    ASSUME Inductive, NEW i \in Instances, CloseAll(i) \/ CloseDrained(i) \/ Crash(i)
    PROVE  Inductive'
<1> USE ConstantsAssumption DEF Inductive, users, presence
<1>1. CASE CloseAll(i)
  BY <1>1 DEF CloseAll, TypeOK, Accounted, Placed
<1>2. CASE CloseDrained(i)
  <2> USE <1>2 DEF CloseDrained
  <2>1. TypeOK'
    BY DEF TypeOK
  <2>2. Accounted'
    BY DEF TypeOK, Accounted
  <2>3. Placed'
    BY DEF TypeOK, Placed
  <2> QED
    BY <2>1, <2>2, <2>3
<1>3. CASE Crash(i)
  <2> USE <1>3 DEF Crash
  <2>1. TypeOK'
    BY DEF TypeOK
  <2>2. Accounted'
    BY DEF TypeOK, Accounted, Placed
  <2>3. Placed'
    <3>1. ASSUME NEW c \in Conns
          PROVE  /\ (phase'[c] = "idle") = (at'[c] = NoInstance)
                 /\ closed'[c] => phase'[c] \in Joined \cup {"left"}
      BY DEF TypeOK, Placed
    <3>2. ASSUME NEW c \in Conns, evicts'[c] # NoConn
          PROVE  /\ phase'[evicts'[c]] \in Joined \cup {"left"}
                 /\ at'[evicts'[c]] = at'[c]
      BY <3>2 DEF TypeOK, Placed
    <3>3. ASSUME NEW j \in Instances, drained'[j] # NoConn
          PROVE  /\ phase'[drained'[j]] \in Joined \cup {"left"}
                 /\ at'[drained'[j]] = j
      BY <3>3 DEF TypeOK, Placed
    <3> QED
      BY <3>1, <3>2, <3>3 DEF Placed
  <2> QED
    BY <2>1, <2>2, <2>3
<1> QED
  BY <1>1, <1>2, <1>3

\* Nothing that is done to the presence keys alone matters to the connections.
LEMMA PresenceStep ==
    ASSUME Inductive, UNCHANGED <<row, connVars, revoke>>,
           alive' \in BOOLEAN, listed' \in BOOLEAN, listing' \in {"rest", "stale"}
    PROVE  Inductive'
BY DEF Inductive, TypeOK, Accounted, Placed, connVars

\* The other steps touch the row, the presence keys and the goroutines of users; what
\* they close was in the hub.
LEMMA OtherStep ==
    ASSUME Inductive,
           \/ \E c \in Conns, i \in Instances : AuthenticateDevice(c, i)
           \/ Listing
           \/ \E n \in Names : Rename(n)
           \/ \E i \in Instances, standing \in Withdrawn : RevokeRow(i, standing)
           \/ Revoking
           \/ TokenExpires
           \/ Expire
    PROVE  Inductive'
<1> USE ConstantsAssumption
    DEF Inductive, TypeOK, Accounted, Placed, users, presence, connVars
<1>1. ASSUME NEW c \in Conns, NEW i \in Instances, AuthenticateDevice(c, i)
      PROVE  Inductive'
  BY <1>1 DEF AuthenticateDevice
<1>2. CASE Listing
  BY <1>2, PresenceStep DEF Listing, FindStaleMember, PruneMember
<1>3. ASSUME NEW n \in Names, Rename(n) PROVE Inductive'
  BY <1>3 DEF Rename, UpdateRow
<1>4. ASSUME NEW i \in Instances, NEW standing \in Withdrawn, RevokeRow(i, standing)
      PROVE  Inductive'
  BY <1>4 DEF RevokeRow
<1>5. CASE CloseDevice
  BY <1>5 DEF CloseDevice
<1>6. CASE RevokeOffline
  <2>1. TypeOK'
    BY <1>6 DEF RevokeOffline, Offline
  <2>2. Accounted' /\ Placed'
    BY <1>6 DEF RevokeOffline
  <2> QED
    BY <2>1, <2>2
<1>7. CASE TokenExpires
  BY <1>7 DEF TokenExpires
<1>8. CASE Expire
  BY <1>8, PresenceStep DEF Expire
<1> HIDE DEF Inductive, TypeOK, Accounted, Placed, users, presence, connVars
<1> QED
  BY <1>1, <1>2, <1>3, <1>4, <1>5, <1>6, <1>7, <1>8 DEF Revoking

\* No step breaks the agreement.
LEMMA Step == Inductive /\ [Next]_vars => Inductive'
<1>1. ASSUME Inductive, UNCHANGED vars PROVE Inductive'
  BY <1>1 DEF vars, Inductive, TypeOK, Accounted, Placed
<1> QED
  BY <1>1, ConnectionStep, InstanceStep, OtherStep DEF Next

\* Of two open connections on one instance the hub knows one at most, and what it does
\* not know is closed or about to be.
LEMMA OneIsKnown == Inductive => OneServing
BY DEF Inductive, TypeOK, Accounted, OneServing

\* The invariant of the device_connections run, whatever connections come and go.
THEOREM ConnectionsAreAccountedFor == Spec => []IInv
<1>1. Spec => []Inductive
  BY Initially, Step, PTL DEF Spec
<1>2. Inductive => IInv
  BY OneIsKnown DEF Inductive, IInv
<1> QED
  BY <1>1, <1>2, PTL

\* A new connection of a device replaces the last one: the hub of an instance leaves no
\* two open, apart from the moment until Close.
THEOREM OneConnectionServes == Spec => []OneServing
<1>1. IInv => OneServing
  BY DEF IInv
<1> QED
  BY <1>1, ConnectionsAreAccountedFor, PTL

\* Revoking is final: the UPDATE of a handshake, a rename or the passing of time gives
\* no credential back, and a device that is out cannot return.
THEOREM RevocationIsFinal == Spec => RevocationHolds
<1> DEFINE Holds == /\ row.standing \in Withdrawn => row'.standing \in Withdrawn
                    /\ ShutOut => ShutOut'
<1>1. Inductive /\ [Next]_vars => [Holds]_vars
  <2> SUFFICES ASSUME Inductive, Next PROVE Holds
    OBVIOUS
  <2> USE DEF Inductive, TypeOK, users, presence, connVars, ShutOut, Usable
  <2>1. ASSUME NEW c \in Conns, NEW i \in Instances, AuthenticateDevice(c, i)
        PROVE  Holds
    BY <2>1 DEF AuthenticateDevice
  <2>2. ASSUME NEW c \in Conns, UpdateFromHandshake(c) PROVE Holds
    BY <2>2 DEF UpdateFromHandshake, UpdateRow
  <2>3. ASSUME NEW c \in Conns, Register(c) \/ CloseEvicted(c) \/ MarkOnline(c)
        PROVE  Holds
    BY <2>3 DEF Register, CloseEvicted, MarkOnline
  <2>4. ASSUME NEW c \in Conns, Serve(c) \/ End(c) PROVE Holds
    BY <2>4 DEF Serve, Touch, Leave, CloseSlow, End, Unregister, OnDisconnect
  <2>5. ASSUME NEW i \in Instances, CloseAll(i) \/ CloseDrained(i) \/ Crash(i)
        PROVE  Holds
    BY <2>5 DEF CloseAll, CloseDrained, Crash
  <2>6. CASE Listing \/ Revoking \/ Expire
    BY <2>6 DEF Listing, FindStaleMember, PruneMember, Revoking, CloseDevice,
                RevokeOffline, Expire
  <2>7. ASSUME NEW n \in Names, Rename(n) PROVE Holds
    BY <2>7 DEF Rename, UpdateRow
  <2>8. ASSUME NEW i \in Instances, NEW standing \in Withdrawn, RevokeRow(i, standing)
        PROVE  Holds
    BY <2>8 DEF RevokeRow
  <2>9. CASE TokenExpires
    BY <2>9 DEF TokenExpires
  <2> QED
    BY <2>1, <2>2, <2>3, <2>4, <2>5, <2>6, <2>7, <2>8, <2>9 DEF Next, Open
<1>2. Spec => []Inductive
  BY Initially, Step, PTL DEF Spec
<1>3. Spec => [][Holds]_vars
  BY <1>1, <1>2, PTL DEF Spec
<1> QED
  BY <1>3 DEF RevocationHolds

=============================================================================
