----------------------- MODULE WhatsAppLinkingProofs -----------------------
(***************************************************************************)
(* Proofs about WhatsAppLinking, for any number of requests to link and to *)
(* disconnect. A linking owns the flag from its first step until its       *)
(* goroutine ends; while it is on its way to a QR channel no code is       *)
(* stored, and from GetDevice on the client in use is the one it made.     *)
(***************************************************************************)
EXTENDS WhatsAppLinking, FiniteSetTheorems, TLAPS

Attempt(k) == InProgress(k) \/ watcher[k] = "running"

Waits(k) == Attempt(k) \/ (watcher[k] = "ended" /\ qr[qrChan[k]] = "closed")

\* The goroutine comes after the request, and the channel before it.
InOrder ==
  \A k \in Links :
    /\ pc[k] # "logout"
    /\ pc[k] \in {"idle", "drop", "device", "qr"} => qrChan[k] = None
    /\ watcher[k] # "off" => pc[k] = "done"
    /\ watcher[k] = "ended" => qrChan[k] # None

Base == TypeOK /\ InOrder /\ WaitingUnlessLost

\* Until somebody disconnects.
Owned ==
  /\ \A j, k \in Links : Attempt(j) /\ Attempt(k) => j = k
  /\ \A k \in Links : Attempt(k) => linking
  /\ qrPNG # None => linking /\ qrPNG = client
  /\ \A k \in Links : InProgress(k) => qrPNG = None
  /\ \A k \in Links :
       Attempt(k) /\ pc[k] \notin {"drop", "device", "qr"} => qrChan[k] \in {None, client}

Inv == Base /\ (Undisturbed => Owned)

LEMMA Waiting == WaitingUnlessLost <=> (linking => \E k \in Links : Waits(k))
  BY DEF WaitingUnlessLost, Waits, Attempt

LEMMA InitInv == Init => Inv
<1> SUFFICES ASSUME Init  PROVE Inv
  OBVIOUS
<1>1. TypeOK
  <2>1. paired \in [Clients -> BOOLEAN] /\ socket \in [Clients -> BOOLEAN]
    BY DEF Init
  <2> QED  BY <2>1 DEF Init, TypeOK, Clients
<1>2. InOrder /\ WaitingUnlessLost
  BY DEF Init, InOrder, WaitingUnlessLost, Calls
<1>3. Owned
  BY DEF Init, Owned, Attempt, InProgress, Calls
<1> QED  BY <1>1, <1>2, <1>3 DEF Inv, Base

-----------------------------------------------------------------------------
(* Types, and somebody who waits.                                          *)

LEMMA LinkBase == ASSUME Base, NEW k \in Links, LinkStep(k) PROVE Base'
<1> USE CallsAssumption, NamesAssumption
    DEF Base, TypeOK, InOrder, Calls, Clients, Goto, flags, threads, library
<1>1. k \in Calls /\ k \in Clients /\ k \notin Disconnects
  OBVIOUS
<1>2. CASE StartLinking(k)
  <2>1. TypeOK' /\ InOrder'
    BY <1>1, <1>2 DEF StartLinking, Begin
  <2>2. CASE linking
    <3>1. \A j \in Links : Waits(j) => Waits(j)'
      BY <1>2, <2>2 DEF StartLinking, Begin, Waits, Attempt, InProgress
    <3> QED
      BY <1>2, <2>1, <2>2, <3>1, Waiting
      DEF StartLinking, Begin, WaitingUnlessLost, Waits, Attempt
  <2>3. CASE ~linking
    <3>1. Waits(k)'
      BY <1>1, <1>2, <2>3 DEF StartLinking, Begin, Waits, Attempt, InProgress
    <3>2. WaitingUnlessLost'
      BY <3>1 DEF WaitingUnlessLost, Waits, Attempt
    <3> QED  BY <2>1, <3>2
  <2> QED  BY <2>2, <2>3
<1>3. ASSUME DropOld(k) \/ GetDevice(k) \/ OpenQRChannel(k) \/ Connect(k)
      PROVE  Base'
  <2>1. CASE DropOld(k)
    BY <1>1, <2>1 DEF DropOld, Waits, Attempt, InProgress, WaitingUnlessLost
  <2>2. CASE GetDevice(k)
    BY <1>1, <2>2 DEF GetDevice, Waits, Attempt, InProgress, WaitingUnlessLost
  <2>3. CASE OpenQRChannel(k)
    BY <1>1, <2>3 DEF OpenQRChannel, Waits, Attempt, InProgress, WaitingUnlessLost
  <2>4. CASE Connect(k)
    BY <1>1, <2>4 DEF Connect, Waits, Attempt, InProgress, WaitingUnlessLost
  <2> QED  BY <1>3, <2>1, <2>2, <2>3, <2>4
<1>4. CASE FailLinking(k)
  BY <1>1, <1>4 DEF FailLinking, WaitingUnlessLost
<1> QED  BY <1>2, <1>3, <1>4 DEF LinkStep

LEMMA OtherBase ==
  ASSUME Base,
         \/ \E k \in Disconnects : Disconnect(k) \/ Logout(k)
         \/ \E c \in Clients : Scan(c) \/ Expire(c) \/ Break(c)
         \/ \E k \in Links : ShowCode(k) \/ EndLinking(k) \/ LeaveLoop(k)
  PROVE  Base'
<1> USE CallsAssumption, NamesAssumption
    DEF Base, TypeOK, InOrder, Calls, Clients, Goto, flags, threads, library
<1>1. ASSUME NEW k \in Disconnects, Disconnect(k)  PROVE Base'
  <2>1. TypeOK' /\ InOrder'
    BY <1>1 DEF Disconnect
  <2>2. \A j \in Links : Waits(j) => Waits(j)'
    BY <1>1 DEF Disconnect, Waits, Attempt, InProgress
  <2> QED  BY <1>1, <2>1, <2>2, Waiting DEF Disconnect, WaitingUnlessLost, Waits, Attempt
<1>2. ASSUME NEW k \in Disconnects, Logout(k)  PROVE Base'
  <2>1. stored' \in BOOLEAN /\ paired' \in [Clients -> BOOLEAN]
        /\ socket' \in [Clients -> BOOLEAN] /\ qr' = qr
    BY <1>2 DEF Logout
  <2> QED  BY <1>2, <2>1 DEF Logout, WaitingUnlessLost
<1>3. ASSUME NEW c \in Clients, Scan(c) \/ Expire(c) \/ Break(c)  PROVE Base'
  <2>1. /\ qr' \in [Clients -> {"none", "open", "success", "timeout", "closed"}]
        /\ paired' \in [Clients -> BOOLEAN] /\ stored' \in BOOLEAN
    BY <1>3 DEF Scan, Expire, Break
  <2>2. \A j \in Links : Waits(j) => Waits(j)'
    BY <1>3 DEF Scan, Expire, Break, Waits, Attempt, InProgress
  <2> QED
    BY <1>3, <2>1, <2>2, Waiting
    DEF Scan, Expire, Break, WaitingUnlessLost, Waits, Attempt
<1>4. ASSUME NEW k \in Links, ShowCode(k)  PROVE Base'
  <2>1. TypeOK' /\ InOrder'
    BY <1>4 DEF ShowCode, Watches
  <2>2. \A j \in Links : Waits(j) => Waits(j)'
    BY <1>4 DEF ShowCode, Waits, Attempt, InProgress
  <2> QED
    BY <1>4, <2>1, <2>2, Waiting DEF ShowCode, WaitingUnlessLost, Waits, Attempt
<1>5. ASSUME NEW k \in Links, EndLinking(k)  PROVE Base'
  BY <1>5 DEF EndLinking, Watches, End, WaitingUnlessLost
<1>6. ASSUME NEW k \in Links, LeaveLoop(k)  PROVE Base'
  <2>1. TypeOK' /\ InOrder'
    BY <1>6 DEF LeaveLoop, Watches
  <2>2. Waits(k)'
    BY <1>6 DEF LeaveLoop, Watches, Waits
  <2> QED  BY <2>1, <2>2 DEF WaitingUnlessLost, Waits, Attempt
<1> QED  BY <1>1, <1>2, <1>3, <1>4, <1>5, <1>6

-----------------------------------------------------------------------------
(* One linking at a time.                                                  *)

\* A disconnect begun stays begun.
LEMMA StaysDisturbed == ASSUME Base, [Next]_vars, Undisturbed' PROVE Undisturbed
<1> USE CallsAssumption DEF Undisturbed, Base, TypeOK, Calls, Goto, threads
<1>1. ASSUME NEW k \in Links, LinkStep(k)  PROVE Undisturbed
  BY <1>1 DEF LinkStep, StartLinking, Begin, DropOld, GetDevice, OpenQRChannel,
              Connect, FailLinking
<1>2. ASSUME NEW k \in Disconnects, Disconnect(k) \/ Logout(k)  PROVE Undisturbed
  BY <1>2 DEF Disconnect, Logout
<1>3. CASE UNCHANGED pc
  BY <1>3
<1> QED
  BY <1>1, <1>2, <1>3
  DEF Next, CallStep, Scan, Expire, Break, ShowCode, EndLinking, LeaveLoop, Polled, vars

LEMMA LinkOwned == ASSUME Base, Owned, NEW k \in Links, LinkStep(k) PROVE Owned'
<1> USE CallsAssumption, NamesAssumption
    DEF Base, TypeOK, InOrder, Calls, Clients, Goto, flags, threads, library
<1>1. k \in Calls /\ k \in Clients
  OBVIOUS
<1>2. CASE StartLinking(k) /\ linking
  BY <1>1, <1>2 DEF StartLinking, Begin, Owned, Attempt, InProgress
<1>3. CASE StartLinking(k) /\ ~linking
  <2>1. \A j \in Links : ~Attempt(j)
    BY <1>3 DEF Owned
  <2>2. \A j \in Links : Attempt(j)' => j = k
    BY <1>3, <2>1 DEF StartLinking, Begin, Attempt, InProgress
  <2>3. linking' /\ qrPNG' = None /\ pc'[k] = "drop"
    BY <1>1, <1>3 DEF StartLinking, Begin
  <2> QED  BY <2>2, <2>3 DEF Owned
<1>4. ASSUME DropOld(k) \/ GetDevice(k) \/ OpenQRChannel(k) \/ Connect(k)
      PROVE  Owned'
  <2>1. InProgress(k) /\ Attempt(k) /\ linking /\ linking' /\ qrPNG = None /\ qrPNG' = None
    BY <1>4
    DEF DropOld, GetDevice, OpenQRChannel, Connect, InProgress, Attempt, Owned
  <2>2. \A j \in Links : Attempt(j) => j = k
    BY <2>1 DEF Owned
  <2>3. \A j \in Links : Attempt(j)' => j = k
    BY <1>1, <1>4, <2>2
    DEF DropOld, GetDevice, OpenQRChannel, Connect, InProgress, Attempt
  <2>4. CASE DropOld(k)
    <3>1. pc'[k] = "device"
      BY <1>1, <2>4 DEF DropOld
    <3> QED  BY <2>1, <2>3, <3>1 DEF Owned
  <2>5. CASE GetDevice(k)
    <3>1. pc'[k] = "qr" \/ (pc'[k] = "fail" /\ qrChan' = qrChan /\ client' = client)
      BY <1>1, <2>5 DEF GetDevice
    <3> QED  BY <2>1, <2>3, <2>5, <3>1 DEF Owned
  <2>6. CASE OpenQRChannel(k)
    BY <1>1, <2>1, <2>3, <2>6 DEF OpenQRChannel, Owned
  <2>7. CASE Connect(k)
    <3>1. qrChan[k] \in {None, client} /\ qrChan' = qrChan /\ client' = client
      BY <2>1, <2>7 DEF Connect, Owned
    <3> QED  BY <2>1, <2>3, <3>1 DEF Owned
  <2> QED  BY <1>4, <2>4, <2>5, <2>6, <2>7
<1>5. CASE FailLinking(k)
  <2>1. Attempt(k) /\ qrPNG' = None
    BY <1>5 DEF FailLinking, Attempt, InProgress, Owned
  <2>2. \A j \in Links : ~Attempt(j)'
    BY <1>1, <1>5, <2>1 DEF FailLinking, Attempt, InProgress, Owned
  <2> QED  BY <2>1, <2>2 DEF Owned, Attempt
<1> QED  BY <1>2, <1>3, <1>4, <1>5 DEF LinkStep

LEMMA WatchOwned ==
  ASSUME Base, Owned, NEW k \in Links, ShowCode(k) \/ EndLinking(k) \/ LeaveLoop(k)
  PROVE  Owned'
<1> USE NamesAssumption DEF Base, TypeOK, InOrder, Watches, flags, threads, library
<1>1. Attempt(k) /\ linking /\ pc[k] = "done" /\ \A j \in Links : Attempt(j) => j = k
  BY DEF ShowCode, EndLinking, LeaveLoop, Attempt, Owned
<1>2. CASE ShowCode(k)
  <2>1. qrPNG' = client
    BY <1>1, <1>2 DEF ShowCode, Owned
  <2>2. \A j \in Links : ~InProgress(j)'
    BY <1>1, <1>2 DEF ShowCode, InProgress, Attempt
  <2> QED  BY <1>1, <1>2, <2>1, <2>2 DEF ShowCode, Owned, Attempt, InProgress
<1>3. CASE EndLinking(k)
  <2>1. \A j \in Links : ~Attempt(j)'
    BY <1>1, <1>3 DEF EndLinking, Attempt, InProgress
  <2> QED  BY <1>3, <2>1 DEF EndLinking, End, Owned, Attempt
<1>4. CASE LeaveLoop(k)
  <2>1. \A j \in Links : ~Attempt(j)'
    BY <1>1, <1>4 DEF LeaveLoop, Attempt, InProgress
  <2> QED  BY <1>4, <2>1 DEF LeaveLoop, Owned, Attempt
<1> QED  BY <1>2, <1>3, <1>4

LEMMA InvStep == Inv /\ [Next]_vars => Inv'
<1> SUFFICES ASSUME Inv, [Next]_vars  PROVE Inv'
  OBVIOUS
<1> USE DEF Inv
<1>1. ASSUME NEW k \in Links, LinkStep(k)  PROVE Inv'
  BY <1>1, LinkBase, StaysDisturbed, LinkOwned
<1>2. ASSUME NEW k \in Disconnects, Disconnect(k) \/ Logout(k)  PROVE Inv'
  <2>1. ~Undisturbed'
    BY <1>2, CallsAssumption
    DEF Undisturbed, Disconnect, Logout, Base, TypeOK, Calls, Goto
  <2> QED  BY <1>2, <2>1, OtherBase
<1>3. ASSUME NEW c \in Clients, Scan(c) \/ Expire(c) \/ Break(c)  PROVE Inv'
  <2>1. Owned => Owned'
    BY <1>3 DEF Scan, Expire, Break, Owned, Attempt, InProgress, flags, threads
  <2> QED  BY <1>3, <2>1, OtherBase, StaysDisturbed
<1>4. ASSUME NEW k \in Links, ShowCode(k) \/ EndLinking(k) \/ LeaveLoop(k)  PROVE Inv'
  BY <1>4, OtherBase, StaysDisturbed, WatchOwned
<1>5. CASE UNCHANGED vars
  BY <1>5
  DEF vars, flags, threads, library, Base, TypeOK, InOrder, WaitingUnlessLost,
      Undisturbed, Owned, Attempt, InProgress
<1> QED  BY <1>1, <1>2, <1>3, <1>4, <1>5 DEF Next, CallStep, Polled

LEMMA Invariant == Spec => []Inv
  BY InitInv, InvStep, PTL DEF Spec

-----------------------------------------------------------------------------
(* The theorems.                                                           *)

\* Every variable keeps its type, and the mutex is held across steps by a
\* Disconnect alone, for any number of requests.
THEOREM TypeCorrect == Spec => []TypeOK
<1>1. Inv => TypeOK  BY DEF Inv, Base
<1> QED  BY <1>1, Invariant, PTL

\* The flag admits one linking at a time, counting the goroutine it leaves
\* behind, as long as nobody disconnects.
THEOREM OneAttemptCorrect == Spec => []OneAttempt
<1>1. ASSUME Inv  PROVE OneAttempt
  <2> DEFINE attempts == {k \in Links : InProgress(k) \/ watcher[k] = "running"}
  <2>1. ASSUME Undisturbed  PROVE Cardinality(attempts) <= 1
    <3> HIDE DEF attempts
    <3>1. CASE attempts = {}
      BY <3>1, FS_EmptySet
    <3>2. ASSUME NEW k \in attempts  PROVE Cardinality(attempts) <= 1
      <4>1. attempts = {k}
        BY <1>1, <2>1, <3>2 DEF Inv, Owned, Attempt, attempts
      <4>2. Cardinality({k}) = 1
        BY FS_Singleton
      <4> QED  BY <4>1, <4>2
    <3> QED  BY <3>1, <3>2
  <2>2. ASSUME Undisturbed, attempts # {}  PROVE linking
    BY <1>1, <2>2 DEF Inv, Owned, Attempt
  <2> QED  BY <2>1, <2>2 DEF OneAttempt
<1> QED  BY <1>1, Invariant, PTL

\* A code that can be fetched is one of the client in use, as long as nobody
\* disconnects.
THEOREM QRIsCurrentCorrect == Spec => []QRIsCurrent
<1>1. Inv => QRIsCurrent  BY DEF Inv, Owned, QRIsCurrent
<1> QED  BY <1>1, Invariant, PTL

\* The flag is up with nobody waiting only after an event that the goroutine
\* ignores.
THEOREM WaitingCorrect == Spec => []WaitingUnlessLost
<1>1. Inv => WaitingUnlessLost  BY DEF Inv, Base
<1> QED  BY <1>1, Invariant, PTL
=============================================================================
