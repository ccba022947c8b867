------------------------ MODULE SurfaceClientProofs ------------------------
(***************************************************************************)
(* Theorems about SurfaceClient, for any branches and bounds: its types,   *)
(* that what is committed was decided on the state it changes, and that    *)
(* the user's events keep their order.                                     *)
(*                                                                         *)
(* The last two are about the log; what keeps them true is what a packet   *)
(* knows that is still under way, wherever it is: no event behind it on    *)
(* its branch, up to the state it was captured on, is younger than it.     *)
(***************************************************************************)
EXTENDS SurfaceClient, TLAPS

(* What a user can have seen: a preview, or a state of the history. *)
Given == {Preview} \cup 1 .. Len(log) + 1
Views == [branch : Branches, state : Given]

WorldSound ==
  /\ log \in Seq(Entries)
  /\ active \in Branches
  /\ tips \in [Branches -> 0 .. Len(log) + 1]
  /\ tips[active] # 0
  /\ \A i \in 1 .. Len(log) :
       log[i].result = i + 1 /\ log[i].result <= tips[log[i].branch]

OriginSound ==
  /\ origin \in Seq(Packets \cup {Nobody})
  /\ Len(origin) = Len(log)

(* Everything older than number n on the states that a packet p may know. *)
OlderThan(p) ==
  \A i \in 1 .. Len(log) :
    /\ origin[i] # Nobody
    /\ log[i].branch = p.branch
    /\ log[i].result <= p.parent
    => origin[i].sequence < p.sequence

PacketSound(p, n) == p.sequence <= n /\ p.parent \in Given /\ OlderThan(p)

CallSound(call, n) ==
  call \in Calls /\ (call \in Packets => PacketSound(call, n))

ClientRecords ==
  [status : {"offline", "starting", "online", "demo"}, view : Views,
   sequence : 0 .. MaxPackets, asked : 0 .. MaxCalls,
   request : Calls \cup {Nothing}, stage : {"none", "sent", "ok", "error"},
   reply : Views, waiting : SUBSET Calls]

ClientSound(c) ==
  /\ c \in ClientRecords
  /\ c.stage = "none" <=> c.request = Nothing
  /\ c.request # Nothing => CallSound(c.request, c.sequence)
  /\ \A call \in c.waiting : CallSound(call, c.sequence)

(* No event is younger than the last packet. *)
Numbered(n) ==
  \A i \in 1 .. Len(log) : origin[i] # Nobody => origin[i].sequence <= n

LateSound(n) == \A call \in late : CallSound(call, n)

HistorySound(n) ==
  /\ WorldSound /\ OriginSound /\ Numbered(n)
  /\ CommittedAsSeen /\ EventsInUserOrder

ClientInv ==
  /\ HistorySound(client.sequence)
  /\ ClientSound(client)
  /\ LateSound(client.sequence)
  /\ others \in 0 .. MaxOthers
-----------------------------------------------------------------------------
(* A call that is no packet is sound. *)
LEMMA PlainCalls ==
  ASSUME NEW call \in Calls, call.kind # "interact", NEW n
  PROVE  CallSound(call, n)
BY DEF CallSound, Packets

LEMMA SendSound ==
  ASSUME NEW c, ClientSound(c), NEW call, CallSound(call, c.sequence)
  PROVE  /\ ClientSound(Send(c, call))
         /\ Send(c, call).sequence = c.sequence
<1>1. call # Nothing
  BY DEF CallSound, Calls, Packets, Nothing
<1> QED
  BY <1>1 DEF ClientSound, ClientRecords, Send, CallSound

LEMMA ApiSound ==
  ASSUME NEW c, ClientSound(c), NEW call, CallSound(call, c.sequence)
  PROVE  /\ ClientSound(Api(c, call))
         /\ Api(c, call).sequence = c.sequence
<1>1. CASE c.request = Nothing
  BY <1>1, SendSound DEF Api
<1>2. CASE c.request # Nothing
  BY <1>2 DEF ClientSound, ClientRecords, Api, CallSound
<1> QED BY <1>1, <1>2

LEMMA RefreshSound ==
  ASSUME NEW c, ClientSound(c)
  PROVE  /\ ClientSound(Refresh(c))
         /\ Refresh(c).sequence = c.sequence
<1> DEFINE call == [kind |-> "snapshot"]
<1>1. call \in Calls /\ call.kind # "interact"
  BY DEF Calls
<1>2. CallSound(call, c.sequence)
  BY <1>1, PlainCalls
<1> QED BY <1>2, SendSound DEF Refresh

LEMMA CommitDemoSound ==
  ASSUME NEW c, ClientSound(c)
  PROVE  /\ ClientSound(CommitDemo(c))
         /\ CommitDemo(c).sequence = c.sequence
BY DEF ClientSound, ClientRecords, CommitDemo, Views, Given

(* A higher number of packets leaves a client and its calls sound. *)
LEMMA LaterSound ==
  ASSUME NEW call, NEW n \in Nat, NEW k \in Nat, n <= k, CallSound(call, n)
  PROVE  CallSound(call, k)
BY DEF CallSound, PacketSound, Packets

(* A packet is numbered after every event, and its parent is in view.      *)
LEMMA EmitSound ==
  ASSUME BoundsAssumption, NEW c, ClientSound(c), c.sequence < MaxPackets,
         Numbered(c.sequence), OriginSound
  PROVE  /\ ClientSound(Emit(c))
         /\ Emit(c).sequence = c.sequence + 1
<1> DEFINE d == [c EXCEPT !.sequence = @ + 1]
           packet == [kind |-> "interact", sequence |-> d.sequence,
                      branch |-> c.view.branch, parent |-> c.view.state]
<1>1. /\ c \in ClientRecords /\ c.sequence \in Nat /\ MaxPackets \in Nat
      /\ d \in ClientRecords /\ d.sequence = c.sequence + 1
      /\ d.request = c.request /\ d.waiting = c.waiting /\ d.stage = c.stage
  BY DEF ClientSound, ClientRecords, BoundsAssumption
<1>2. ClientSound(d)
  <2>1. ASSUME NEW call, CallSound(call, c.sequence)
        PROVE  CallSound(call, d.sequence)
    BY <1>1, <2>1, LaterSound
  <2> QED BY <1>1, <2>1 DEF ClientSound
<1>3. CallSound(packet, d.sequence)
  <2>1. c.view \in Views
    BY <1>1 DEF ClientRecords
  <2>2. packet \in Packets
    <3>1. d.sequence \in 1 .. MaxPackets
      BY <1>1
    <3>2. c.view.branch \in Branches /\ c.view.state \in Int
      BY <2>1 DEF Views, Given, Preview
    <3> QED BY <3>1, <3>2 DEF Packets
  <2>3. OlderThan(packet)
    <3> SUFFICES ASSUME NEW i \in 1 .. Len(log), origin[i] # Nobody
                 PROVE  origin[i].sequence < packet.sequence
      BY DEF OlderThan
    <3>1. origin[i] \in Packets
      BY DEF OriginSound
    <3> QED BY <1>1, <3>1 DEF Numbered, Packets
  <2>4. packet.parent \in Given /\ packet.sequence <= d.sequence
    BY <1>1, <2>1 DEF Views
  <2> QED BY <2>2, <2>3, <2>4 DEF CallSound, PacketSound, Calls
<1> HIDE DEF d, packet
<1>4. Emit(c) = IF c.status = "online" THEN Api(d, packet) ELSE CommitDemo(d)
  BY DEF Emit, d, packet
<1> QED BY <1>1, <1>2, <1>3, <1>4, ApiSound, CommitDemoSound

LEMMA AcquireSound ==
  ASSUME NEW c, ClientSound(c), NEW call \in c.waiting
  PROVE  /\ ClientSound(Acquire(c, call))
         /\ Acquire(c, call).sequence = c.sequence
<1> DEFINE d == [c EXCEPT !.waiting = @ \ {call}]
<1>1. ClientSound(d) /\ d.sequence = c.sequence
  BY DEF ClientSound, ClientRecords
<1>2. CallSound(call, c.sequence)
  BY DEF ClientSound
<1> HIDE DEF d
<1> QED BY <1>1, <1>2, SendSound DEF Acquire, d

LEMMA GiveUpSound ==
  ASSUME NEW c, ClientSound(c), NEW call \in c.waiting
  PROVE  /\ ClientSound(GiveUp(c, call))
         /\ GiveUp(c, call).sequence = c.sequence
<1> DEFINE d == [c EXCEPT !.waiting = @ \ {call}]
<1>1. ClientSound(d) /\ d.sequence = c.sequence
  BY DEF ClientSound, ClientRecords
<1> HIDE DEF d
<1>2. GiveUp(c, call) = IF call.kind = "interact" THEN CommitDemo(d) ELSE d
  BY DEF GiveUp, d
<1> QED BY <1>1, <1>2, CommitDemoSound

LEMMA AnsweredSound ==
  ASSUME NEW c, ClientSound(c), c.stage \in {"ok", "error"}
  PROVE  /\ ClientSound(Answered(c))
         /\ Answered(c).sequence = c.sequence
<1> DEFINE d == [c EXCEPT !.request = Nothing, !.stage = "none"]
           Told(s) == [d EXCEPT !.status = s]
<1>1. c \in ClientRecords /\ c.request \in Calls
  BY DEF ClientSound, ClientRecords
<1>2. ClientSound(d) /\ d.sequence = c.sequence
  BY DEF ClientSound, ClientRecords
<1>3. /\ ClientSound([d EXCEPT !.view = c.reply])
      /\ [d EXCEPT !.view = c.reply].sequence = c.sequence
  BY <1>1, <1>2 DEF ClientSound, ClientRecords
<1>4. ASSUME NEW s \in {"online", "starting", "demo"}
      PROVE  ClientSound(Told(s)) /\ Told(s).sequence = c.sequence
  BY <1>2 DEF ClientSound, ClientRecords
<1>5. c.request.kind \in {"interact", "fork", "switch", "verdict", "query", "snapshot", "health"}
  BY <1>1 DEF Calls, Packets
<1>6. Answered(c) \in {d, Refresh(d), Refresh(Told("online")), [d EXCEPT !.view = c.reply],
                       Told("demo"), Told("starting")}
  <2> HIDE DEF d
  <2> QED BY <1>5 DEF Answered, d
<1> HIDE DEF d, Told
<1>7. /\ ClientSound(Refresh(d)) /\ Refresh(d).sequence = c.sequence
      /\ ClientSound(Refresh(Told("online"))) /\ Refresh(Told("online")).sequence = c.sequence
  BY <1>2, <1>4, RefreshSound
<1> QED BY <1>2, <1>3, <1>4, <1>6, <1>7
-----------------------------------------------------------------------------
(* One more event e, for a packet o or for nobody, on the tip of the branch. *)
Grows(e, o) ==
  /\ e \in Entries /\ e.branch \in Branches /\ e.result = Fresh
  /\ log' = Append(log, e)
  /\ tips' = [tips EXCEPT ![e.branch] = Fresh]
  /\ active' = e.branch
  /\ o \in Packets \cup {Nobody} /\ origin' = Append(origin, o)

LEMMA Growth ==
  ASSUME WorldSound, OriginSound, NEW e, NEW o, Grows(e, o)
  PROVE  /\ Len(log) \in Nat /\ Len(log') = Len(log) + 1
         /\ log' \in Seq(Entries) /\ origin' \in Seq(Packets \cup {Nobody})
         /\ Len(origin') = Len(log')
         /\ \A i \in 1 .. Len(log) : log'[i] = log[i] /\ origin'[i] = origin[i]
         /\ log'[Len(log) + 1] = e /\ origin'[Len(log) + 1] = o
BY DEF WorldSound, OriginSound, Grows

LEMMA WorldGrows ==
  ASSUME WorldSound, OriginSound, NEW e, NEW o, Grows(e, o)
  PROVE  WorldSound' /\ OriginSound'
<1>1. /\ Len(log) \in Nat /\ Len(log') = Len(log) + 1
      /\ log' \in Seq(Entries)
      /\ \A i \in 1 .. Len(log) : log'[i] = log[i]
      /\ log'[Len(log) + 1] = e
  BY Growth
<1>2. OriginSound'
  BY Growth DEF OriginSound
<1>3. /\ tips \in [Branches -> 0 .. Len(log) + 1]
      /\ tips' = [tips EXCEPT ![e.branch] = Len(log) + 2]
      /\ e.branch \in Branches /\ e.result = Len(log) + 2 /\ active' = e.branch
  BY DEF WorldSound, Grows, Fresh
<1>4. tips' \in [Branches -> 0 .. Len(log') + 1] /\ tips'[active'] # 0
  BY <1>1, <1>3
<1>5. ASSUME NEW i \in 1 .. Len(log')
      PROVE  log'[i].result = i + 1 /\ log'[i].result <= tips'[log'[i].branch]
  <2>1. CASE i = Len(log) + 1
    BY <1>1, <1>3, <2>1
  <2>2. CASE i \in 1 .. Len(log)
    <3>1. log'[i] = log[i] /\ log[i].result = i + 1 /\ log[i].result <= tips[log[i].branch]
      BY <1>1, <2>2 DEF WorldSound
    <3>2. log[i] \in Entries
      BY <2>2 DEF WorldSound
    <3>3. log[i].branch \in Branches
      BY <3>2 DEF Entries
    <3>4. tips[log[i].branch] <= tips'[log[i].branch]
      BY <1>1, <1>3, <3>3
    <3>5. tips[log[i].branch] \in Int /\ tips'[log[i].branch] \in Int
      BY <1>1, <1>3, <1>4, <3>3
    <3> QED BY <2>2, <3>1, <3>4, <3>5
  <2> QED BY <1>1, <2>1, <2>2
<1> QED BY <1>1, <1>2, <1>3, <1>4, <1>5 DEF WorldSound

(* What is under way stays sound when the history grows: nobody has seen   *)
(* the new state yet.                                                      *)
LEMMA CallsStaySound ==
  ASSUME WorldSound, OriginSound, NEW e, NEW o, Grows(e, o),
         NEW n, NEW call, CallSound(call, n)
  PROVE  CallSound(call, n)'
<1> SUFFICES ASSUME call \in Packets
             PROVE  PacketSound(call, n)'
  BY DEF CallSound
<1>1. PacketSound(call, n) /\ call.parent \in Int
  BY DEF CallSound, Packets
<1>2. /\ Len(log) \in Nat /\ Len(log') = Len(log) + 1
      /\ \A i \in 1 .. Len(log) : log'[i] = log[i] /\ origin'[i] = origin[i]
      /\ log'[Len(log) + 1] = e
  BY Growth
<1>3. call.parent \in Given' /\ call.parent <= Len(log) + 1
  BY <1>1, <1>2 DEF PacketSound, Given, Preview
<1>4. e.result = Len(log) + 2
  BY DEF Grows, Fresh
<1>5. ASSUME NEW i \in 1 .. Len(log'), origin'[i] # Nobody,
             log'[i].branch = call.branch, log'[i].result <= call.parent
      PROVE  origin'[i].sequence < call.sequence
  <2>1. i # Len(log) + 1
    BY <1>1, <1>2, <1>3, <1>4, <1>5
  <2>2. i \in 1 .. Len(log)
    BY <1>2, <2>1
  <2> QED BY <1>1, <1>2, <1>5, <2>2 DEF PacketSound, OlderThan
<1> QED BY <1>1, <1>3, <1>5 DEF PacketSound, OlderThan

LEMMA ClientStaysSound ==
  ASSUME WorldSound, OriginSound, NEW e, NEW o, Grows(e, o),
         NEW c, ClientSound(c)
  PROVE  ClientSound(c)'
<1>1. ASSUME NEW call, CallSound(call, c.sequence)
      PROVE  CallSound(call, c.sequence)'
  <2> PICK n : n = c.sequence
    OBVIOUS
  <2> QED BY <1>1, CallsStaySound
<1>2. Len(log) \in Nat /\ Len(log') = Len(log) + 1
  BY Growth
<1>3. Given \subseteq Given'
  BY <1>2 DEF Given
<1>4. Views \subseteq Views'
  BY <1>3 DEF Views
<1>5. c \in ClientRecords'
  <2>1. c \in ClientRecords
    BY DEF ClientSound
  <2> QED BY <1>4, <2>1 DEF ClientRecords
<1> QED BY <1>1, <1>5 DEF ClientSound
-----------------------------------------------------------------------------
(* A packet is committed on the state it names, behind all that is older.  *)
Placed(e, o, n) ==
  o # Nobody =>
    /\ PacketSound(o, n)
    /\ o.branch = e.branch /\ o.parent = e.parent /\ e.parent = tips[e.branch]

LEMMA HistoryGrows ==
  ASSUME NEW n \in Nat, HistorySound(n), NEW e, NEW o, Grows(e, o), Placed(e, o, n)
  PROVE  HistorySound(n)'
<1>0. WorldSound /\ OriginSound /\ Numbered(n) /\ CommittedAsSeen /\ EventsInUserOrder
  BY DEF HistorySound
<1>1. /\ Len(log) \in Nat /\ Len(log') = Len(log) + 1
      /\ \A i \in 1 .. Len(log) : log'[i] = log[i] /\ origin'[i] = origin[i]
      /\ log'[Len(log) + 1] = e /\ origin'[Len(log) + 1] = o
  BY <1>0, Growth
<1>2. WorldSound' /\ OriginSound'
  BY <1>0, WorldGrows
<1>3. \A i \in 1 .. Len(log') : i \in 1 .. Len(log) \/ i = Len(log) + 1
  BY <1>1
<1>4. Numbered(n)'
  BY <1>0, <1>1, <1>3 DEF Numbered, Placed, PacketSound
<1>5. CommittedAsSeen'
  BY <1>0, <1>1, <1>3 DEF CommittedAsSeen, Placed
<1>6. ASSUME NEW i \in 1 .. Len(log'), NEW j \in 1 .. Len(log'), i < j,
             origin'[i] # Nobody, origin'[j] # Nobody, log'[i].branch = log'[j].branch
      PROVE  origin'[i].sequence < origin'[j].sequence
  <2>1. i \in 1 .. Len(log) /\ log'[i] = log[i] /\ origin'[i] = origin[i]
    BY <1>1, <1>3, <1>6
  <2>2. CASE j \in 1 .. Len(log)
    BY <1>0, <1>1, <1>6, <2>1, <2>2 DEF EventsInUserOrder
  <2>3. CASE j = Len(log) + 1
    <3>1. o # Nobody /\ e.branch = log[i].branch
      BY <1>1, <1>6, <2>1, <2>3
    <3>2. log[i].result <= o.parent /\ log[i].branch = o.branch
      BY <1>0, <2>1, <3>1 DEF WorldSound, Placed
    <3> QED BY <1>1, <1>6, <2>1, <2>3, <3>1, <3>2 DEF Placed, PacketSound, OlderThan
  <2> QED BY <1>3, <2>2, <2>3
<1>7. EventsInUserOrder'
  BY <1>6 DEF EventsInUserOrder
<1> QED BY <1>2, <1>4, <1>5, <1>7 DEF HistorySound

LEMMA ExtendGrows ==
  ASSUME WorldSound, Extend(Fresh), NEW o \in Packets \cup {Nobody},
         origin' = Append(origin, o)
  PROVE  Grows(Entry(active, tips[active], Fresh), o)
<1>1. active \in Branches /\ tips[active] \in Nat /\ Fresh \in Nat
  BY DEF WorldSound, Fresh
<1> QED BY <1>1 DEF Extend, Grows, Entry, Entries

LEMMA ForkGrows ==
  ASSUME WorldSound, NEW b \in Branches, Fork(b, Fresh), origin' = Append(origin, Nobody)
  PROVE  Grows(Entry(b, tips[active], Fresh), Nobody)
<1>1. active \in Branches /\ tips[active] \in Nat /\ Fresh \in Nat
  BY DEF WorldSound, Fresh
<1> QED BY <1>1 DEF Fork, Grows, Entry, Entries

(* Nothing under way, in view or recorded depends on which branch is       *)
(* active.                                                                 *)
LEMMA SwitchKeeps ==
  ASSUME NEW n, HistorySound(n), NEW b \in Branches, Switch(b), UNCHANGED origin
  PROVE  /\ HistorySound(n)'
         /\ \A call : CallSound(call, n) => CallSound(call, n)'
         /\ \A c : ClientSound(c) => ClientSound(c)'
<1>1. HistorySound(n)'
  BY DEF Switch, HistorySound, WorldSound, OriginSound, Numbered, CommittedAsSeen,
         EventsInUserOrder
<1>2. \A call, k : CallSound(call, k) => CallSound(call, k)'
  BY DEF Switch, CallSound, PacketSound, OlderThan, Given
<1>3. ASSUME NEW c, ClientSound(c)
      PROVE  ClientSound(c)'
  <2>1. ClientRecords' = ClientRecords
    BY DEF Switch, ClientRecords, Views, Given
  <2> QED BY <1>2, <1>3, <2>1 DEF ClientSound
<1> QED BY <1>1, <1>2, <1>3

LEMMA RestKeeps ==
  ASSUME NEW n, HistorySound(n), UNCHANGED <<worldVars, origin>>
  PROVE  /\ HistorySound(n)'
         /\ \A call : CallSound(call, n) => CallSound(call, n)'
         /\ \A c : ClientSound(c) => ClientSound(c)'
<1>1. HistorySound(n)'
  BY DEF worldVars, HistorySound, WorldSound, OriginSound, Numbered, CommittedAsSeen,
         EventsInUserOrder
<1>2. \A call, k : CallSound(call, k) => CallSound(call, k)'
  BY DEF worldVars, CallSound, PacketSound, OlderThan, Given
<1>3. ASSUME NEW c, ClientSound(c)
      PROVE  ClientSound(c)'
  <2>1. ClientRecords' = ClientRecords
    BY DEF worldVars, ClientRecords, Views, Given
  <2> QED BY <1>2, <1>3, <2>1 DEF ClientSound
<1> QED BY <1>1, <1>2, <1>3

LEMMA GrowthKeeps ==
  ASSUME NEW n \in Nat, HistorySound(n), NEW e, NEW o, Grows(e, o), Placed(e, o, n)
  PROVE  /\ HistorySound(n)'
         /\ \A call : CallSound(call, n) => CallSound(call, n)'
         /\ \A c : ClientSound(c) => ClientSound(c)'
<1>1. WorldSound /\ OriginSound
  BY DEF HistorySound
<1> QED BY <1>1, HistoryGrows, CallsStaySound, ClientStaysSound

(* Whatever the core accepts leaves the history, the client and all calls  *)
(* sound.                                                                  *)
LEMMA AcceptsKeeps ==
  ASSUME NEW n \in Nat, HistorySound(n), NEW call, CallSound(call, n), Accepts(call)
  PROVE  /\ HistorySound(n)'
         /\ \A other : CallSound(other, n) => CallSound(other, n)'
         /\ \A c : ClientSound(c) => ClientSound(c)'
<1>0. WorldSound /\ call \in Calls /\ (call \in Packets => PacketSound(call, n))
  BY DEF HistorySound, CallSound
<1>1. CASE call.kind = "interact"
  <2> DEFINE e == Entry(active, tips[active], Fresh)
  <2>1. call \in Packets /\ PacketSound(call, n)
    BY <1>0, <1>1 DEF Calls
  <2>2. Current(call) /\ Extend(Fresh) /\ origin' = Append(origin, call)
    BY <1>1 DEF Accepts, Noted
  <2>3. Grows(e, call)
    BY <1>0, <2>1, <2>2, ExtendGrows
  <2>4. call.parent # Genesis
    BY <2>1 DEF PacketSound, Given, Genesis, Preview
  <2>5. e.branch = active /\ e.parent = tips[active]
    BY DEF Entry
  <2>6. Placed(e, call, n)
    BY <2>1, <2>2, <2>4, <2>5 DEF Placed, Current
  <2> QED BY <2>3, <2>6, GrowthKeeps
<1>2. CASE call.kind = "fork"
  <2> DEFINE e == Entry(call.branch, tips[active], Fresh)
  <2>1. call.branch \in Branches
    BY <1>0, <1>2 DEF Calls, Packets
  <2>2. Fork(call.branch, Fresh) /\ origin' = Append(origin, Nobody)
    BY <1>2 DEF Accepts, Noted
  <2>3. Grows(e, Nobody)
    BY <1>0, <2>1, <2>2, ForkGrows
  <2>4. Placed(e, Nobody, n)
    BY DEF Placed
  <2> QED BY <2>3, <2>4, GrowthKeeps
<1>3. CASE call.kind = "switch"
  <2>1. call.branch \in Branches
    BY <1>0, <1>3 DEF Calls, Packets
  <2>2. Switch(call.branch) /\ UNCHANGED origin
    BY <1>3 DEF Accepts
  <2> QED BY <2>1, <2>2, SwitchKeeps
<1>4. CASE call.kind = "verdict"
  <2>1. CASE Extend(Fresh) /\ Noted(Nobody)
    <3> DEFINE e == Entry(active, tips[active], Fresh)
    <3>1. Grows(e, Nobody)
      BY <1>0, <2>1, ExtendGrows DEF Noted
    <3>2. Placed(e, Nobody, n)
      BY DEF Placed
    <3> QED BY <3>1, <3>2, GrowthKeeps
  <2>2. CASE UNCHANGED <<worldVars, origin>>
    BY <2>2, RestKeeps
  <2> QED BY <1>4, <2>1, <2>2 DEF Accepts
<1>5. CASE call.kind \in {"query", "snapshot", "health"}
  <2>1. UNCHANGED <<worldVars, origin>>
    BY <1>5 DEF Accepts
  <2> QED BY <2>1, RestKeeps
<1>6. call.kind \in {"interact", "fork", "switch", "verdict", "query", "snapshot", "health"}
  BY <1>0 DEF Calls, Packets
<1> QED BY <1>1, <1>2, <1>3, <1>4, <1>5, <1>6
-----------------------------------------------------------------------------
(* The client's own steps leave the history alone. *)
LEMMA OutsideKeeps ==
  ASSUME ClientInv, Outside, ClientSound(client'),
         client'.sequence \in Nat, client.sequence <= client'.sequence
  PROVE  ClientInv'
<1>1. PICK n, k : n = client.sequence /\ k = client'.sequence
  OBVIOUS
<1>2. n \in Nat /\ k \in Nat /\ n <= k
  BY <1>1 DEF ClientInv, ClientSound, ClientRecords
<1>3. UNCHANGED <<worldVars, origin>> /\ late' = late /\ others' = others
  BY DEF Outside
<1>4. HistorySound(k)
  <2>1. HistorySound(n)
    BY <1>1 DEF ClientInv
  <2>2. Numbered(k)
    <3> SUFFICES ASSUME NEW i \in 1 .. Len(log), origin[i] # Nobody
                 PROVE  origin[i].sequence <= k
      BY DEF Numbered
    <3>1. origin[i] \in Packets
      BY <2>1 DEF HistorySound, OriginSound
    <3>2. origin[i].sequence \in Int /\ origin[i].sequence <= n
      BY <2>1, <3>1 DEF HistorySound, Numbered, Packets
    <3> QED BY <1>2, <3>2
  <2> QED BY <2>1, <2>2 DEF HistorySound
<1>5. \A call \in late : CallSound(call, k)
  BY <1>1, <1>2, LaterSound DEF ClientInv, LateSound
<1>6. HistorySound(k)' /\ \A call : CallSound(call, k) => CallSound(call, k)'
  BY <1>3, <1>4, RestKeeps
<1>7. ClientSound(client)'
  <2>1. PICK d : d = client'
    OBVIOUS
  <2>2. ClientSound(d)'
    BY <1>3, <1>4, <2>1, RestKeeps
  <2> QED BY <2>1, <2>2 DEF ClientSound
<1>8. LateSound(k)'
  BY <1>3, <1>5, <1>6 DEF LateSound
<1>9. HistorySound(client.sequence)' /\ LateSound(client.sequence)'
  BY <1>1, <1>6, <1>8 DEF HistorySound, Numbered, LateSound, CallSound, PacketSound
<1> QED BY <1>3, <1>7, <1>9 DEF ClientInv

(* Steps that do not capture anything keep the sequence. *)
LEMMA QuietKeeps ==
  ASSUME ClientInv, Outside, ClientSound(client'), client'.sequence = client.sequence
  PROVE  ClientInv'
<1>1. client.sequence \in Nat
  BY DEF ClientInv, ClientSound, ClientRecords
<1> QED BY <1>1, OutsideKeeps

(* Steps of the core: what it does to the history, and the client's answer. *)
LEMMA CoreKeeps ==
  ASSUME ClientInv, NEW n \in Nat, n = client.sequence, client'.sequence = client.sequence,
         HistorySound(n)',
         \A call : CallSound(call, n) => CallSound(call, n)',
         ClientSound(client)',
         \A call \in late' : CallSound(call, n), others' \in 0 .. MaxOthers
  PROVE  ClientInv'
<1>1. LateSound(n)'
  BY DEF LateSound
<1>2. HistorySound(client.sequence)' /\ LateSound(client.sequence)'
  BY <1>1 DEF HistorySound, Numbered, LateSound, CallSound, PacketSound
<1> QED BY <1>2 DEF ClientInv

LEMMA InitSound ==
  ASSUME BoundsAssumption, Init
  PROVE  ClientInv
<1>1. log = <<>> /\ origin = <<>> /\ Len(log) = 0
  BY DEF Init, WorldInit
<1>2. Main \in Branches /\ active = Main
  BY DEF Init, WorldInit, BoundsAssumption
<1>3. WorldSound
  BY <1>1, <1>2 DEF Init, WorldInit, WorldSound
<1>4. OriginSound
  BY <1>1 DEF OriginSound
<1>5. BootView \in Views
  BY <1>2 DEF BootView, View, Views, Given
<1>6. ClientSound(client)
  BY <1>5 DEF Init, ClientSound, ClientRecords, BoundsAssumption
<1> QED BY <1>1, <1>3, <1>4, <1>6
        DEF Init, ClientInv, HistorySound, Numbered, CommittedAsSeen, EventsInUserOrder,
            LateSound, BoundsAssumption
-----------------------------------------------------------------------------
LEMMA StepSound ==
  ASSUME BoundsAssumption, ClientInv, [Next]_vars
  PROVE  ClientInv'
<1>0. /\ ClientSound(client) /\ client \in ClientRecords /\ client.sequence \in Nat
      /\ HistorySound(client.sequence) /\ LateSound(client.sequence)
      /\ MaxPackets \in Nat /\ MaxCalls \in Nat /\ others \in 0 .. MaxOthers
  BY DEF ClientInv, ClientSound, ClientRecords, BoundsAssumption
<1>n. PICK n : n = client.sequence
  OBVIOUS
<1>c. PICK c : c = client
  OBVIOUS
<1>m. n \in Nat /\ HistorySound(n) /\ ClientSound(c) /\ \A call \in late : CallSound(call, n)
  BY <1>0, <1>n, <1>c DEF LateSound
<1>1. CASE Probe
  <2> DEFINE call == [kind |-> "health"]
  <2>1. call \in Calls /\ call.kind # "interact"
    BY DEF Calls
  <2>2. CallSound(call, client.sequence)
    BY <2>1, PlainCalls
  <2>3. ClientSound(client') /\ client'.sequence = client.sequence
    BY <1>0, <1>1, <2>2, SendSound DEF Probe
  <2> QED BY <1>1, <2>3, QuietKeeps DEF Probe
<1>2. CASE Capture
  <2>1. Numbered(client.sequence) /\ OriginSound /\ client.sequence < MaxPackets
    BY <1>0, <1>2 DEF HistorySound, Capture
  <2>2. ClientSound(client') /\ client'.sequence = client.sequence + 1
    BY <1>0, <1>2, <2>1, EmitSound DEF Capture
  <2> QED BY <1>0, <1>2, <2>2, OutsideKeeps DEF Capture
<1>3. CASE Poll
  <2>1. ClientSound(client') /\ client'.sequence = client.sequence
    BY <1>0, <1>3, RefreshSound DEF Poll
  <2> QED BY <1>3, <2>1, QuietKeeps DEF Poll
<1>4. CASE Resume
  <2>1. ClientSound(client') /\ client'.sequence = client.sequence
    BY <1>0, <1>4, AnsweredSound DEF Resume
  <2> QED BY <1>4, <2>1, QuietKeeps DEF Resume
<1>5. ASSUME NEW call \in UserCalls, Ask(call)
      PROVE  ClientInv'
  <2> DEFINE d == [client EXCEPT !.asked = @ + 1]
  <2>1. ClientSound(d) /\ d.sequence = client.sequence
    BY <1>0, <1>5 DEF Ask, ClientSound, ClientRecords
  <2>2. call \in Calls /\ call.kind # "interact"
    BY DEF UserCalls, Calls
  <2>3. CallSound(call, d.sequence)
    BY <2>2, PlainCalls
  <2> HIDE DEF d
  <2>4. client' = Api(d, call)
    BY <1>5 DEF Ask, d
  <2>5. ClientSound(client') /\ client'.sequence = client.sequence
    BY <2>1, <2>3, <2>4, ApiSound
  <2> QED BY <1>5, <2>5, QuietKeeps DEF Ask
<1>6. ASSUME NEW call \in client.waiting, Wait(call)
      PROVE  ClientInv'
  <2>1. ClientSound(client') /\ client'.sequence = client.sequence
    BY <1>0, <1>6, AcquireSound, GiveUpSound DEF Wait
  <2> QED BY <1>6, <2>1, QuietKeeps DEF Wait
<1>7. CASE Serve
  <2>1. client.request # Nothing /\ CallSound(client.request, n) /\ client.request \in Calls
    BY <1>0, <1>7, <1>n DEF Serve, ClientSound, CallSound
  <2>2. PICK call : call = client.request
    OBVIOUS
  <2>3. Accepts(call) \/ UNCHANGED <<worldVars, origin>>
    BY <1>7, <2>2 DEF Serve, Refuses
  <2>4. /\ HistorySound(n)'
        /\ \A other : CallSound(other, n) => CallSound(other, n)'
        /\ \A d : ClientSound(d) => ClientSound(d)'
    <3>1. CallSound(call, n)
      BY <2>1, <2>2
    <3>2. CASE Accepts(call)
      BY <1>m, <3>1, <3>2, AcceptsKeeps
    <3>3. CASE UNCHANGED <<worldVars, origin>>
      BY <1>m, <3>3, RestKeeps
    <3> QED BY <2>3, <3>2, <3>3
  <2>5. HEAD \in Views
    <3>1. active \in Branches /\ tips[active] \in 1 .. Len(log) + 1
      BY <1>0 DEF HistorySound, WorldSound
    <3> QED BY <3>1 DEF HEAD, View, Views, Given
  <2>6. PICK h : h = HEAD
    OBVIOUS
  <2>7. client' \in {[c EXCEPT !.stage = "ok", !.reply = h], [c EXCEPT !.stage = "ok"],
                     [c EXCEPT !.stage = "error"]}
    <3>1. \/ client' = [client EXCEPT !.stage = "ok", !.reply =
                          IF client.request.kind = "snapshot" THEN HEAD ELSE client.reply]
          \/ client' = [client EXCEPT !.stage = "error"]
      BY <1>7 DEF Serve
    <3>2. client.reply = c.reply /\ c \in ClientRecords
      BY <1>0, <1>c
    <3>3. [c EXCEPT !.stage = "ok", !.reply = c.reply] = [c EXCEPT !.stage = "ok"]
      BY <3>2 DEF ClientRecords
    <3> QED BY <1>c, <2>6, <3>1, <3>2, <3>3
  <2>8. /\ ClientSound([c EXCEPT !.stage = "ok", !.reply = h])
        /\ ClientSound([c EXCEPT !.stage = "ok"])
        /\ ClientSound([c EXCEPT !.stage = "error"])
    BY <1>m, <1>c, <2>1, <2>5, <2>6 DEF ClientSound, ClientRecords
  <2>9. ClientSound(client') /\ client'.sequence = client.sequence
    BY <1>m, <1>c, <2>7, <2>8 DEF ClientSound, ClientRecords
  <2>10. ClientSound(client)'
    <3>1. PICK d : d = client'
      OBVIOUS
    <3>2. ClientSound(d)'
      BY <2>4, <2>9, <3>1
    <3> QED BY <3>1, <3>2 DEF ClientSound
  <2> QED BY <1>0, <1>7, <1>m, <1>n, <2>4, <2>9, <2>10, CoreKeeps DEF Serve
<1>8. CASE Fail
  <2>1. client.request # Nothing /\ CallSound(client.request, n)
    BY <1>0, <1>8, <1>n DEF Fail, ClientSound
  <2>2. client' = [client EXCEPT !.stage = "error"]
        /\ UNCHANGED <<worldVars, origin>> /\ others' = others
        /\ late' \subseteq late \cup {client.request}
    BY <1>8 DEF Fail
  <2>3. ClientSound(client') /\ client'.sequence = client.sequence
    BY <1>0, <2>1, <2>2 DEF ClientSound, ClientRecords
  <2>4. /\ HistorySound(n)'
        /\ \A other : CallSound(other, n) => CallSound(other, n)'
        /\ \A d : ClientSound(d) => ClientSound(d)'
    BY <1>m, <2>2, RestKeeps
  <2>5. ClientSound(client)'
    <3>1. PICK d : d = client'
      OBVIOUS
    <3>2. ClientSound(d)'
      BY <2>3, <2>4, <3>1
    <3> QED BY <3>1, <3>2 DEF ClientSound
  <2>6. \A call \in late' : CallSound(call, n)
    BY <1>m, <2>1, <2>2
  <2> QED BY <1>0, <1>m, <1>n, <2>2, <2>3, <2>4, <2>5, <2>6, CoreKeeps
<1>9. ASSUME NEW call \in late, ServeLate(call)
      PROVE  ClientInv'
  <2>1. /\ HistorySound(n)'
        /\ \A other : CallSound(other, n) => CallSound(other, n)'
        /\ \A d : ClientSound(d) => ClientSound(d)'
    BY <1>9, <1>m, AcceptsKeeps DEF ServeLate
  <2>2. client' = client /\ late' \subseteq late /\ others' = others
    BY <1>9 DEF ServeLate
  <2>3. ClientSound(client)'
    <3>1. ClientSound(c)'
      BY <1>m, <2>1
    <3> QED BY <1>c, <2>2, <3>1 DEF ClientSound
  <2> QED BY <1>0, <1>m, <1>n, <2>1, <2>2, <2>3, CoreKeeps
<1>10. CASE Elsewhere
  <2>1. /\ HistorySound(n)'
        /\ \A other : CallSound(other, n) => CallSound(other, n)'
        /\ \A d : ClientSound(d) => ClientSound(d)'
    <3>0. WorldSound
      BY <1>m DEF HistorySound
    <3>1. CASE Extend(Fresh) /\ Noted(Nobody)
      <4> DEFINE e == Entry(active, tips[active], Fresh)
      <4>1. Grows(e, Nobody)
        BY <3>0, <3>1, ExtendGrows DEF Noted
      <4>2. Placed(e, Nobody, n)
        BY DEF Placed
      <4> QED BY <1>m, <4>1, <4>2, GrowthKeeps
    <3>2. ASSUME NEW b \in Branches, Switch(b), UNCHANGED origin
          PROVE  /\ HistorySound(n)'
                 /\ \A other : CallSound(other, n) => CallSound(other, n)'
                 /\ \A d : ClientSound(d) => ClientSound(d)'
      BY <1>m, <3>2, SwitchKeeps
    <3>3. ASSUME NEW b \in Branches, Fork(b, Fresh), Noted(Nobody)
          PROVE  /\ HistorySound(n)'
                 /\ \A other : CallSound(other, n) => CallSound(other, n)'
                 /\ \A d : ClientSound(d) => ClientSound(d)'
      <4> DEFINE e == Entry(b, tips[active], Fresh)
      <4>1. Grows(e, Nobody)
        BY <3>0, <3>3, ForkGrows DEF Noted
      <4>2. Placed(e, Nobody, n)
        BY DEF Placed
      <4> QED BY <1>m, <4>1, <4>2, GrowthKeeps
    <3> QED BY <1>10, <3>1, <3>2, <3>3 DEF Elsewhere
  <2>2. client' = client /\ late' = late /\ others' \in 0 .. MaxOthers
    BY <1>0, <1>10 DEF Elsewhere, BoundsAssumption
  <2>3. ClientSound(client)'
    <3>1. ClientSound(c)'
      BY <1>m, <2>1
    <3> QED BY <1>c, <2>2, <3>1 DEF ClientSound
  <2> QED BY <1>0, <1>m, <1>n, <2>1, <2>2, <2>3, CoreKeeps
<1>11. CASE UNCHANGED vars
  <2>1. Outside /\ client' = client
    BY <1>11 DEF vars, Outside
  <2> QED BY <1>0, <2>1, QuietKeeps
<1> QED BY <1>1, <1>2, <1>3, <1>4, <1>5, <1>6, <1>7, <1>8, <1>9, <1>10, <1>11 DEF Next

(* The invariant holds of every behaviour. *)
THEOREM ClientInvariance == Spec => []ClientInv
<1>1. Init => ClientInv
  BY InitSound, BoundsAssumption
<1>2. ClientInv /\ [Next]_vars => ClientInv'
  BY StepSound, BoundsAssumption
<1> QED BY <1>1, <1>2, PTL DEF Spec

(* What the client shows is a preview or a state of the history.           *)
LEMMA GivenIsKnown ==
  ASSUME WorldSound
  PROVE  Given \subseteq {Preview} \cup Known
<1> SUFFICES ASSUME NEW k \in 1 .. Len(log) + 1, k # 1
             PROVE  k \in Known
  BY DEF Given, Known
<1>1. Len(log) \in Nat
  BY DEF WorldSound
<1>2. k - 1 \in 1 .. Len(log) /\ log[k - 1].result = k
  BY <1>1 DEF WorldSound
<1> QED BY <1>2 DEF Known

(* surface_bridge.gd: whatever is answered, given up or made locally, the  *)
(* client's request, its waiting calls and its view stay well formed, and  *)
(* the view never names a state that the core does not have.               *)
THEOREM ClientTypeCorrectness == Spec => []ClientTypeOK
<1>1. ASSUME ClientInv
      PROVE  ClientTypeOK
  <2>1. Views \subseteq [branch : Branches, state : {Preview, Genesis} \cup Known]
    BY <1>1, GivenIsKnown DEF ClientInv, HistorySound, Views
  <2>2. late \subseteq Calls
    BY <1>1 DEF ClientInv, LateSound, CallSound
  <2>3. client \in ClientRecords /\ (client.stage = "none" <=> client.request = Nothing)
        /\ others \in 0 .. MaxOthers
    BY <1>1 DEF ClientInv, ClientSound
  <2> QED BY <2>1, <2>2, <2>3 DEF ClientTypeOK, ClientRecords
<1> QED BY <1>1, ClientInvariance, PTL

(* engine.py, _validate_packet_parent: in any number of interactions, with *)
(* any calls lost, late or refused, each is committed on the state the     *)
(* user saw, and none that was captured on a preview is.                   *)
THEOREM CommitsAreAsSeen == Spec => []CommittedAsSeen
<1>1. ClientInv => CommittedAsSeen
  BY DEF ClientInv, HistorySound
<1> QED BY <1>1, ClientInvariance, PTL

(* interaction_capture.gd, _emit_packet: waiting calls overtake each other *)
(* and calls given up arrive later, but the user's events on a branch are  *)
(* in the order they were made in, each once.                              *)
THEOREM UserOrderIsKept == Spec => []EventsInUserOrder
<1>1. ClientInv => EventsInUserOrder
  BY DEF ClientInv, HistorySound
<1> QED BY <1>1, ClientInvariance, PTL
=============================================================================
