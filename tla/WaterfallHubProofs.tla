------------------------- MODULE WaterfallHubProofs -------------------------
(***************************************************************************)
(* For all clients, receivers, shards, levels and queue capacities: maps,  *)
(* parameters, settings and frames of the waterfall clients agree, however *)
(* handlers, send tasks and send_waterfall interleave.                     *)
(***************************************************************************)
EXTENDS WaterfallHub, SequenceTheorems, TLAPS

USE HubAssumption

(***************************************************************************)
(* The inductive invariant.                                                *)
(***************************************************************************)

Alive(c) == sender[c] \in {"poll", "take"}

\* The settings the client was sent or will be sent last.
Announced(c) == IF out[c] = <<>> THEN shown[c] ELSE out[c][Len(out[c])]

\* The type invariant in parts.
RegistryTypes == registered \subseteq Clients \X Receivers \X AllLevels
HandlerTypes ==
  /\ pc \in [Clients -> HandlerPC]
  /\ home \in [Clients -> Receivers] /\ target \in [Clients -> Receivers]
  /\ level \in [Clients -> AllLevels] /\ newLevel \in [Clients -> AllLevels]
QueueTypes ==
  /\ rx \in [Clients -> Seq(Item)] /\ out \in [Clients -> Seq(Receivers)]
  /\ \A c \in Clients : Len(rx[c]) <= QueueCap /\ Len(out[c]) <= OutCap
SenderTypes ==
  /\ sender \in [Clients -> {"none", "poll", "take", "dead"}]
  /\ shown \in [Clients -> Receivers \cup {None}]
  /\ wire \in [Clients -> Receivers \cup {None}]
DspTypes == dsp \in [Receivers -> DspState]

Types == RegistryTypes /\ HandlerTypes /\ QueueTypes /\ SenderTypes /\ DspTypes

\* Where the handler of c will find it: in the map of the level it has, in the
\* one it has just moved it to, or in none.
PlacedAt(c) ==
  /\ pc[c] \in {"ready", "winRemove", "swRemove"} => <<c, home[c], level[c]>> \in registered
  /\ pc[c] = "winSet" => <<c, home[c], newLevel[c]>> \in registered
  /\ \A r \in Receivers, l \in AllLevels : <<c, r, l>> \in registered =>
       /\ r = home[c]
       /\ \/ pc[c] \in {"ready", "winRemove", "swRemove", "leave"} /\ l = level[c]
          \/ pc[c] = "winSet" /\ l = newLevel[c]
Placed == \A c \in Clients : PlacedAt(c)

\* The levels a handler works with are levels of the receiver it uses them on.
LevelFits(c) ==
  /\ pc[c] \notin {"swInsert", "leave"} => level[c] \in 0..(Levels[home[c]] - 1)
  /\ pc[c] = "swInsert" => level[c] = InitialLevel(target[c])
  /\ pc[c] = "leave" /\ <<c, home[c], level[c]>> \in registered => level[c] < Levels[home[c]]
  /\ pc[c] \in {"winRemove", "winInsert", "winSet"} => newLevel[c] \in 0..(Levels[home[c]] - 1)
LevelsFit == \A c \in Clients : LevelFits(c)

\* What a closed handler leaves for the next connection.
FreshAt(c) ==
  /\ sender[c] = "none" <=> pc[c] = "closed"
  /\ pc[c] = "closed" =>
       home[c] = Active /\ out[c] = <<>> /\ rx[c] = <<>> /\ wire[c] = None
Fresh == \A c \in Clients : FreshAt(c)

\* Settings are announced before the client enters the map of their receiver.
SettingsFirstAt(c) == Alive(c) =>
  Announced(c) = IF pc[c] = "swInsert" THEN target[c] ELSE home[c]
SettingsFirst == \A c \in Clients : SettingsFirstAt(c)

\* Frames that may be sent next are those of the settings that were sent.
FramesFollowAt(c) ==
  /\ Alive(c) /\ out[c] = <<>> => \A i \in DOMAIN rx[c] : rx[c][i].rcv = shown[c]
  /\ sender[c] = "take" => rx[c] # <<>> /\ Head(rx[c]).rcv = shown[c]
FramesFollow == \A c \in Clients : FramesFollowAt(c)

\* While send_waterfall is in a shard its clients stay in the map, and the
\* frame it has made for one of them is for that map.
HeldBy(r) ==
  /\ dsp[r].pc # "idle" => \A c \in dsp[r].todo \cup dsp[r].cur :
       <<c, r, dsp[r].level>> \in registered /\ ShardOf[c] = dsp[r].shard
  /\ dsp[r].pc = "post" => \A i \in dsp[r].item :
       i.rcv = r /\ i.level = dsp[r].level /\ i.data = dsp[r].level
Held == \A r \in Receivers : HeldBy(r)

IInv ==
  /\ Types /\ Placed /\ LevelsFit /\ Fresh /\ SettingsFirst
  /\ FramesFollow /\ FrameMatchesSettings /\ LevelMatchesData /\ Held
-----------------------------------------------------------------------------
\* What is a level, and of which receiver.
LEMMA LevelTypes ==
  /\ AllLevels \subseteq Nat /\ 0 \in AllLevels
  /\ \A r \in Receivers : /\ Levels[r] \in Nat \ {0}
                          /\ 0..(Levels[r] - 1) \subseteq AllLevels
                          /\ InitialLevel(r) \in 0..(Levels[r] - 1)
  BY DEF AllLevels, InitialLevel

\* The last element of an extended sequence.
LEMMA LastOfAppend ==
  ASSUME NEW S, NEW q \in Seq(S), NEW e \in S
  PROVE  Append(q, e) # <<>> /\ Append(q, e)[Len(Append(q, e))] = e
  BY AppendProperties

\* What an extended sequence holds, and where it starts.
LEMMA EntriesOfAppend ==
  ASSUME NEW S, NEW q \in Seq(S), NEW e \in S
  PROVE  /\ Append(q, e) # <<>>
         /\ Head(Append(q, e)) = IF q = <<>> THEN e ELSE Head(q)
         /\ \A j \in DOMAIN Append(q, e) :
              Append(q, e)[j] = e \/ (j \in DOMAIN q /\ Append(q, e)[j] = q[j])
<1>1. /\ Append(q, e) \in Seq(S) /\ Append(q, e) # <<>>
      /\ Len(Append(q, e)) = Len(q) + 1 /\ Append(q, e)[Len(q) + 1] = e
      /\ \A j \in 1..Len(q) : Append(q, e)[j] = q[j]
  BY AppendProperties
<1>2. Len(q) \in Nat /\ DOMAIN q = 1..Len(q) /\ DOMAIN Append(q, e) = 1..(Len(q) + 1)
  BY <1>1, LenProperties
<1>3. Head(Append(q, e)) = IF q = <<>> THEN e ELSE Head(q)
  BY HeadTailAppend
<1>4. ASSUME NEW j \in DOMAIN Append(q, e)
      PROVE  Append(q, e)[j] = e \/ (j \in DOMAIN q /\ Append(q, e)[j] = q[j])
  BY <1>1, <1>2
<1>5. QED
  BY <1>1, <1>3, <1>4

\* The last element survives the removal of the first, unless it is the first.
LEMMA LastOfTail ==
  ASSUME NEW S, NEW q \in Seq(S), q # <<>>
  PROVE  IF Tail(q) = <<>> THEN Head(q) = q[Len(q)]
                           ELSE Tail(q)[Len(Tail(q))] = q[Len(q)]
<1> DEFINE t == Tail(q)
<1>1. /\ t \in Seq(S) /\ Len(t) = Len(q) - 1
      /\ \A i \in 1..Len(t) : t[i] = q[i + 1]
  BY HeadTailProperties
<1>2. Len(q) \in Nat \ {0} /\ (t # <<>> => Len(t) \in Nat \ {0})
  BY <1>1, EmptySeq
<1> HIDE DEF t
<1>3. CASE t = <<>>
  <2>1. Len(q) = 1
    BY <1>1, <1>2, <1>3
  <2>2. QED
    BY <1>3, <2>1 DEF t
<1>4. CASE t # <<>>
  <2>1. t[Len(t)] = q[Len(q)]
    BY <1>1, <1>2, <1>4
  <2>2. QED
    BY <1>4, <2>1 DEF t
<1>5. QED
  BY <1>3, <1>4

\* Between two shards send_waterfall remembers nothing.
LEMMA IdleType == Idle \in DspState
  BY LevelTypes DEF Idle, DspState

\* send_waterfall queues a frame of its level for a client in its map.
LEMMA Posted ==
  ASSUME DspTypes, QueueTypes, Held, NEW r \in Running, DspPost(r)
  PROVE  \E c \in Clients, i \in Item :
           /\ i.rcv = r /\ i.level = i.data /\ <<c, r, i.data>> \in registered
           /\ \/ rx' = rx
              \/ /\ Alive(c) /\ Len(rx[c]) < QueueCap
                 /\ rx' = [rx EXCEPT ![c] = Append(rx[c], i)]
<1>1. PICK c \in dsp[r].cur, i \in dsp[r].item :
        rx' = IF sender[c] \in {"poll", "take"} /\ Len(rx[c]) < QueueCap
                THEN [rx EXCEPT ![c] = Append(@, i)] ELSE rx
  BY DEF DspPost
<1>2. dsp[r] \in DspState /\ r \in Receivers /\ dsp[r].pc = "post"
  BY DEF DspPost, DspTypes
<1>3. c \in Clients /\ i \in Item
  BY <1>2 DEF DspState
<1>4. /\ <<c, r, dsp[r].level>> \in registered
      /\ i.rcv = r /\ i.level = dsp[r].level /\ i.data = dsp[r].level
  BY <1>2 DEF Held, HeldBy
<1>5. QED
  BY <1>1, <1>3, <1>4 DEF Alive, QueueTypes

\* The parts hold at first: no client is connected.
LEMMA InitInvariant == Init => IInv
<1> SUFFICES ASSUME Init PROVE IInv
  OBVIOUS
<1> USE DEF Init
<1>1. Types
  BY LevelTypes, IdleType, EmptySeq
  DEF Types, RegistryTypes, HandlerTypes, HandlerPC, QueueTypes, SenderTypes, DspTypes
<1>2. Placed /\ LevelsFit
  BY LevelTypes DEF Placed, PlacedAt, LevelsFit, LevelFits
<1>3. Fresh /\ SettingsFirst /\ FramesFollow
  BY DEF Fresh, FreshAt, SettingsFirst, SettingsFirstAt, FramesFollow, FramesFollowAt, Alive
<1>4. FrameMatchesSettings /\ LevelMatchesData /\ Held
  BY DEF FrameMatchesSettings, LevelMatchesData, Held, HeldBy, Idle
<1>5. QED
  BY <1>1, <1>2, <1>3, <1>4 DEF IInv

\* The registry keeps its type.
LEMMA RegistryTypesStep ==
  ASSUME RegistryTypes, HandlerTypes, [Next]_vars
  PROVE  RegistryTypes'
<1> USE DEF RegistryTypes, HandlerTypes, Goto, clientVars, sendVars
<1>1. ASSUME NEW c \in Clients,
             Connect(c) \/ Insert(c) \/ Leave(c) \/ LeaveRemove(c) \/ WindowLock(c) \/
                WindowRemove(c) \/ WindowInsert(c) \/ WindowSet(c) \/ SwitchRemove(c) \/
                SwitchSend(c) \/ SwitchSendFails(c) \/ SwitchInsert(c) \/
                SendSettings(c) \/ PollFrames(c) \/ SendFrame(c) \/ SenderDies(c)
      PROVE  RegistryTypes'
  BY <1>1 DEF Connect, Insert, Leave, LeaveRemove, WindowLock, WindowRemove,
     WindowInsert, WindowSet, SwitchRemove, SwitchSend, SwitchSendFails, SwitchInsert,
     SendSettings, PollFrames, SendFrame, SenderDies
<1>2. ASSUME NEW c \in Clients, NEW r \in Receivers, Switch(c, r)
      PROVE  RegistryTypes'
  BY <1>2 DEF Switch
<1>3. ASSUME NEW r \in Running,
             DspEnter(r) \/ DspNext(r) \/ DspRead(r) \/ DspPost(r) \/ DspLeave(r)
      PROVE  RegistryTypes'
  BY <1>3 DEF DspEnter, DspNext, DspRead, DspPost, DspLeave
<1>4. CASE UNCHANGED vars
  BY <1>4 DEF vars, clientVars, sendVars
<1>5. QED
  BY <1>1, <1>2, <1>3, <1>4 DEF Next, Handler, SendTask, SendWaterfall

\* The handlers keep their types.
LEMMA HandlerTypesStep ==
  ASSUME HandlerTypes, [Next]_vars
  PROVE  HandlerTypes'
<1> USE DEF HandlerTypes, HandlerPC, Goto, clientVars, sendVars
<1>1. ASSUME NEW c \in Clients, LeaveRemove(c)
      PROVE  HandlerTypes'
  BY LevelTypes, <1>1 DEF LeaveRemove
<1>2. ASSUME NEW c \in Clients, WindowLock(c)
      PROVE  HandlerTypes'
  BY LevelTypes, <1>2 DEF WindowLock
<1>3. ASSUME NEW c \in Clients, SwitchSend(c)
      PROVE  HandlerTypes'
  BY LevelTypes, <1>3 DEF SwitchSend
<1>4. ASSUME NEW c \in Clients, SwitchSendFails(c)
      PROVE  HandlerTypes'
  BY LevelTypes, <1>4 DEF SwitchSendFails
<1>5. ASSUME NEW c \in Clients,
             Connect(c) \/ Insert(c) \/ Leave(c) \/ WindowRemove(c) \/ WindowInsert(c)
                \/ WindowSet(c) \/ SwitchRemove(c) \/ SwitchInsert(c) \/ SendSettings(c)
                \/ PollFrames(c) \/ SendFrame(c) \/ SenderDies(c)
      PROVE  HandlerTypes'
  BY <1>5 DEF Connect, Insert, Leave, WindowRemove, WindowInsert, WindowSet,
     SwitchRemove, SwitchInsert, SendSettings, PollFrames, SendFrame, SenderDies
<1>6. ASSUME NEW c \in Clients, NEW r \in Receivers, Switch(c, r)
      PROVE  HandlerTypes'
  BY <1>6 DEF Switch
<1>7. ASSUME NEW r \in Running,
             DspEnter(r) \/ DspNext(r) \/ DspRead(r) \/ DspPost(r) \/ DspLeave(r)
      PROVE  HandlerTypes'
  BY <1>7 DEF DspEnter, DspNext, DspRead, DspPost, DspLeave
<1>8. CASE UNCHANGED vars
  BY <1>8 DEF vars, clientVars, sendVars
<1>9. QED
  BY <1>1, <1>2, <1>3, <1>4, <1>5, <1>6, <1>7, <1>8 DEF Next, Handler, SendTask,
     SendWaterfall

\* The queues keep their types and stay within their capacities.
LEMMA QueueTypesStep ==
  ASSUME QueueTypes, HandlerTypes, DspTypes, FramesFollow, [Next]_vars
  PROVE  QueueTypes'
<1> USE DEF QueueTypes, Goto, clientVars, sendVars
<1>1. ASSUME NEW c \in Clients, Connect(c)
      PROVE  QueueTypes'
  BY EmptySeq, AppendProperties, <1>1 DEF Connect
<1>2. ASSUME NEW c \in Clients, LeaveRemove(c)
      PROVE  QueueTypes'
  BY EmptySeq, <1>2 DEF LeaveRemove
<1>3. ASSUME NEW c \in Clients, SwitchSend(c)
      PROVE  QueueTypes'
  BY AppendProperties, <1>3 DEF SwitchSend, HandlerTypes
<1>4. ASSUME NEW c \in Clients, SendSettings(c)
      PROVE  QueueTypes'
  BY EmptySeq, HeadTailProperties, <1>4 DEF SendSettings
<1>5. ASSUME NEW c \in Clients, SendFrame(c)
      PROVE  QueueTypes'
  BY HeadTailProperties, <1>5 DEF SendFrame, FramesFollow, FramesFollowAt
<1>6. ASSUME NEW c \in Clients, SenderDies(c)
      PROVE  QueueTypes'
  BY EmptySeq, <1>6 DEF SenderDies
<1>7. ASSUME NEW r \in Running, DspPost(r)
      PROVE  QueueTypes'
  BY AppendProperties, <1>7 DEF DspPost, DspTypes, DspState
<1>8. ASSUME NEW c \in Clients,
             Insert(c) \/ Leave(c) \/ WindowLock(c) \/ WindowRemove(c) \/
                WindowInsert(c) \/ WindowSet(c) \/ SwitchRemove(c) \/ SwitchSendFails(c)
                \/ SwitchInsert(c) \/ PollFrames(c)
      PROVE  QueueTypes'
  BY <1>8 DEF Insert, Leave, WindowLock, WindowRemove, WindowInsert, WindowSet,
     SwitchRemove, SwitchSendFails, SwitchInsert, PollFrames
<1>9. ASSUME NEW c \in Clients, NEW r \in Receivers, Switch(c, r)
      PROVE  QueueTypes'
  BY <1>9 DEF Switch
<1>10. ASSUME NEW r \in Running, DspEnter(r) \/ DspNext(r) \/ DspRead(r) \/ DspLeave(r)
      PROVE  QueueTypes'
  BY <1>10 DEF DspEnter, DspNext, DspRead, DspLeave
<1>11. CASE UNCHANGED vars
  BY <1>11 DEF vars, clientVars, sendVars
<1>12. QED
  BY <1>1, <1>2, <1>3, <1>4, <1>5, <1>6, <1>7, <1>8, <1>9, <1>10, <1>11 DEF Next,
     Handler, SendTask, SendWaterfall

\* The send tasks keep their types.
LEMMA SenderTypesStep ==
  ASSUME SenderTypes, QueueTypes, FramesFollow, [Next]_vars
  PROVE  SenderTypes'
<1> USE DEF SenderTypes, Goto, clientVars, sendVars
<1>1. ASSUME NEW c \in Clients, SendSettings(c)
      PROVE  SenderTypes'
  BY HeadTailProperties, <1>1 DEF SendSettings, QueueTypes
<1>2. ASSUME NEW c \in Clients, SendFrame(c)
      PROVE  SenderTypes'
  BY HeadTailProperties, <1>2 DEF SendFrame, FramesFollow, FramesFollowAt, QueueTypes,
     Item
<1>3. ASSUME NEW c \in Clients,
             Connect(c) \/ Insert(c) \/ Leave(c) \/ LeaveRemove(c) \/ WindowLock(c) \/
                WindowRemove(c) \/ WindowInsert(c) \/ WindowSet(c) \/ SwitchRemove(c) \/
                SwitchSend(c) \/ SwitchSendFails(c) \/ SwitchInsert(c) \/ PollFrames(c)
                \/ SenderDies(c)
      PROVE  SenderTypes'
  BY <1>3 DEF Connect, Insert, Leave, LeaveRemove, WindowLock, WindowRemove,
     WindowInsert, WindowSet, SwitchRemove, SwitchSend, SwitchSendFails, SwitchInsert,
     PollFrames, SenderDies
<1>4. ASSUME NEW c \in Clients, NEW r \in Receivers, Switch(c, r)
      PROVE  SenderTypes'
  BY <1>4 DEF Switch
<1>5. ASSUME NEW r \in Running,
             DspEnter(r) \/ DspNext(r) \/ DspRead(r) \/ DspPost(r) \/ DspLeave(r)
      PROVE  SenderTypes'
  BY <1>5 DEF DspEnter, DspNext, DspRead, DspPost, DspLeave
<1>6. CASE UNCHANGED vars
  BY <1>6 DEF vars, clientVars, sendVars
<1>7. QED
  BY <1>1, <1>2, <1>3, <1>4, <1>5, <1>6 DEF Next, Handler, SendTask, SendWaterfall

\* send_waterfall keeps its types.
LEMMA DspTypesStep ==
  ASSUME DspTypes, HandlerTypes, [Next]_vars
  PROVE  DspTypes'
<1> USE DEF DspTypes, Goto, clientVars, sendVars
<1>1. ASSUME NEW r \in Running, DspEnter(r)
      PROVE  DspTypes'
  <2>1. PICK l \in 0..(Levels[r] - 1), t \in Shards :
          dsp' = [dsp EXCEPT ![r] = [Idle EXCEPT !.pc = "visit", !.level = l,
                                       !.shard = t, !.todo = InShard(r, l, t)]]
    BY <1>1 DEF DspEnter
  <2>2. l \in AllLevels /\ InShard(r, l, t) \subseteq Clients
    BY LevelTypes DEF InShard
  <2>3. [Idle EXCEPT !.pc = "visit", !.level = l,
                     !.shard = t, !.todo = InShard(r, l, t)] \in DspState
    BY <2>2 DEF DspState, Idle
  <2>4. QED
    BY <2>1, <2>3
<1>2. ASSUME NEW r \in Running, DspNext(r)
      PROVE  DspTypes'
  BY <1>2 DEF DspNext, DspState
<1>3. ASSUME NEW r \in Running, DspRead(r)
      PROVE  DspTypes'
  <2>1. PICK c \in dsp[r].cur :
           \/ dsp' = [dsp EXCEPT ![r].pc = "post",
                 ![r].item = {[rcv |-> r, level |-> level[c], data |-> dsp[r].level]}]
           \/ dsp' = [dsp EXCEPT ![r].pc = "visit", ![r].cur = {}]
    BY <1>3 DEF DspRead
  <2>2. dsp[r] \in DspState /\ c \in Clients
    BY DEF DspState
  <2>3. [rcv |-> r, level |-> level[c], data |-> dsp[r].level] \in Item
    BY <2>2 DEF Item, DspState, HandlerTypes
  <2>4. QED
    BY <2>1, <2>2, <2>3 DEF DspState
<1>4. ASSUME NEW r \in Running, DspPost(r)
      PROVE  DspTypes'
  BY <1>4 DEF DspPost, DspState
<1>5. ASSUME NEW r \in Running, DspLeave(r)
      PROVE  DspTypes'
  BY IdleType, <1>5 DEF DspLeave
<1>6. ASSUME NEW c \in Clients,
             Connect(c) \/ Insert(c) \/ Leave(c) \/ LeaveRemove(c) \/ WindowLock(c) \/
                WindowRemove(c) \/ WindowInsert(c) \/ WindowSet(c) \/ SwitchRemove(c) \/
                SwitchSend(c) \/ SwitchSendFails(c) \/ SwitchInsert(c) \/
                SendSettings(c) \/ PollFrames(c) \/ SendFrame(c) \/ SenderDies(c)
      PROVE  DspTypes'
  BY <1>6 DEF Connect, Insert, Leave, LeaveRemove, WindowLock, WindowRemove,
     WindowInsert, WindowSet, SwitchRemove, SwitchSend, SwitchSendFails, SwitchInsert,
     SendSettings, PollFrames, SendFrame, SenderDies
<1>7. ASSUME NEW c \in Clients, NEW r \in Receivers, Switch(c, r)
      PROVE  DspTypes'
  BY <1>7 DEF Switch
<1>8. CASE UNCHANGED vars
  BY <1>8 DEF vars, clientVars, sendVars
<1>9. QED
  BY <1>1, <1>2, <1>3, <1>4, <1>5, <1>6, <1>7, <1>8 DEF Next, Handler, SendTask,
     SendWaterfall

\* A handler knows the map its client is in.
LEMMA PlacedStep ==
  ASSUME RegistryTypes, HandlerTypes, Placed, LevelsFit, [Next]_vars, NEW d \in Clients
  PROVE  PlacedAt(d)'
<1> USE DEF RegistryTypes, HandlerTypes, Placed, PlacedAt, Goto, clientVars, sendVars
<1>1. ASSUME NEW c \in Clients, Connect(c)
      PROVE  PlacedAt(d)'
  BY <1>1 DEF Connect
<1>2. ASSUME NEW c \in Clients, Insert(c)
      PROVE  PlacedAt(d)'
  BY <1>2 DEF Insert
<1>3. ASSUME NEW c \in Clients, Leave(c)
      PROVE  PlacedAt(d)'
  BY <1>3 DEF Leave
<1>4. ASSUME NEW c \in Clients, LeaveRemove(c)
      PROVE  PlacedAt(d)'
  <2>1. CASE d # c
    BY <1>4, <2>1 DEF LeaveRemove
  <2>2. CASE d = c
    <3>1. pc'[c] = "closed"
      BY <1>4 DEF LeaveRemove
    <3>2. <<c, home[c], level[c]>> \notin registered'
      BY <1>4, LevelTypes DEF LeaveRemove, LevelsFit, LevelFits
    <3>3. registered' \subseteq registered /\ pc[c] = "leave"
      BY <1>4 DEF LeaveRemove
    <3>4. \A r \in Receivers, l \in AllLevels : <<c, r, l>> \in registered' =>
            r = home[c] /\ l = level[c]
      BY <3>3
    <3>5. QED
      BY <2>2, <3>1, <3>2, <3>4
  <2>3. QED
    BY <2>1, <2>2
<1>5. ASSUME NEW c \in Clients, WindowLock(c)
      PROVE  PlacedAt(d)'
  BY <1>5 DEF WindowLock
<1>6. ASSUME NEW c \in Clients, WindowRemove(c)
      PROVE  PlacedAt(d)'
  BY <1>6 DEF WindowRemove
<1>7. ASSUME NEW c \in Clients, WindowInsert(c)
      PROVE  PlacedAt(d)'
  BY <1>7 DEF WindowInsert
<1>8. ASSUME NEW c \in Clients, WindowSet(c)
      PROVE  PlacedAt(d)'
  BY <1>8 DEF WindowSet
<1>9. ASSUME NEW c \in Clients, NEW r \in Receivers, Switch(c, r)
      PROVE  PlacedAt(d)'
  BY <1>9 DEF Switch
<1>10. ASSUME NEW c \in Clients, SwitchRemove(c)
      PROVE  PlacedAt(d)'
  BY <1>10 DEF SwitchRemove
<1>11. ASSUME NEW c \in Clients, SwitchSend(c)
      PROVE  PlacedAt(d)'
  BY <1>11 DEF SwitchSend
<1>12. ASSUME NEW c \in Clients, SwitchSendFails(c)
      PROVE  PlacedAt(d)'
  BY <1>12 DEF SwitchSendFails
<1>13. ASSUME NEW c \in Clients, SwitchInsert(c)
      PROVE  PlacedAt(d)'
  BY LevelTypes, <1>13 DEF SwitchInsert, LevelsFit, LevelFits
<1>14. ASSUME NEW c \in Clients,
             SendSettings(c) \/ PollFrames(c) \/ SendFrame(c) \/ SenderDies(c)
      PROVE  PlacedAt(d)'
  BY <1>14 DEF SendSettings, PollFrames, SendFrame, SenderDies
<1>15. ASSUME NEW r \in Running,
             DspEnter(r) \/ DspNext(r) \/ DspRead(r) \/ DspPost(r) \/ DspLeave(r)
      PROVE  PlacedAt(d)'
  BY <1>15 DEF DspEnter, DspNext, DspRead, DspPost, DspLeave
<1>16. CASE UNCHANGED vars
  BY <1>16 DEF vars, clientVars, sendVars
<1>17. QED
  BY <1>1, <1>2, <1>3, <1>4, <1>5, <1>6, <1>7, <1>8, <1>9, <1>10, <1>11, <1>12, <1>13,
     <1>14, <1>15, <1>16 DEF Next, Handler, SendTask, SendWaterfall

\* A handler indexes a map its receiver has.
LEMMA LevelsFitStep ==
  ASSUME RegistryTypes, HandlerTypes, Placed, LevelsFit, [Next]_vars, NEW d \in Clients
  PROVE  LevelFits(d)'
<1> USE DEF RegistryTypes, HandlerTypes, LevelsFit, LevelFits, Goto, clientVars,
   sendVars
<1>1. ASSUME NEW c \in Clients, Connect(c)
      PROVE  LevelFits(d)'
  BY LevelTypes, <1>1 DEF Connect, Placed, PlacedAt
<1>2. ASSUME NEW c \in Clients, Insert(c)
      PROVE  LevelFits(d)'
  <2>1. CASE d # c
    BY <1>2, <2>1 DEF Insert
  <2>2. CASE d = c
    BY <1>2, <2>2, LevelTypes DEF Insert, HandlerPC
  <2>3. QED
    BY <2>1, <2>2
<1>3. ASSUME NEW c \in Clients, Leave(c)
      PROVE  LevelFits(d)'
  BY LevelTypes, <1>3 DEF Leave, Placed, PlacedAt
<1>4. ASSUME NEW c \in Clients, LeaveRemove(c)
      PROVE  LevelFits(d)'
  BY LevelTypes, <1>4 DEF LeaveRemove, Placed, PlacedAt
<1>5. ASSUME NEW c \in Clients, WindowLock(c)
      PROVE  LevelFits(d)'
  BY LevelTypes, <1>5 DEF WindowLock, Placed, PlacedAt
<1>6. ASSUME NEW c \in Clients, WindowRemove(c)
      PROVE  LevelFits(d)'
  BY LevelTypes, <1>6 DEF WindowRemove, Placed, PlacedAt
<1>7. ASSUME NEW c \in Clients, WindowInsert(c)
      PROVE  LevelFits(d)'
  BY LevelTypes, <1>7 DEF WindowInsert, Placed, PlacedAt
<1>8. ASSUME NEW c \in Clients, WindowSet(c)
      PROVE  LevelFits(d)'
  BY LevelTypes, <1>8 DEF WindowSet, Placed, PlacedAt
<1>9. ASSUME NEW c \in Clients, NEW r \in Receivers, Switch(c, r)
      PROVE  LevelFits(d)'
  BY LevelTypes, <1>9 DEF Switch, Placed, PlacedAt
<1>10. ASSUME NEW c \in Clients, SwitchRemove(c)
      PROVE  LevelFits(d)'
  <2>1. CASE d # c
    BY <1>10, <2>1 DEF SwitchRemove
  <2>2. CASE d = c
    BY <1>10, <2>2, LevelTypes DEF SwitchRemove, HandlerPC
  <2>3. QED
    BY <2>1, <2>2
<1>11. ASSUME NEW c \in Clients, SwitchSend(c)
      PROVE  LevelFits(d)'
  <2>1. CASE d # c
    BY <1>11, <2>1 DEF SwitchSend
  <2>2. CASE d = c
    BY <1>11, <2>2, LevelTypes DEF SwitchSend, HandlerPC
  <2>3. QED
    BY <2>1, <2>2
<1>12. ASSUME NEW c \in Clients, SwitchSendFails(c)
      PROVE  LevelFits(d)'
  BY LevelTypes, <1>12 DEF SwitchSendFails, Placed, PlacedAt
<1>13. ASSUME NEW c \in Clients, SwitchInsert(c)
      PROVE  LevelFits(d)'
  <2>1. CASE d # c
    BY <1>13, <2>1 DEF SwitchInsert
  <2>2. CASE d = c
    BY <1>13, <2>2, LevelTypes DEF SwitchInsert, HandlerPC
  <2>3. QED
    BY <2>1, <2>2
<1>14. ASSUME NEW c \in Clients,
             SendSettings(c) \/ PollFrames(c) \/ SendFrame(c) \/ SenderDies(c)
      PROVE  LevelFits(d)'
  BY <1>14 DEF SendSettings, PollFrames, SendFrame, SenderDies
<1>15. ASSUME NEW r \in Running,
             DspEnter(r) \/ DspNext(r) \/ DspRead(r) \/ DspPost(r) \/ DspLeave(r)
      PROVE  LevelFits(d)'
  BY <1>15 DEF DspEnter, DspNext, DspRead, DspPost, DspLeave
<1>16. CASE UNCHANGED vars
  BY <1>16 DEF vars, clientVars, sendVars
<1>17. QED
  BY <1>1, <1>2, <1>3, <1>4, <1>5, <1>6, <1>7, <1>8, <1>9, <1>10, <1>11, <1>12, <1>13,
     <1>14, <1>15, <1>16 DEF Next, Handler, SendTask, SendWaterfall

\* A closed handler leaves the initial state behind.
LEMMA FreshStep ==
  ASSUME HandlerTypes, SenderTypes, QueueTypes, FramesFollow, Fresh, [Next]_vars, NEW d
         \in Clients
  PROVE  FreshAt(d)'
<1> USE DEF HandlerTypes, SenderTypes, QueueTypes, Fresh, FreshAt, Goto, clientVars,
   sendVars
<1>1. ASSUME NEW c \in Clients, Connect(c)
      PROVE  FreshAt(d)'
  BY <1>1 DEF Connect
<1>2. ASSUME NEW c \in Clients, LeaveRemove(c)
      PROVE  FreshAt(d)'
  BY <1>2 DEF LeaveRemove
<1>3. ASSUME NEW c \in Clients, SwitchSend(c)
      PROVE  FreshAt(d)'
  BY <1>3 DEF SwitchSend
<1>4. ASSUME NEW c \in Clients, SendSettings(c)
      PROVE  FreshAt(d)'
  BY <1>4 DEF SendSettings
<1>5. ASSUME NEW c \in Clients, SendFrame(c)
      PROVE  FreshAt(d)'
  BY <1>5 DEF SendFrame, FramesFollow, FramesFollowAt
<1>6. ASSUME NEW c \in Clients, SenderDies(c)
      PROVE  FreshAt(d)'
  BY <1>6 DEF SenderDies
<1>7. ASSUME NEW r \in Running, DspPost(r)
      PROVE  FreshAt(d)'
  BY <1>7 DEF DspPost
<1>8. ASSUME NEW c \in Clients,
             Insert(c) \/ Leave(c) \/ WindowLock(c) \/ WindowRemove(c) \/
                WindowInsert(c) \/ WindowSet(c) \/ SwitchRemove(c) \/ SwitchSendFails(c)
                \/ SwitchInsert(c) \/ PollFrames(c)
      PROVE  FreshAt(d)'
  BY <1>8 DEF Insert, Leave, WindowLock, WindowRemove, WindowInsert, WindowSet,
     SwitchRemove, SwitchSendFails, SwitchInsert, PollFrames
<1>9. ASSUME NEW c \in Clients, NEW r \in Receivers, Switch(c, r)
      PROVE  FreshAt(d)'
  BY <1>9 DEF Switch
<1>10. ASSUME NEW r \in Running, DspEnter(r) \/ DspNext(r) \/ DspRead(r) \/ DspLeave(r)
      PROVE  FreshAt(d)'
  BY <1>10 DEF DspEnter, DspNext, DspRead, DspLeave
<1>11. CASE UNCHANGED vars
  BY <1>11 DEF vars, clientVars, sendVars
<1>12. QED
  BY <1>1, <1>2, <1>3, <1>4, <1>5, <1>6, <1>7, <1>8, <1>9, <1>10, <1>11 DEF Next,
     Handler, SendTask, SendWaterfall

\* No client enters a map before the settings of its receiver are announced.
LEMMA SettingsFirstStep ==
  ASSUME HandlerTypes, SenderTypes, QueueTypes, Fresh, SettingsFirst, [Next]_vars, NEW d
         \in Clients
  PROVE  SettingsFirstAt(d)'
<1> USE DEF HandlerTypes, SenderTypes, QueueTypes, SettingsFirst, SettingsFirstAt,
   Fresh, FreshAt, Alive, Announced, Goto, clientVars, sendVars
<1>1. ASSUME NEW c \in Clients, Connect(c)
      PROVE  SettingsFirstAt(d)'
  BY <1>1 DEF Connect
<1>2. ASSUME NEW c \in Clients, LeaveRemove(c)
      PROVE  SettingsFirstAt(d)'
  BY <1>2 DEF LeaveRemove
<1>3. ASSUME NEW c \in Clients, NEW r \in Receivers, Switch(c, r)
      PROVE  SettingsFirstAt(d)'
  BY <1>3 DEF Switch
<1>4. ASSUME NEW c \in Clients, SwitchSend(c)
      PROVE  SettingsFirstAt(d)'
  <2>1. CASE d # c
    BY <1>4, <2>1 DEF SwitchSend
  <2>2. CASE d = c
    <3>1. out'[c] = Append(out[c], target[c]) /\ pc'[c] = "swInsert" /\ target' = target
      BY <1>4 DEF SwitchSend
    <3>2. out[c] \in Seq(Receivers) /\ target[c] \in Receivers
      OBVIOUS
    <3>3. out'[c] # <<>> /\ out'[c][Len(out'[c])] = target[c]
      BY <3>1, <3>2, LastOfAppend
    <3>4. QED
      BY <2>2, <3>1, <3>3
  <2>3. QED
    BY <2>1, <2>2
<1>5. ASSUME NEW c \in Clients, SwitchSendFails(c)
      PROVE  SettingsFirstAt(d)'
  BY <1>5 DEF SwitchSendFails
<1>6. ASSUME NEW c \in Clients, SwitchInsert(c)
      PROVE  SettingsFirstAt(d)'
  BY <1>6 DEF SwitchInsert
<1>7. ASSUME NEW c \in Clients, SendSettings(c)
      PROVE  SettingsFirstAt(d)'
  <2>1. CASE d # c
    BY <1>7, <2>1 DEF SendSettings
  <2>2. CASE d = c
    <3>1. /\ out[c] # <<>> /\ out'[c] = Tail(out[c]) /\ shown'[c] = Head(out[c])
          /\ UNCHANGED <<home, target, pc, sender>> /\ Alive(c)
      BY <1>7 DEF SendSettings
    <3>2. out[c] \in Seq(Receivers)
      OBVIOUS
    <3>3. IF Tail(out[c]) = <<>> THEN Head(out[c]) = out[c][Len(out[c])]
                                 ELSE Tail(out[c])[Len(Tail(out[c]))] = out[c][Len(out[c])]
      BY <3>1, <3>2, LastOfTail
    <3>4. QED
      BY <2>2, <3>1, <3>3
  <2>3. QED
    BY <2>1, <2>2
<1>8. ASSUME NEW c \in Clients,
             Insert(c) \/ Leave(c) \/ WindowLock(c) \/ WindowRemove(c) \/
                WindowInsert(c) \/ WindowSet(c) \/ SwitchRemove(c) \/ PollFrames(c) \/
                SendFrame(c) \/ SenderDies(c)
      PROVE  SettingsFirstAt(d)'
  BY <1>8 DEF Insert, Leave, WindowLock, WindowRemove, WindowInsert, WindowSet,
     SwitchRemove, PollFrames, SendFrame, SenderDies
<1>9. ASSUME NEW r \in Running,
             DspEnter(r) \/ DspNext(r) \/ DspRead(r) \/ DspPost(r) \/ DspLeave(r)
      PROVE  SettingsFirstAt(d)'
  BY <1>9 DEF DspEnter, DspNext, DspRead, DspPost, DspLeave
<1>10. CASE UNCHANGED vars
  BY <1>10 DEF vars, clientVars, sendVars
<1>11. QED
  BY <1>1, <1>2, <1>3, <1>4, <1>5, <1>6, <1>7, <1>8, <1>9, <1>10 DEF Next, Handler,
     SendTask, SendWaterfall

\* Only frames of the announced receiver reach the send task.
LEMMA FramesFollowStep ==
  ASSUME Types, Placed, SettingsFirst, Held, Fresh, FramesFollow, [Next]_vars,
         NEW d \in Clients
  PROVE  FramesFollowAt(d)'
<1> USE DEF Types, HandlerTypes, SenderTypes, QueueTypes, FramesFollow, FramesFollowAt,
   Alive, Goto, clientVars, sendVars
<1>1. ASSUME NEW c \in Clients, Connect(c)
      PROVE  FramesFollowAt(d)'
  BY <1>1 DEF Connect
<1>2. ASSUME NEW c \in Clients, LeaveRemove(c)
      PROVE  FramesFollowAt(d)'
  BY <1>2 DEF LeaveRemove
<1>3. ASSUME NEW c \in Clients, SwitchSend(c)
      PROVE  FramesFollowAt(d)'
  <2>1. /\ UNCHANGED <<rx, sender, shown>>
        /\ out' = [out EXCEPT ![c] = Append(out[c], target[c])]
    BY <1>3 DEF SwitchSend
  <2>2. CASE d # c
    BY <2>1, <2>2
  <2>3. CASE d = c
    <3>1. out[c] \in Seq(Receivers) /\ target[c] \in Receivers
      OBVIOUS
    <3>2. out'[c] # <<>>
      <4>1. out'[c] = Append(out[c], target[c])
        BY <2>1
      <4>2. Append(out[c], target[c]) # <<>>
        BY ONLY <3>1, LastOfAppend
      <4>3. QED
        BY <4>1, <4>2
    <3>3. QED
      BY <2>1, <2>3, <3>2
  <2>4. QED
    BY <2>2, <2>3
<1>4. ASSUME NEW c \in Clients, SendSettings(c)
      PROVE  FramesFollowAt(d)'
  <2>1. CASE d # c
    BY <1>4, <2>1 DEF SendSettings
  <2>2. CASE d = c
    BY <1>4, <2>2, EmptySeq, LenProperties DEF SendSettings
  <2>3. QED
    BY <2>1, <2>2
<1>5. ASSUME NEW c \in Clients, PollFrames(c)
      PROVE  FramesFollowAt(d)'
  BY <1>5 DEF PollFrames
<1>6. ASSUME NEW c \in Clients, SendFrame(c)
      PROVE  FramesFollowAt(d)'
  <2>1. CASE d # c
    BY <1>6, <2>1 DEF SendFrame
  <2>2. CASE d = c
    <3>1. /\ rx[c] # <<>> /\ rx'[c] = Tail(rx[c]) /\ sender'[c] = "poll" /\ Alive(c)
          /\ UNCHANGED <<out, shown>>
      BY <1>6 DEF SendFrame
    <3>2. \A i \in DOMAIN Tail(rx[c]) : i + 1 \in DOMAIN rx[c] /\ Tail(rx[c])[i] = rx[c][i + 1]
      BY <3>1, HeadTailProperties, LenProperties
    <3>3. QED
      BY <2>2, <3>1, <3>2
  <2>3. QED
    BY <2>1, <2>2
<1>7. ASSUME NEW c \in Clients, SenderDies(c)
      PROVE  FramesFollowAt(d)'
  BY <1>7 DEF SenderDies
<1>8. ASSUME NEW r \in Running, DspPost(r)
      PROVE  FramesFollowAt(d)'
  <2>1. PICK c \in Clients, i \in Item :
           /\ i.rcv = r /\ i.level = i.data /\ <<c, r, i.data>> \in registered
           /\ \/ rx' = rx
              \/ /\ Alive(c) /\ Len(rx[c]) < QueueCap
                 /\ rx' = [rx EXCEPT ![c] = Append(rx[c], i)]
    BY <1>8, Posted DEF Types
  <2>2. UNCHANGED <<out, sender, shown>>
    BY <1>8 DEF DspPost
  <2>3. CASE d # c \/ rx' = rx
    BY <2>1, <2>2, <2>3
  <2>4. CASE d = c /\ rx' # rx
    <3>1. rx'[c] = Append(rx[c], i) /\ Alive(c) /\ rx[c] \in Seq(Item)
      BY <2>1, <2>4
    <3>2. /\ rx'[c] # <<>>
          /\ Head(rx'[c]) = IF rx[c] = <<>> THEN i ELSE Head(rx[c])
          /\ \A j \in DOMAIN rx'[c] :
               rx'[c][j] = i \/ (j \in DOMAIN rx[c] /\ rx'[c][j] = rx[c][j])
      <4>1. rx[c] \in Seq(Item) /\ i \in Item
        BY <3>1
      <4>2. QED
        BY ONLY <3>1, <4>1, EntriesOfAppend
    <3>3. r = home[c] /\ pc[c] # "swInsert"
      <4>1. PlacedAt(c) /\ i.data \in AllLevels /\ r \in Receivers
        BY DEF Placed, Item
      <4>2. QED
        BY <2>1, <4>1 DEF PlacedAt
    <3>4. out[c] = <<>> => shown[c] = r
      BY <3>1, <3>3 DEF SettingsFirst, SettingsFirstAt, Announced
    <3>5. sender'[c] = "take" => Head(rx'[c]).rcv = shown'[c]
      BY <2>1, <2>2, <3>2, <3>4
    <3>6. ASSUME out'[c] = <<>>, NEW j \in DOMAIN rx'[c]
          PROVE  rx'[c][j].rcv = shown'[c]
      <4>1. out[c] = <<>> /\ shown'[c] = shown[c] /\ shown[c] = r
        BY <2>2, <3>4, <3>6
      <4>2. CASE rx'[c][j] = i
        BY <2>1, <4>1, <4>2
      <4>3. CASE j \in DOMAIN rx[c] /\ rx'[c][j] = rx[c][j]
        <5>1. rx[c][j].rcv = shown[c]
          BY <3>1, <4>1, <4>3
        <5>2. QED
          BY <4>1, <4>3, <5>1
      <4>4. QED
        BY <3>2, <4>2, <4>3
    <3>7. QED
      BY <2>4, <3>2, <3>5, <3>6
  <2>5. QED
    BY <2>3, <2>4
<1>9. ASSUME NEW c \in Clients,
             Insert(c) \/ Leave(c) \/ WindowLock(c) \/ WindowRemove(c) \/
                WindowInsert(c) \/ WindowSet(c) \/ SwitchRemove(c) \/ SwitchSendFails(c)
                \/ SwitchInsert(c)
      PROVE  FramesFollowAt(d)'
  BY <1>9 DEF Insert, Leave, WindowLock, WindowRemove, WindowInsert, WindowSet,
     SwitchRemove, SwitchSendFails, SwitchInsert
<1>10. ASSUME NEW c \in Clients, NEW r \in Receivers, Switch(c, r)
      PROVE  FramesFollowAt(d)'
  BY <1>10 DEF Switch
<1>11. ASSUME NEW r \in Running, DspEnter(r) \/ DspNext(r) \/ DspRead(r) \/ DspLeave(r)
      PROVE  FramesFollowAt(d)'
  BY <1>11 DEF DspEnter, DspNext, DspRead, DspLeave
<1>12. CASE UNCHANGED vars
  BY <1>12 DEF vars, clientVars, sendVars
<1>13. QED
  BY <1>1, <1>2, <1>3, <1>4, <1>5, <1>6, <1>7, <1>8, <1>9, <1>10, <1>11, <1>12 DEF Next,
     Handler, SendTask, SendWaterfall

\* A frame is sent under the settings of its receiver.
LEMMA FrameMatchesStep ==
  ASSUME SenderTypes, FramesFollow, FrameMatchesSettings, [Next]_vars
  PROVE  FrameMatchesSettings'
<1> USE DEF SenderTypes, FrameMatchesSettings, Goto, clientVars, sendVars
<1>1. ASSUME NEW c \in Clients, LeaveRemove(c)
      PROVE  FrameMatchesSettings'
  BY <1>1 DEF LeaveRemove
<1>2. ASSUME NEW c \in Clients, SendSettings(c)
      PROVE  FrameMatchesSettings'
  BY <1>2 DEF SendSettings
<1>3. ASSUME NEW c \in Clients, SendFrame(c)
      PROVE  FrameMatchesSettings'
  BY <1>3 DEF SendFrame, FramesFollow, FramesFollowAt
<1>4. ASSUME NEW c \in Clients,
             Connect(c) \/ Insert(c) \/ Leave(c) \/ WindowLock(c) \/ WindowRemove(c) \/
                WindowInsert(c) \/ WindowSet(c) \/ SwitchRemove(c) \/ SwitchSend(c) \/
                SwitchSendFails(c) \/ SwitchInsert(c) \/ PollFrames(c) \/ SenderDies(c)
      PROVE  FrameMatchesSettings'
  BY <1>4 DEF Connect, Insert, Leave, WindowLock, WindowRemove, WindowInsert, WindowSet,
     SwitchRemove, SwitchSend, SwitchSendFails, SwitchInsert, PollFrames, SenderDies
<1>5. ASSUME NEW c \in Clients, NEW r \in Receivers, Switch(c, r)
      PROVE  FrameMatchesSettings'
  BY <1>5 DEF Switch
<1>6. ASSUME NEW r \in Running,
             DspEnter(r) \/ DspNext(r) \/ DspRead(r) \/ DspPost(r) \/ DspLeave(r)
      PROVE  FrameMatchesSettings'
  BY <1>6 DEF DspEnter, DspNext, DspRead, DspPost, DspLeave
<1>7. CASE UNCHANGED vars
  BY <1>7 DEF vars, clientVars, sendVars
<1>8. QED
  BY <1>1, <1>2, <1>3, <1>4, <1>5, <1>6, <1>7 DEF Next, Handler, SendTask, SendWaterfall

\* A frame claims the level its data was cut from.
LEMMA LevelMatchesStep ==
  ASSUME QueueTypes, DspTypes, FramesFollow, Held, LevelMatchesData, [Next]_vars
  PROVE  LevelMatchesData'
<1> USE DEF QueueTypes, LevelMatchesData, Goto, clientVars, sendVars
<1>1. ASSUME NEW c \in Clients, LeaveRemove(c)
      PROVE  LevelMatchesData'
  BY EmptySeq, <1>1 DEF LeaveRemove
<1>2. ASSUME NEW c \in Clients, SendSettings(c)
      PROVE  LevelMatchesData'
  BY EmptySeq, <1>2 DEF SendSettings
<1>3. ASSUME NEW c \in Clients, SendFrame(c)
      PROVE  LevelMatchesData'
  BY HeadTailProperties, LenProperties, <1>3 DEF SendFrame, FramesFollow, FramesFollowAt
<1>4. ASSUME NEW c \in Clients, SenderDies(c)
      PROVE  LevelMatchesData'
  BY EmptySeq, <1>4 DEF SenderDies
<1>5. ASSUME NEW r \in Running, DspPost(r)
      PROVE  LevelMatchesData'
  <2>1. PICK c \in Clients, i \in Item :
           /\ i.rcv = r /\ i.level = i.data /\ <<c, r, i.data>> \in registered
           /\ \/ rx' = rx
              \/ /\ Alive(c) /\ Len(rx[c]) < QueueCap
                 /\ rx' = [rx EXCEPT ![c] = Append(rx[c], i)]
    BY <1>5, Posted
  <2>2. CASE rx' = rx
    BY <2>2
  <2>3. CASE rx' # rx
    <3>1. rx' = [rx EXCEPT ![c] = Append(rx[c], i)] /\ rx[c] \in Seq(Item)
      BY <2>1, <2>3
    <3>2. \A j \in DOMAIN Append(rx[c], i) : Append(rx[c], i)[j] = i
            \/ (j \in DOMAIN rx[c] /\ Append(rx[c], i)[j] = rx[c][j])
      BY <3>1, EntriesOfAppend
    <3>3. QED
      BY <2>1, <3>1, <3>2
  <2>4. QED
    BY <2>2, <2>3
<1>6. ASSUME NEW c \in Clients,
             Connect(c) \/ Insert(c) \/ Leave(c) \/ WindowLock(c) \/ WindowRemove(c) \/
                WindowInsert(c) \/ WindowSet(c) \/ SwitchRemove(c) \/ SwitchSend(c) \/
                SwitchSendFails(c) \/ SwitchInsert(c) \/ PollFrames(c)
      PROVE  LevelMatchesData'
  BY <1>6 DEF Connect, Insert, Leave, WindowLock, WindowRemove, WindowInsert, WindowSet,
     SwitchRemove, SwitchSend, SwitchSendFails, SwitchInsert, PollFrames
<1>7. ASSUME NEW c \in Clients, NEW r \in Receivers, Switch(c, r)
      PROVE  LevelMatchesData'
  BY <1>7 DEF Switch
<1>8. ASSUME NEW r \in Running, DspEnter(r) \/ DspNext(r) \/ DspRead(r) \/ DspLeave(r)
      PROVE  LevelMatchesData'
  BY <1>8 DEF DspEnter, DspNext, DspRead, DspLeave
<1>9. CASE UNCHANGED vars
  BY <1>9 DEF vars, clientVars, sendVars
<1>10. QED
  BY <1>1, <1>2, <1>3, <1>4, <1>5, <1>6, <1>7, <1>8, <1>9 DEF Next, Handler, SendTask,
     SendWaterfall

\* No handler writes to the shard send_waterfall is in.
LEMMA HeldStep ==
  ASSUME DspTypes, RegistryTypes, HandlerTypes, Placed, LevelsFit, Held, [Next]_vars,
         NEW t \in Receivers
  PROVE  HeldBy(t)'
<1> USE DEF DspTypes, Held, HeldBy, Goto, clientVars, sendVars
<1>1. ASSUME NEW c \in Clients, LeaveRemove(c)
      PROVE  HeldBy(t)'
  BY <1>1 DEF LeaveRemove, Writable, ReadLocked
<1>2. ASSUME NEW c \in Clients, WindowRemove(c)
      PROVE  HeldBy(t)'
  BY <1>2 DEF WindowRemove, Writable, ReadLocked
<1>3. ASSUME NEW c \in Clients, SwitchRemove(c)
      PROVE  HeldBy(t)'
  BY <1>3 DEF SwitchRemove, Writable, ReadLocked
<1>4. ASSUME NEW r \in Running, DspEnter(r)
      PROVE  HeldBy(t)'
  BY <1>4 DEF DspEnter, DspState, InShard, Idle
<1>5. ASSUME NEW r \in Running, DspNext(r)
      PROVE  HeldBy(t)'
  BY <1>5 DEF DspNext, DspState
<1>6. ASSUME NEW r \in Running, DspRead(r)
      PROVE  HeldBy(t)'
  <2>1. PICK c \in dsp[r].cur :
           /\ ~ParamsLocked(c)
           /\ \/ dsp' = [dsp EXCEPT ![r].pc = "post",
                    ![r].item = {[rcv |-> r, level |-> level[c], data |-> dsp[r].level]}]
              \/ dsp' = [dsp EXCEPT ![r].pc = "visit", ![r].cur = {}]
    BY <1>6 DEF DspRead
  <2>2. r \in Receivers /\ dsp[r].pc = "read" /\ dsp[r] \in DspState /\ registered' = registered
    BY <1>6 DEF DspRead
  <2>3. <<c, r, dsp[r].level>> \in registered /\ c \in Clients /\ dsp[r].level \in AllLevels
    BY <2>1, <2>2 DEF DspState
  <2>4. level[c] = dsp[r].level
    <3>1. PlacedAt(c)
      BY <2>3 DEF Placed
    <3>2. QED
      BY <2>1, <2>2, <2>3, <3>1 DEF PlacedAt, ParamsLocked
  <2>5. CASE t # r
    BY <2>1, <2>2, <2>5
  <2>6. CASE t = r
    BY <2>1, <2>2, <2>4, <2>6 DEF DspState
  <2>7. QED
    BY <2>5, <2>6
<1>7. ASSUME NEW r \in Running, DspPost(r)
      PROVE  HeldBy(t)'
  BY <1>7 DEF DspPost, DspState
<1>8. ASSUME NEW r \in Running, DspLeave(r)
      PROVE  HeldBy(t)'
  BY <1>8 DEF DspLeave, DspState, Idle
<1>9. ASSUME NEW c \in Clients,
             Connect(c) \/ Insert(c) \/ Leave(c) \/ WindowLock(c) \/ WindowInsert(c) \/
                WindowSet(c) \/ SwitchSend(c) \/ SwitchSendFails(c) \/ SwitchInsert(c)
                \/ SendSettings(c) \/ PollFrames(c) \/ SendFrame(c) \/ SenderDies(c)
      PROVE  HeldBy(t)'
  BY <1>9 DEF Connect, Insert, Leave, WindowLock, WindowInsert, WindowSet, SwitchSend,
     SwitchSendFails, SwitchInsert, SendSettings, PollFrames, SendFrame, SenderDies
<1>10. ASSUME NEW c \in Clients, NEW r \in Receivers, Switch(c, r)
      PROVE  HeldBy(t)'
  BY <1>10 DEF Switch
<1>11. CASE UNCHANGED vars
  BY <1>11 DEF vars, clientVars, sendVars
<1>12. QED
  BY <1>1, <1>2, <1>3, <1>4, <1>5, <1>6, <1>7, <1>8, <1>9, <1>10, <1>11 DEF Next,
     Handler, SendTask, SendWaterfall

\* The invariant holds in every reachable state.
LEMMA InvariantHolds == Spec => []IInv
<1>1. IInv /\ [Next]_vars => IInv'
  <2> SUFFICES ASSUME IInv, [Next]_vars PROVE IInv'
    OBVIOUS
  <2> USE DEF IInv
  <2>1. Types'
    BY RegistryTypesStep, HandlerTypesStep, QueueTypesStep, SenderTypesStep, DspTypesStep
    DEF Types
  <2>2. Placed' /\ LevelsFit'
    BY PlacedStep, LevelsFitStep DEF Types, Placed, LevelsFit
  <2>3. Fresh' /\ SettingsFirst' /\ FramesFollow'
    BY FreshStep, SettingsFirstStep, FramesFollowStep DEF Types, Fresh, SettingsFirst, FramesFollow
  <2>4. FrameMatchesSettings' /\ LevelMatchesData'
    BY FrameMatchesStep, LevelMatchesStep DEF Types
  <2>5. Held'
    BY HeldStep DEF Types, Held
  <2>6. QED
    BY <2>1, <2>2, <2>3, <2>4, <2>5
<1>2. QED
  BY <1>1, InitInvariant, PTL DEF Spec
-----------------------------------------------------------------------------
(* Theorems *)

\* Types and capacities hold, and a client is in at most one map: the one its
\* handler will remove it from (Insert, apply_command, the receiver command).
THEOREM RegistryFollowsHandler == Spec => []RegistryMatchesHandler
<1>1. IInv => RegistryMatchesHandler
  <2> SUFFICES ASSUME IInv PROVE RegistryMatchesHandler
    OBVIOUS
  <2>1. TypeOK
    BY DEF IInv, Types, RegistryTypes, HandlerTypes, QueueTypes, SenderTypes, DspTypes, TypeOK
  <2>2. ASSUME NEW c \in Clients
        PROVE  /\ \A e, f \in Entries(c) : e = f
               /\ pc[c] = "ready" => Entries(c) = {<<c, home[c], level[c]>>}
               /\ pc[c] = "closed" => Entries(c) = {}
    <3>1. PlacedAt(c)
      BY DEF IInv, Placed
    <3>2. ASSUME NEW e \in Entries(c)
          PROVE  /\ pc[c] \in {"ready", "winRemove", "swRemove", "leave", "winSet"}
                 /\ e = <<c, home[c], IF pc[c] = "winSet" THEN newLevel[c] ELSE level[c]>>
      <4>1. PICK r \in Receivers, l \in AllLevels : e = <<c, r, l>> /\ e \in registered
        BY DEF IInv, Types, RegistryTypes, Entries
      <4>2. QED
        BY <3>1, <4>1 DEF PlacedAt
    <3>3. pc[c] = "ready" => <<c, home[c], level[c]>> \in Entries(c)
      BY <3>1 DEF PlacedAt, Entries
    <3>4. QED
      BY <3>2, <3>3
  <2>3. QED
    BY <2>1, <2>2 DEF RegistryMatchesHandler
<1>2. QED
  BY <1>1, InvariantHolds, PTL

\* A queued frame claims the level its data was cut from, although the window
\* may move to another level between the visit and the copy of the parameters.
THEOREM LevelOfFrame == Spec => []LevelMatchesData
<1>1. IInv => LevelMatchesData
  BY DEF IInv
<1>2. QED
  BY <1>1, InvariantHolds, PTL

\* The frame sent last is one of the receiver whose settings were sent last:
\* the biased select and the drain of the queue keep the order.
THEOREM SettingsBeforeFrames == Spec => []FrameMatchesSettings
<1>1. IInv => FrameMatchesSettings
  BY DEF IInv
<1>2. QED
  BY <1>1, InvariantHolds, PTL

\* Between two commands the client has been sent, or will be sent last, the
\* settings of the receiver it is on.
THEOREM SettingsOfReceiver == Spec => []SettingsCurrent
<1>1. IInv => SettingsCurrent
  BY DEF IInv, SettingsFirst, SettingsFirstAt, Alive, Announced, SettingsCurrent
<1>2. QED
  BY <1>1, InvariantHolds, PTL

\* A frame is queued only for a client that is in the map it is made for: no
\* handler can take the client out while send_waterfall holds its shard.
THEOREM NoFrameAfterRemoval == Spec => QueuedOnlyWhileRegistered
<1> DEFINE P == \A c \in Clients : Len(rx'[c]) > Len(rx[c]) =>
                  LET i == rx'[c][Len(rx'[c])] IN <<c, i.rcv, i.data>> \in registered
<1>1. IInv /\ [Next]_vars => [P]_vars
  <2> SUFFICES ASSUME IInv, [Next]_vars, NEW c \in Clients, Len(rx'[c]) > Len(rx[c])
               PROVE  LET i == rx'[c][Len(rx'[c])] IN <<c, i.rcv, i.data>> \in registered
    OBVIOUS
  <2>1. rx[c] \in Seq(Item) /\ rx \in [Clients -> Seq(Item)] /\ Len(rx[c]) \in Nat
    BY LenProperties DEF IInv, Types, QueueTypes
  <2>2. ASSUME NEW r \in Running, DspPost(r)
        PROVE  LET i == rx'[c][Len(rx'[c])] IN <<c, i.rcv, i.data>> \in registered
    <3>1. PICK d \in Clients, i \in Item :
            /\ i.rcv = r /\ i.level = i.data /\ <<d, r, i.data>> \in registered
            /\ \/ rx' = rx
               \/ /\ Alive(d) /\ Len(rx[d]) < QueueCap
                  /\ rx' = [rx EXCEPT ![d] = Append(rx[d], i)]
      BY <2>2, Posted DEF IInv, Types
    <3>2. d = c
      BY <2>1, <3>1
    <3>3. rx' # rx
      BY <2>1
    <3>4. rx'[c] = Append(rx[c], i)
      BY <2>1, <3>1, <3>2, <3>3
    <3>5. rx'[c][Len(rx'[c])] = i
      BY <2>1, <3>4, LastOfAppend
    <3>6. QED
      BY <3>1, <3>2, <3>5
  <2>3. ASSUME NEW d \in Clients,
               LeaveRemove(d) \/ SendSettings(d) \/ SenderDies(d)
        PROVE  FALSE
    <3>1. rx' = [rx EXCEPT ![d] = <<>>]
      BY <2>3 DEF LeaveRemove, SendSettings, SenderDies
    <3>2. QED
      BY <2>1, <3>1
  <2>4. ASSUME NEW d \in Clients, SendFrame(d)
        PROVE  FALSE
    <3>1. rx[d] # <<>> /\ rx' = [rx EXCEPT ![d] = Tail(rx[d])]
      BY <2>4 DEF IInv, FramesFollow, FramesFollowAt, SendFrame
    <3>2. QED
      BY <2>1, <3>1, HeadTailProperties
  <2>5. ASSUME rx' = rx
        PROVE  FALSE
    BY <2>1, <2>5
  <2>6. ASSUME NEW d \in Clients, Handler(d), ~LeaveRemove(d)
        PROVE  FALSE
    BY <2>5, <2>6 DEF Handler, Connect, Insert, Leave, WindowLock, WindowRemove, WindowInsert,
       WindowSet, Switch, SwitchRemove, SwitchSend, SwitchSendFails, SwitchInsert, sendVars
  <2>7. ASSUME NEW d \in Clients, PollFrames(d)
        PROVE  FALSE
    BY <2>5, <2>7 DEF PollFrames
  <2>8. ASSUME NEW r \in Running, DspEnter(r) \/ DspNext(r) \/ DspRead(r) \/ DspLeave(r)
        PROVE  FALSE
    BY <2>5, <2>8 DEF DspEnter, DspNext, DspRead, DspLeave, sendVars
  <2>9. CASE UNCHANGED vars
    BY <2>5, <2>9 DEF vars, sendVars
  <2>10. QED
    BY <2>2, <2>3, <2>4, <2>6, <2>7, <2>8, <2>9 DEF Next, SendTask, SendWaterfall
<1>2. QED
  BY <1>1, InvariantHolds, PTL DEF Spec, QueuedOnlyWhileRegistered
=============================================================================
