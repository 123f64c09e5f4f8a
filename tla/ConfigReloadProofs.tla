------------------------- MODULE ConfigReloadProofs -------------------------
(***************************************************************************)
(* Proofs about ConfigReload for any number of edits, workers and threads  *)
(* and any capacities: no change of the file goes unnoticed by the loader, *)
(* and updates that were sent in time leave all workers with one           *)
(* configuration.  And about ConfigRules for any text of the file: what    *)
(* Config::validate lets pass, the workers can work with.                  *)
(***************************************************************************)
EXTENDS ConfigReload, HubSendProofs, FiniteSetTheorems, FunctionTheorems

\* Every update was caused by an event of its own.
Triggered == IF loader = "triggered" THEN 1 ELSE 0

EventsInv == Latest + notified + buffered + Triggered <= edits

\* The loader and the outcomes of its sends.
LoaderInv ==
    /\ \A n \in Messages : n > Latest => call[n] = "idle"
    /\ \A n \in Messages : call[n] = "waiting" => loader = "sending" /\ n = Latest
    /\ loader \in {"loaded", "sending"} => Latest \in Messages
    /\ loader = "loaded" => call[Latest] = "idle"
    /\ current = IF Latest = 0 THEN Startup ELSE updates[Latest]

LocalTypeOK ==
    /\ file \in Contents \cup {Broken}
    /\ edits \in 0..MaxEdits
    /\ lastEdit \in {"watched", "missed"}
    /\ notified \in 0..MaxEdits
    /\ buffered \in 0..BufferSize
    /\ loader \in {"starting", "gone", "idle", "triggered", "loaded", "sending"}
    /\ current \in Contents
    /\ updates \in Seq(Contents)

LoaderPart == LocalTypeOK /\ EventsInv /\ LoaderInv

-----------------------------------------------------------------------------
\* Every step of a reload is a step of the send pool or leaves it alone.
LEMMA ReloadStepsHub == LoaderInv /\ [ReloadNext]_reloadVars => [HubNext]_hubVars
<1> SUFFICES ASSUME LoaderInv, ReloadNext PROVE [HubNext]_hubVars
  BY DEF reloadVars, hubVars
<1>1. ASSUME NEW t \in Threads, PoolThreadStep(t)
      PROVE  HubNext
  BY <1>1 DEF PoolThreadStep, HubNext
<1>2. ASSUME NEW w \in Subscribers, Apply(w)
      PROVE  HubNext
  BY <1>2 DEF Apply, HubNext
<1>3. CASE Publish \/ PublishRefused \/ PublishTimesOut
  BY <1>3 DEF Publish, PublishRefused, PublishTimesOut, LoaderInv, HubNext
<1>4. CASE Watch \/ TakeEvent \/ LoadChange \/ LoadNothing \/ PublishReturns \/ Bridge
  BY <1>4 DEF Watch, TakeEvent, LoadChange, LoadNothing, PublishReturns, Bridge
<1>5. ASSUME NEW content \in Contents \cup {Broken}, Edit(content)
      PROVE  UNCHANGED hubVars
  BY <1>5 DEF Edit
<1>6. CASE ReloadQuiet /\ UNCHANGED reloadVars
  BY <1>6 DEF reloadVars
<1>7. QED
  BY <1>1, <1>2, <1>3, <1>4, <1>5, <1>6 DEF ReloadNext, LoaderStep

LEMMA HubInvStays == HubInv /\ LoaderInv /\ [ReloadNext]_reloadVars => HubInv'
BY ReloadStepsHub, HubTypeStep, HubInvStep DEF HubInv

\* What a new update appends.
LEMMA UpdatesAppend ==
    ASSUME LocalTypeOK, LoadChange
    PROVE  /\ updates' \in Seq(Contents) /\ Latest \in Nat /\ Latest' = Latest + 1
           /\ updates'[Latest'] = file /\ current' = file /\ file \in Contents
BY AppendProperties, LenProperties DEF LocalTypeOK, LoadChange, Latest

LEMMA LoaderPartStep ==
    HubTypeOK /\ LoaderPart /\ [ReloadNext]_reloadVars => LoaderPart'
<1> SUFFICES ASSUME HubTypeOK, LoaderPart, [ReloadNext]_reloadVars
             PROVE  LoaderPart'
  OBVIOUS
<1>0. /\ MaxEdits \in Nat /\ Messages = 1..MaxEdits /\ BufferSize \in Nat \ {0}
      /\ call \in [Messages -> Outcome]
      /\ Latest \in Nat
  BY ReloadAssumption, LenProperties DEF HubTypeOK, LoaderPart, LocalTypeOK, Latest
<1> USE DEF LoaderPart, LocalTypeOK, EventsInv, LoaderInv, Triggered
<1>1. ASSUME NEW content \in Contents \cup {Broken}, Edit(content)
      PROVE  LoaderPart'
  <2>1. /\ edits' = edits + 1 /\ edits < MaxEdits /\ file' = content
        /\ lastEdit' \in {"watched", "missed"}
        /\ notified' \in {notified, notified + 1}
        /\ UNCHANGED <<hubVars, loaderVars>>
    BY <1>1 DEF Edit
  <2>2. /\ edits' \in 0..MaxEdits
        /\ Latest + notified' + buffered + Triggered <= edits'
        /\ notified' \in 0..MaxEdits
    <3>1. /\ Latest \in Nat /\ notified \in Nat /\ buffered \in Nat /\ Triggered \in Nat
          /\ edits \in Nat /\ MaxEdits \in Nat
          /\ Latest + notified + buffered + Triggered <= edits
      BY <1>0
    <3> HIDE DEF LoaderPart, LocalTypeOK, EventsInv, LoaderInv, Triggered
    <3>2. /\ edits + 1 \in 0..MaxEdits
          /\ Latest + notified' + buffered + Triggered <= edits + 1
          /\ notified' \in 0..MaxEdits
      <4>1. edits < MaxEdits /\ notified' \in {notified, notified + 1}
        BY <2>1
      <4>2. ASSUME notified' = notified
            PROVE  Latest + notified' + buffered + Triggered <= edits + 1
        BY ONLY <3>1, <4>2
      <4>3. ASSUME notified' = notified + 1
            PROVE  Latest + notified' + buffered + Triggered <= edits + 1
        BY ONLY <3>1, <4>3
      <4>4. notified' <= edits + 1 /\ notified' \in Nat
        BY ONLY <3>1, <4>1
      <4>5. edits + 1 <= MaxEdits /\ edits + 1 \in Nat
        BY ONLY <3>1, <4>1
      <4>6. Latest + notified' + buffered + Triggered <= edits + 1
        BY ONLY <4>1, <4>2, <4>3
      <4>7. edits + 1 \in 0..MaxEdits
        BY ONLY <3>1, <4>5
      <4>8. notified' \in 0..MaxEdits
        BY ONLY <3>1, <4>4, <4>5
      <4>9. QED BY ONLY <4>6, <4>7, <4>8
    <3>3. QED BY <2>1, <3>2
  <2>3. QED BY <1>0, <1>1, <2>1, <2>2 DEF loaderVars, hubVars, Latest
<1>2. CASE Bridge
  BY <1>0, <1>2 DEF Bridge, fileVars, hubVars, Latest
<1>3. CASE Watch \/ TakeEvent
  BY <1>0, <1>3 DEF Watch, TakeEvent, fileVars, hubVars, Latest
<1>4. CASE LoadChange
  <2>1. UNCHANGED <<hubVars, fileVars, notified, buffered>> /\ loader = "triggered" /\ loader' = "loaded"
    BY <1>4 DEF LoadChange
  <2>2. QED BY <1>0, <1>4, <2>1, UpdatesAppend DEF hubVars, fileVars
<1>5. CASE LoadNothing
  BY <1>0, <1>5 DEF LoadNothing, fileVars, hubVars, Latest
<1>6. CASE Publish
  BY <1>0, <1>6 DEF Publish, SubmitAccepted, fileVars, Latest
<1>7. CASE PublishRefused
  BY <1>0, <1>7 DEF PublishRefused, SubmitRefused, fileVars, Latest
<1>8. CASE PublishReturns
  BY <1>0, <1>8 DEF PublishReturns, fileVars, hubVars, Latest
<1>9. CASE PublishTimesOut
  BY <1>0, <1>9 DEF PublishTimesOut, CallerTimesOut, fileVars, Latest
<1>10. ASSUME NEW t \in Threads, PoolThreadStep(t)
       PROVE  LoaderPart'
  <2>1. CASE CompleteTask(t)
    BY <1>0, <1>10, <2>1 DEF PoolThreadStep, CompleteTask, fileVars, loaderVars, Latest
  <2>2. CASE call' = call
    BY <1>0, <1>10, <2>2 DEF PoolThreadStep, fileVars, loaderVars, Latest
  <2>3. QED BY <1>10, <2>1, <2>2 DEF PoolThreadStep, TakeTask, Deliver
<1>11. ASSUME NEW w \in Subscribers, Apply(w)
       PROVE  LoaderPart'
  BY <1>0, <1>11 DEF Apply, Consume, fileVars, loaderVars, Latest
<1>12. CASE UNCHANGED reloadVars
  BY <1>12 DEF reloadVars, hubVars, fileVars, loaderVars, Latest
<1>13. QED
  BY <1>1, <1>2, <1>3, <1>4, <1>5, <1>6, <1>7, <1>8, <1>9, <1>10, <1>11, <1>12
     DEF ReloadNext, LoaderStep

LEMMA ReloadStart == ReloadInit => HubInv /\ LoaderPart
<1> SUFFICES ASSUME ReloadInit PROVE HubInv /\ LoaderPart
  OBVIOUS
<1>1. HubInv
  BY HubInvInit DEF ReloadInit
<1>2. Latest = 0 /\ updates \in Seq(Contents)
  BY EmptySeq DEF ReloadInit, Latest
<1>3. LoaderPart
  BY <1>2, ReloadAssumption
     DEF ReloadInit, HubInit, LoaderPart, LocalTypeOK, EventsInv, LoaderInv, Triggered
<1>4. QED BY <1>1, <1>3

\* The part of the invariant about the loader, with that of the send pool.
THEOREM ReloadInvCorrect == ReloadSpec => [](HubInv /\ LoaderPart)
<1>1. HubInv /\ LoaderPart /\ [ReloadNext]_reloadVars => (HubInv /\ LoaderPart)'
  BY HubInvStays, LoaderPartStep DEF LoaderPart, HubInv
<1>2. QED BY <1>1, ReloadStart, PTL DEF ReloadSpec

\* A reload uses the send pool as any publisher does: what HubSendProofs proves
\* of the pool holds of it here.
THEOREM ReloadUsesHub == ReloadSpec => HubSpec
<1>1. ReloadInit => HubInit
  BY DEF ReloadInit
<1>2. LoaderPart => LoaderInv
  BY DEF LoaderPart
<1>3. QED BY <1>1, <1>2, ReloadStepsHub, ReloadInvCorrect, PTL DEF ReloadSpec, HubSpec

\* A change the loader does not know of has an event to come, whatever the
\* bridge drops and whenever the file is read.
THEOREM NoChangeUnnoticed == ReloadSpec => []ChangePending
<1>1. ReloadInit => ChangePending
  BY DEF ReloadInit, ChangePending
<1>2. LoaderPart /\ ChangePending /\ [ReloadNext]_reloadVars => ChangePending'
  <2> SUFFICES ASSUME LoaderPart, ChangePending, [ReloadNext]_reloadVars
               PROVE  ChangePending'
    OBVIOUS
  <2>0. notified \in Nat /\ buffered \in Nat /\ BufferSize \in Nat \ {0}
    BY ReloadAssumption DEF LoaderPart, LocalTypeOK
  <2> USE DEF ChangePending
  <2>1. ASSUME NEW content \in Contents \cup {Broken}, Edit(content)
        PROVE  ChangePending'
    BY <2>0, <2>1 DEF Edit
  <2>2. CASE Bridge
    BY <2>0, <2>2 DEF Bridge, fileVars
  <2>3. CASE Watch \/ TakeEvent
    BY <2>3 DEF Watch, TakeEvent, fileVars
  <2>4. CASE LoadChange
    BY <2>4 DEF LoadChange, fileVars
  <2>5. CASE LoadNothing
    BY <2>5, ReloadAssumption DEF LoadNothing, fileVars
  <2>6. ASSUME UNCHANGED <<file, lastEdit, current, notified, buffered>>, loader # "triggered"
        PROVE  ChangePending'
    BY <2>6
  <2>7. CASE Publish \/ PublishRefused \/ PublishReturns \/ PublishTimesOut
    BY <2>6, <2>7 DEF Publish, PublishRefused, PublishReturns, PublishTimesOut, fileVars
  <2>8. ASSUME NEW t \in Threads, PoolThreadStep(t)
        PROVE  ChangePending'
    BY <2>8 DEF PoolThreadStep, fileVars, loaderVars
  <2>9. ASSUME NEW w \in Subscribers, Apply(w)
        PROVE  ChangePending'
    BY <2>9 DEF Apply, fileVars, loaderVars
  <2>10. CASE UNCHANGED reloadVars
    BY <2>10 DEF reloadVars, fileVars, loaderVars
  <2>11. QED
    BY <2>1, <2>2, <2>3, <2>4, <2>5, <2>7, <2>8, <2>9, <2>10 DEF ReloadNext, LoaderStep
<1>3. QED BY <1>1, <1>2, ReloadInvCorrect, PTL DEF ReloadSpec

-----------------------------------------------------------------------------
\* As long as no update but the latest failed to be sent in time, a worker that
\* the latest has reached uses it or has it at the end of its mailbox.
OthersOk == \A n \in 1..Latest : n # Latest => call[n] = "ok"

HasLatest(w) ==
    IF mailbox[w] = <<>> THEN config[w] = updates[Latest]
    ELSE mailbox[w][Len(mailbox[w])] = Latest

Uptodate(w) ==
    /\ Latest = 0 => mailbox[w] = <<>> /\ config[w] = Startup
    /\ Latest # 0 /\ OthersOk /\ w \in delivered[Latest] => HasLatest(w)

FollowInv ==
    /\ DOMAIN config = Subscribers
    /\ \A w \in Subscribers : Uptodate(w)

\* Nobody delivers before the first update, and while all the others are done
\* only the latest is delivered.
LEMMA DeliversLatest ==
    ASSUME HubInv, LoaderPart, NEW t \in Threads, NEW w \in Subscribers, Deliver(t, w)
    PROVE  Latest # 0 /\ (OthersOk => carried[t] = Latest)
<1> DEFINE m == carried[t]
<1>1. /\ m \in Messages /\ w \notin delivered[m] /\ w \in Recipients[m]
      /\ Messages = 1..MaxEdits /\ MaxEdits \in Nat /\ Latest \in Nat
  BY ReloadAssumption, LenProperties
     DEF Deliver, HubInv, HubTypeOK, LoaderPart, LocalTypeOK, Latest
<1>2. OkMeansDelivered /\ RefusedHasNoEffect
  BY HubInvImplies
<1>3. Carriers(m) # {}
  BY DEF Carriers
<1>4. call[m] # "idle" /\ call[m] # "ok"
  BY <1>1, <1>2, <1>3 DEF OkMeansDelivered, RefusedHasNoEffect
<1>5. m <= Latest
  BY <1>1, <1>4 DEF LoaderPart, LoaderInv
<1>6. QED BY <1>1, <1>4, <1>5 DEF OthersOk

LEMMA FollowDeliver ==
    ASSUME HubInv, LoaderPart, FollowInv, NEW t \in Threads, NEW u \in Subscribers,
           Deliver(t, u), UNCHANGED <<fileVars, notified, loaderVars, config>>
    PROVE  FollowInv'
<1> SUFFICES ASSUME NEW w \in Subscribers PROVE Uptodate(w)'
  BY DEF FollowInv, Deliver
<1> DEFINE m == carried[t]
<1>1. HubTypeOK /\ Latest # 0 /\ (OthersOk => m = Latest) /\ m \in Messages
  BY DeliversLatest DEF HubInv, HubTypeOK, Deliver
<1>2. /\ updates' = updates /\ Latest' = Latest /\ config' = config /\ call' = call
      /\ OthersOk' = OthersOk
  BY DEF Deliver, loaderVars, Latest, OthersOk
<1>3. CASE w = u
  <2>1. mailbox[w] \in Seq(Messages) /\ mailbox'[w] = Append(mailbox[w], m)
    BY <1>1, <1>3, ReloadAssumption DEF HubTypeOK, Deliver, Kept
  <2>2. mailbox'[w] # <<>> /\ mailbox'[w][Len(mailbox'[w])] = m
    <3> HIDE DEF m
    <3>1. QED BY <1>1, <2>1, AppendProperties, LenProperties, EmptySeq
  <2> HIDE DEF m
  <2>3. QED BY <1>1, <1>2, <2>2 DEF Uptodate, HasLatest
<1>4. CASE w # u
  <2>1. mailbox'[w] = mailbox[w]
    BY <1>1, <1>4 DEF HubTypeOK, Deliver
  <2>2. \A n \in Messages : w \in delivered'[n] => w \in delivered[n]
    BY <1>1, <1>4 DEF HubTypeOK, Deliver
  <2>3. OthersOk => Latest \in Messages
    BY <1>1
  <2>4. QED
    BY <1>1, <1>2, <2>1, <2>2, <2>3 DEF FollowInv, Uptodate, HasLatest
<1>5. QED BY <1>3, <1>4

LEMMA FollowApply ==
    ASSUME HubInv, LoaderPart, FollowInv, NEW u \in Subscribers, Apply(u)
    PROVE  FollowInv'
<1> SUFFICES ASSUME NEW w \in Subscribers PROVE Uptodate(w)'
  BY DEF FollowInv, Apply
<1>1. HubTypeOK
  BY DEF HubInv
<1>2. /\ updates' = updates /\ Latest' = Latest /\ delivered' = delivered /\ call' = call
      /\ OthersOk' = OthersOk
  BY DEF Apply, Consume, loaderVars, Latest, OthersOk
<1>3. CASE w = u
  <2>1. /\ mailbox[w] \in Seq(Messages) /\ mailbox[w] # <<>>
        /\ mailbox'[w] = Tail(mailbox[w])
        /\ config'[w] = updates[Head(mailbox[w])]
    BY <1>1, <1>3 DEF HubTypeOK, Apply, Consume, FollowInv
  <2>2. ASSUME NEW q \in Seq(Messages), q # <<>>
        PROVE  IF Tail(q) = <<>> THEN Head(q) = q[Len(q)]
               ELSE Tail(q)[Len(Tail(q))] = q[Len(q)]
    BY ONLY <2>2, HeadTailProperties, EmptySeq, LenProperties
  <2>3. QED
    BY <1>2, <2>1, <2>2 DEF FollowInv, Uptodate, HasLatest
<1>4. CASE w # u
  <2>1. mailbox'[w] = mailbox[w] /\ config'[w] = config[w]
    BY <1>1, <1>4 DEF HubTypeOK, Apply, Consume
  <2>2. QED
    BY <1>2, <2>1 DEF FollowInv, Uptodate, HasLatest
<1>5. QED BY <1>3, <1>4

LEMMA FollowInvStep ==
    HubInv /\ LoaderPart /\ FollowInv /\ [ReloadNext]_reloadVars => FollowInv'
<1> SUFFICES ASSUME HubInv, LoaderPart, FollowInv, [ReloadNext]_reloadVars
             PROVE  FollowInv'
  OBVIOUS
<1>0. /\ HubTypeOK /\ Latest \in Nat /\ Latest <= MaxEdits /\ MaxEdits \in Nat
      /\ Messages = 1..MaxEdits
  BY ReloadAssumption, LenProperties
     DEF HubInv, LoaderPart, LocalTypeOK, EventsInv, Triggered, Latest
<1>1. ASSUME UNCHANGED <<updates, mailbox, delivered, config>>,
             \A n \in Messages : call'[n] = "ok" => call[n] = "ok" \/ n = Latest
      PROVE  FollowInv'
  <2>1. Latest' = Latest /\ (OthersOk' => OthersOk)
    BY <1>0, <1>1 DEF Latest, OthersOk
  <2>2. QED BY <1>1, <2>1 DEF FollowInv, Uptodate, HasLatest
<1>2. CASE LoadChange
  \* the new update has been delivered to nobody
  <2>1. /\ Latest' = Latest + 1 /\ UNCHANGED <<hubVars, config>>
        /\ Latest + 1 \in Messages
    BY <1>0, <1>2, UpdatesAppend DEF LoadChange, LoaderPart, LocalTypeOK, EventsInv, Triggered
  <2>2. call[Latest + 1] = "idle"
    BY <1>0, <2>1 DEF LoaderPart, LoaderInv
  <2>3. delivered[Latest + 1] = {}
    BY <2>1, <2>2, HubInvImplies DEF RefusedHasNoEffect
  <2>4. QED BY <1>0, <2>1, <2>3 DEF FollowInv, Uptodate, hubVars
<1>3. CASE Watch \/ TakeEvent \/ LoadNothing \/ PublishReturns \/ Bridge
  BY <1>1, <1>3 DEF Watch, TakeEvent, LoadNothing, PublishReturns, Bridge, hubVars
<1>4. ASSUME NEW content \in Contents \cup {Broken}, Edit(content)
      PROVE  FollowInv'
  BY <1>1, <1>4 DEF Edit, hubVars, loaderVars
<1>5. CASE Publish \/ PublishRefused \/ PublishTimesOut
  BY <1>0, <1>1, <1>5 DEF HubTypeOK, Publish, PublishRefused, PublishTimesOut,
     SubmitAccepted, SubmitRefused, CallerTimesOut
<1>6. ASSUME NEW t \in Threads, PoolThreadStep(t)
      PROVE  FollowInv'
  <2>1. CASE \E w \in Subscribers : Deliver(t, w)
    BY <1>6, <2>1, FollowDeliver DEF PoolThreadStep
  <2>2. CASE TakeTask(t)
    BY <1>1, <1>6, <2>2 DEF PoolThreadStep, TakeTask, loaderVars
  <2>3. CASE CompleteTask(t)
    BY <1>0, <1>1, <1>6, <2>3
       DEF PoolThreadStep, CompleteTask, loaderVars, HubTypeOK, LoaderPart, LoaderInv
  <2>4. QED BY <1>6, <2>1, <2>2, <2>3 DEF PoolThreadStep
<1>7. ASSUME NEW w \in Subscribers, Apply(w)
      PROVE  FollowInv'
  BY <1>7, FollowApply
<1>8. CASE UNCHANGED reloadVars
  BY <1>1, <1>8 DEF reloadVars, hubVars, loaderVars
<1>9. QED
  BY <1>2, <1>3, <1>4, <1>5, <1>6, <1>7, <1>8 DEF ReloadNext, LoaderStep

\* When every update was sent in time, a worker that has read its mailbox uses
\* the configuration the loader read last.
THEOREM WorkersAgree == ReloadSpec => []FollowersAgree
<1>1. ReloadInit => FollowInv
  <2> SUFFICES ASSUME ReloadInit PROVE FollowInv
    OBVIOUS
  <2>1. Latest = 0
    BY EmptySeq DEF ReloadInit, Latest
  <2>2. QED BY <2>1 DEF ReloadInit, HubInit, FollowInv, Uptodate
<1>2. ASSUME HubInv, LoaderPart, FollowInv
      PROVE  FollowersAgree
  <2> SUFFICES ASSUME \A n \in 1..Len(updates) : call[n] = "ok",
                      NEW w \in Subscribers, mailbox[w] = <<>>
               PROVE  config[w] = current
    BY DEF FollowersAgree
  <2>1. /\ Latest \in Nat /\ Latest <= MaxEdits /\ MaxEdits \in Nat
        /\ Messages = 1..MaxEdits /\ Recipients = [n \in Messages |-> Subscribers]
    BY <1>2, ReloadAssumption, LenProperties
       DEF LoaderPart, LocalTypeOK, EventsInv, Triggered, Latest
  <2>2. CASE Latest = 0
    BY <1>2, <2>2 DEF LoaderPart, LoaderInv, FollowInv, Uptodate
  <2>3. CASE Latest # 0
    <3>1. OthersOk /\ call[Latest] = "ok" /\ Latest \in Messages
      BY <2>1, <2>3 DEF OthersOk, Latest
    <3>2. w \in delivered[Latest]
      BY <1>2, <2>1, <3>1, HubInvImplies DEF OkMeansDelivered
    <3>3. QED
      BY <1>2, <2>3, <3>1, <3>2 DEF LoaderPart, LoaderInv, FollowInv, Uptodate, HasLatest
  <2>4. QED BY <2>2, <2>3
<1>3. QED BY <1>1, <1>2, FollowInvStep, ReloadInvCorrect, PTL DEF ReloadSpec

-----------------------------------------------------------------------------
\* Mailboxes hold updates that exist, so that what a worker takes over is a
\* content of the file.
Sent(w) == \A i \in 1..Len(mailbox[w]) : mailbox[w][i] <= Latest

ConfigInv ==
    /\ config \in [Subscribers -> Contents]
    /\ \A w \in Subscribers : Sent(w)

\* What is delivered has been published.
LEMMA DeliversSent ==
    ASSUME HubInv, LoaderPart, NEW t \in Threads, NEW w \in Subscribers, Deliver(t, w)
    PROVE  carried[t] \in Messages /\ carried[t] <= Latest
<1> DEFINE m == carried[t]
<1>1. m \in Messages /\ w \notin delivered[m]
  BY DEF Deliver, HubInv, HubTypeOK
<1>2. RefusedHasNoEffect
  BY HubInvImplies
<1>3. Carriers(m) # {}
  BY DEF Carriers
<1>4. call[m] # "idle"
  BY <1>1, <1>2, <1>3 DEF RefusedHasNoEffect
<1>5. Messages = 1..MaxEdits /\ MaxEdits \in Nat /\ Latest \in Nat
  BY ReloadAssumption, LenProperties DEF LoaderPart, LocalTypeOK, Latest
<1>6. QED BY <1>1, <1>4, <1>5 DEF LoaderPart, LoaderInv

LEMMA ConfigDeliver ==
    ASSUME HubInv, LoaderPart, ConfigInv, NEW t \in Threads, NEW u \in Subscribers,
           Deliver(t, u), UNCHANGED <<fileVars, notified, loaderVars, config>>
    PROVE  ConfigInv'
<1>1. config' = config /\ Latest' = Latest
  BY DEF loaderVars, Latest
<1>2. HubTypeOK /\ carried[t] \in Messages /\ carried[t] <= Latest
  BY DeliversSent DEF HubInv
<1> SUFFICES ASSUME NEW w \in Subscribers PROVE Sent(w)'
  BY <1>1 DEF ConfigInv
<1>3. CASE w # u
  <2>1. mailbox'[w] = mailbox[w]
    BY <1>2, <1>3 DEF HubTypeOK, Deliver
  <2>2. QED BY <1>1, <2>1 DEF ConfigInv, Sent
<1>4. CASE w = u
  <2>1. mailbox[w] \in Seq(Messages) /\ mailbox'[w] = Append(mailbox[w], carried[t])
    BY <1>2, <1>4, ReloadAssumption DEF HubTypeOK, Deliver, Kept
  <2>2. /\ Len(mailbox'[w]) = Len(mailbox[w]) + 1
        /\ \A i \in 1..Len(mailbox[w]) : mailbox'[w][i] = mailbox[w][i]
        /\ mailbox'[w][Len(mailbox[w]) + 1] = carried[t]
        /\ Len(mailbox[w]) \in Nat
    BY <1>2, <2>1, AppendProperties, LenProperties
  <2>3. QED BY <1>1, <1>2, <2>2 DEF ConfigInv, Sent
<1>5. QED BY <1>3, <1>4

LEMMA ConfigApply ==
    ASSUME HubInv, LoaderPart, ConfigInv, NEW u \in Subscribers, Apply(u)
    PROVE  ConfigInv'
<1>1. HubTypeOK /\ Latest' = Latest /\ updates \in Seq(Contents)
  BY DEF HubInv, LoaderPart, LocalTypeOK, Apply, loaderVars, Latest
<1>2. /\ mailbox[u] \in Seq(Messages) /\ mailbox[u] # <<>>
      /\ config' = [config EXCEPT ![u] = updates[Head(mailbox[u])]]
      /\ mailbox' = [mailbox EXCEPT ![u] = Tail(@)]
  BY <1>1 DEF HubTypeOK, Apply, Consume
<1>3. ASSUME NEW q \in Seq(Messages), q # <<>>
      PROVE  /\ Head(q) = q[1] /\ Len(q) \in Nat \ {0} /\ Head(q) \in Messages
             /\ Len(Tail(q)) = Len(q) - 1
             /\ \A i \in 1..Len(Tail(q)) : Tail(q)[i] = q[i + 1]
  BY ONLY <1>3, HeadTailProperties, EmptySeq, LenProperties
<1>4. Messages = 1..MaxEdits /\ MaxEdits \in Nat /\ Latest \in Nat
  BY ReloadAssumption, LenProperties DEF LoaderPart, LocalTypeOK, Latest
<1>5. Head(mailbox[u]) \in 1..Latest
  BY <1>2, <1>3, <1>4 DEF ConfigInv, Sent
<1>6. updates[Head(mailbox[u])] \in Contents
  BY <1>1, <1>5, ElementOfSeq DEF Latest
<1>7. config' \in [Subscribers -> Contents]
  BY <1>2, <1>6 DEF ConfigInv
<1>8. ASSUME NEW w \in Subscribers
      PROVE  Sent(w)'
  <2>1. CASE w # u
    BY <1>1, <1>2, <2>1 DEF ConfigInv, Sent, HubTypeOK
  <2>2. CASE w = u
    <3>1. mailbox'[w] = Tail(mailbox[u])
      BY <1>1, <1>2, <2>2 DEF HubTypeOK
    <3>2. QED BY <1>1, <1>2, <1>3, <1>4, <2>2, <3>1 DEF ConfigInv, Sent
  <2>3. QED BY <2>1, <2>2
<1>9. QED BY <1>7, <1>8 DEF ConfigInv

LEMMA ConfigInvStep ==
    HubInv /\ LoaderPart /\ ConfigInv /\ [ReloadNext]_reloadVars => ConfigInv'
<1> SUFFICES ASSUME HubInv, LoaderPart, ConfigInv, [ReloadNext]_reloadVars
             PROVE  ConfigInv'
  OBVIOUS
<1>0. HubTypeOK /\ Latest \in Nat /\ Messages = 1..MaxEdits /\ MaxEdits \in Nat
  BY ReloadAssumption, LenProperties DEF HubInv, LoaderPart, LocalTypeOK, Latest
<1>1. ASSUME UNCHANGED <<updates, mailbox, config>>
      PROVE  ConfigInv'
  BY <1>1 DEF ConfigInv, Sent, Latest
<1>2. CASE LoadChange
  <2>1. Latest' = Latest + 1 /\ UNCHANGED <<mailbox, config>>
    BY <1>2, UpdatesAppend DEF LoadChange, LoaderPart, hubVars
  <2>2. \A w \in Subscribers : mailbox[w] \in Seq(Messages)
    BY <1>0 DEF HubTypeOK
  <2>3. ASSUME NEW w \in Subscribers, NEW i \in 1..Len(mailbox[w])
        PROVE  mailbox[w][i] <= Latest + 1
    <3>1. mailbox[w][i] \in Messages /\ mailbox[w][i] <= Latest
      BY <2>2, <2>3, ElementOfSeq DEF ConfigInv, Sent
    <3>2. QED BY <1>0, <3>1
  <2>4. QED BY <2>1, <2>3 DEF ConfigInv, Sent
<1>3. CASE Watch \/ TakeEvent \/ LoadNothing \/ PublishReturns \/ Bridge
  BY <1>1, <1>3 DEF Watch, TakeEvent, LoadNothing, PublishReturns, Bridge, hubVars
<1>4. ASSUME NEW content \in Contents \cup {Broken}, Edit(content)
      PROVE  ConfigInv'
  BY <1>1, <1>4 DEF Edit, hubVars, loaderVars
<1>5. CASE Publish \/ PublishRefused \/ PublishTimesOut
  BY <1>1, <1>5 DEF Publish, PublishRefused, PublishTimesOut,
     SubmitAccepted, SubmitRefused, CallerTimesOut
<1>6. ASSUME NEW t \in Threads, PoolThreadStep(t)
      PROVE  ConfigInv'
  <2>1. CASE \E w \in Subscribers : Deliver(t, w)
    BY <1>6, <2>1, ConfigDeliver DEF PoolThreadStep
  <2>2. CASE TakeTask(t) \/ CompleteTask(t)
    BY <1>1, <1>6, <2>2 DEF PoolThreadStep, TakeTask, CompleteTask, loaderVars
  <2>3. QED BY <1>6, <2>1, <2>2 DEF PoolThreadStep
<1>7. ASSUME NEW w \in Subscribers, Apply(w)
      PROVE  ConfigInv'
  BY <1>7, ConfigApply
<1>8. CASE UNCHANGED reloadVars
  BY <1>1, <1>8 DEF reloadVars, hubVars, loaderVars
<1>9. QED
  BY <1>2, <1>3, <1>4, <1>5, <1>6, <1>7, <1>8 DEF ReloadNext, LoaderStep

\* Every reachable state is well typed: in particular every worker uses a
\* content that was in the file, whatever was dropped, refused or late.
THEOREM ReloadTypeCorrect == ReloadSpec => []ReloadTypeOK
<1>1. ReloadInit => ConfigInv
  BY ReloadAssumption, EmptySeq DEF ReloadInit, HubInit, ConfigInv, Sent
<1>2. HubInv /\ LoaderPart /\ ConfigInv => ReloadTypeOK
  <2> SUFFICES ASSUME HubInv, LoaderPart, ConfigInv PROVE ReloadTypeOK
    OBVIOUS
  <2>1. Latest \in Nat /\ edits \in Nat /\ notified \in Nat /\ buffered \in Nat /\ Triggered \in Nat
    BY LenProperties, ReloadAssumption DEF LoaderPart, LocalTypeOK, Latest, Triggered
  <2>2. Latest + notified + buffered + Triggered <= edits
    BY DEF LoaderPart, EventsInv
  <2>3. Latest <= edits
    BY ONLY <2>1, <2>2
  <2>4. QED BY <2>3 DEF ReloadTypeOK, HubInv, LoaderPart, LocalTypeOK, ConfigInv, Latest
<1>3. QED BY <1>1, <1>2, ConfigInvStep, ReloadInvCorrect, PTL DEF ReloadSpec

-----------------------------------------------------------------------------
\* What an array of tables is in TLA+.
LEMMA ArrayIndices ==
    ASSUME NEW entries, Array(entries)
    PROVE  /\ Len(entries) \in Nat
           /\ DOMAIN entries = 1..Len(entries)
           /\ ToSet(entries) = {entries[k] : k \in DOMAIN entries}
BY LenProperties DEF Array, ToSet

\* A function on 1..n is a sequence of length n.
LEMMA FunctionIsSeq ==
    ASSUME NEW n \in Nat, NEW S, NEW f \in [1..n -> S]
    PROVE  f \in Seq(S) /\ Len(f) = n
<1>1. f \in Seq(S)
  BY SeqDef
<1>2. f = [k \in 1..n |-> f[k]]
  OBVIOUS
<1>3. Len([k \in 1..n |-> f[k]]) = n
  BY ONLY n \in Nat
<1>4. QED BY <1>1, <1>2, <1>3

\* A default does not hide a key that is there, and it stands for one that is not.
LEMMA CompletedKeys ==
    ASSUME NEW entries, Array(entries), NEW defaults, NEW k \in DOMAIN entries, NEW key
    PROVE  /\ DOMAIN Completed(entries, defaults) = DOMAIN entries
           /\ key \in DOMAIN entries[k]
                => Completed(entries, defaults)[k][key] = entries[k][key]
           /\ key \in DOMAIN defaults \ DOMAIN entries[k]
                => Completed(entries, defaults)[k][key] = defaults[key]
BY DEF Completed, WithDefaults

LEMMA CompletedIsArray ==
    ASSUME NEW entries, Array(entries), NEW defaults
    PROVE  Array(Completed(entries, defaults)) /\ Len(Completed(entries, defaults)) = Len(entries)
<1> DEFINE c == Completed(entries, defaults)
<1>1. Len(entries) \in Nat /\ DOMAIN entries = 1..Len(entries)
  BY ArrayIndices
<1>2. c = [k \in 1..Len(entries) |-> c[k]]
  BY <1>1 DEF Completed
<1> HIDE DEF c
<1>3. c \in Seq(ToSet(c)) /\ Len(c) = Len(entries)
  <2>1. \A k \in 1..Len(entries) : c[k] \in ToSet(c)
    BY <1>2 DEF ToSet
  <2>2. c \in [1..Len(entries) -> ToSet(c)]
    BY <1>2, <2>1
  <2>3. QED BY <1>1, <1>2, <2>2, SeqDef, LenProperties
<1>4. QED BY <1>3 DEF Array, c

-----------------------------------------------------------------------------
\* Workers of some kinds that are pairwise different, those for Modbus each with
\* a device of the file.
WellMade(s, kinds, ids) ==
    /\ s \in Seq([kind : kinds, device : ids \cup {""}])
    /\ \A k, l \in 1..Len(s) : s[k] = s[l] => k = l
    /\ \A k \in 1..Len(s) : s[k].kind = "modbus" => s[k].device \in ids

LEMMA WellMadeOne ==
    ASSUME NEW kind, kind # "modbus", NEW ids
    PROVE  WellMade(<<[kind |-> kind, device |-> ""]>>, {kind}, ids)
<1> DEFINE s == <<[kind |-> kind, device |-> ""]>>
<1>1. /\ s \in Seq([kind : {kind}, device : ids \cup {""}])
      /\ Len(s) = 1 /\ s[1] = [kind |-> kind, device |-> ""]
  OBVIOUS
<1> HIDE DEF s
<1>2. \A k \in 1..Len(s) : k = 1
  <2>1. Len(s) = 1
    BY <1>1
  <2>2. QED BY ONLY <2>1
<1>3. WellMade(s, {kind}, ids)
  <2> DEFINE w == [kind |-> kind, device |-> ""]
  <2>1. w.kind = kind
    OBVIOUS
  <2>2. s[1] = w
    BY <1>1
  <2> HIDE DEF w
  <2>3. s[1].kind = kind
    BY ONLY <2>1, <2>2
  <2>4. QED BY <1>1, <1>2, <2>3 DEF WellMade
<1>4. QED BY <1>3 DEF s

LEMMA WellMadeNone ==
    ASSUME NEW ids
    PROVE  WellMade(<<>>, {}, ids)
BY DEF WellMade

LEMMA WellMadeConcat ==
    ASSUME NEW s, NEW t, NEW ids, NEW A, NEW B, A \cap B = {},
           WellMade(s, A, ids), WellMade(t, B, ids)
    PROVE  WellMade(s \o t, A \cup B, ids)
<1> DEFINE W == [kind : A \cup B, device : ids \cup {""}]
           r == s \o t
<1>1. /\ s \in Seq([kind : A, device : ids \cup {""}])
      /\ t \in Seq([kind : B, device : ids \cup {""}])
  BY DEF WellMade
<1>2. Len(s) \in Nat /\ Len(t) \in Nat
  BY <1>1, LenProperties
<1>3. /\ \A k \in 1..Len(s) : s[k] \in [kind : A, device : ids \cup {""}]
      /\ \A k \in 1..Len(t) : t[k] \in [kind : B, device : ids \cup {""}]
  BY <1>1, ElementOfSeq
<1>4. s \in Seq(W) /\ t \in Seq(W)
  <2>1. /\ [kind : A, device : ids \cup {""}] \subseteq W
        /\ [kind : B, device : ids \cup {""}] \subseteq W
    OBVIOUS
  <2>2. QED BY <1>1, <2>1, SeqMonotonic
<1>5. /\ r \in Seq(W) /\ Len(r) = Len(s) + Len(t)
      /\ \A k \in 1..Len(s) + Len(t) : r[k] = IF k <= Len(s) THEN s[k] ELSE t[k - Len(s)]
  BY <1>4, ConcatProperties
<1> HIDE DEF r
<1>6. ASSUME NEW k \in 1..Len(r)
      PROVE  \/ k \in 1..Len(s) /\ r[k] = s[k]
             \/ k - Len(s) \in 1..Len(t) /\ r[k] = t[k - Len(s)] /\ k > Len(s)
  <2>1. /\ Len(s) \in Nat /\ Len(t) \in Nat /\ k \in 1..Len(s) + Len(t)
        /\ r[k] = IF k <= Len(s) THEN s[k] ELSE t[k - Len(s)]
    BY <1>2, <1>5
  <2>2. CASE k <= Len(s)
    BY ONLY <2>1, <2>2
  <2>3. CASE k > Len(s)
    BY ONLY <2>1, <2>3
  <2>4. QED BY <2>1, <2>2, <2>3
<1>7. ASSUME NEW k \in 1..Len(s), NEW l \in 1..Len(t)
      PROVE  s[k] # t[l]
  <2>1. s[k].kind \in A /\ t[l].kind \in B
    BY <1>3
  <2>2. QED BY <2>1
<1>8. ASSUME NEW k \in 1..Len(r), NEW l \in 1..Len(r), r[k] = r[l]
      PROVE  k = l
  <2>0. /\ \A i, j \in 1..Len(s) : s[i] = s[j] => i = j
        /\ \A i, j \in 1..Len(t) : t[i] = t[j] => i = j
    BY DEF WellMade
  <2>1. CASE r[k] = s[k] /\ r[l] = s[l] /\ k \in 1..Len(s) /\ l \in 1..Len(s)
    BY <1>8, <2>0, <2>1
  <2>2. CASE /\ r[k] = t[k - Len(s)] /\ r[l] = t[l - Len(s)]
             /\ k - Len(s) \in 1..Len(t) /\ l - Len(s) \in 1..Len(t)
    <3>1. k - Len(s) = l - Len(s)
      BY <1>8, <2>0, <2>2
    <3>2. r \in Seq(W)
      BY <1>5
    <3> HIDE DEF W
    <3>3. Len(s) \in Int /\ Len(r) \in Int
      BY <1>2, <3>2, LenProperties
    <3>4. k \in Int /\ l \in Int
      BY ONLY <3>3, k \in 1..Len(r), l \in 1..Len(r)
    <3>5. QED BY ONLY <3>1, <3>3, <3>4
  <2>3. CASE /\ r[k] = s[k] /\ r[l] = t[l - Len(s)]
             /\ k \in 1..Len(s) /\ l - Len(s) \in 1..Len(t)
    BY <1>7, <1>8, <2>3
  <2>4. CASE /\ r[k] = t[k - Len(s)] /\ r[l] = s[l]
             /\ k - Len(s) \in 1..Len(t) /\ l \in 1..Len(s)
    BY <1>7, <1>8, <2>4
  <2>5. QED BY <1>6, <2>1, <2>2, <2>3, <2>4
<1>9. ASSUME NEW k \in 1..Len(r), r[k].kind = "modbus"
      PROVE  r[k].device \in ids
  BY <1>6, <1>9 DEF WellMade
<1>10. WellMade(r, A \cup B, ids)
  BY <1>5, <1>8, <1>9 DEF WellMade
<1>11. QED BY <1>10 DEF r

\* Whatever the file says: if its devices have different ids, no two workers are
\* started under one name and for one device.
Ids(conf) == {conf.devices[k].id : k \in DOMAIN conf.devices}

LEMMA StartedAreDistinct ==
    ASSUME NEW conf, Array(conf.devices),
           \A k, l \in DOMAIN conf.devices :
               conf.devices[k].id = conf.devices[l].id => k = l
    PROVE  \E kinds : WellMade(StartedWorkers(conf), kinds, Ids(conf))
<1> DEFINE ids == Ids(conf)
           one(kind) == <<[kind |-> kind, device |-> ""]>>
           modbus == [k \in DOMAIN conf.devices |->
                         [kind |-> "modbus", device |-> conf.devices[k].id]]
           last == IF conf.streams = <<>> THEN <<>> ELSE one("data_stream") \o one("sse")
<1>1. WellMade(modbus, {"modbus"}, ids)
  <2>1. Len(conf.devices) \in Nat /\ DOMAIN conf.devices = 1..Len(conf.devices)
    BY ArrayIndices
  <2>2. \A k \in 1..Len(conf.devices) :
            /\ modbus[k] = [kind |-> "modbus", device |-> conf.devices[k].id]
            /\ conf.devices[k].id \in ids
    BY <2>1 DEF Ids
  <2>3. modbus \in [1..Len(conf.devices) -> [kind : {"modbus"}, device : ids \cup {""}]]
    BY <2>1, <2>2
  <2> HIDE DEF modbus, ids
  <2>4. /\ modbus \in Seq([kind : {"modbus"}, device : ids \cup {""}])
        /\ Len(modbus) = Len(conf.devices)
    <3> DEFINE n == Len(conf.devices)
    <3> HIDE DEF n
    <3>1. n \in Nat /\ modbus \in [1..n -> [kind : {"modbus"}, device : ids \cup {""}]]
      BY <2>1, <2>3 DEF n
    <3>2. modbus \in Seq([kind : {"modbus"}, device : ids \cup {""}]) /\ Len(modbus) = n
      BY ONLY <3>1, FunctionIsSeq
    <3>3. QED BY <3>2 DEF n
  <2>5. ASSUME NEW k \in 1..Len(modbus)
        PROVE  modbus[k].device = conf.devices[k].id
    <3> DEFINE w == [kind |-> "modbus", device |-> conf.devices[k].id]
    <3>1. w.device = conf.devices[k].id
      OBVIOUS
    <3>2. modbus[k] = w
      BY <2>2, <2>4
    <3> HIDE DEF w
    <3>3. QED BY ONLY <3>1, <3>2
  <2>6. \A k, l \in 1..Len(modbus) : modbus[k] = modbus[l] => k = l
    BY <2>1, <2>4, <2>5
  <2>7. \A k \in 1..Len(modbus) : modbus[k].device \in ids
    BY <2>2, <2>4, <2>5
  <2>8. QED BY <2>4, <2>6, <2>7 DEF WellMade
<1> HIDE DEF modbus, ids
<1>2. \A kind \in {"rpc", "http", "device_manager", "config_loader", "latency_monitor",
                   "heartbeat", "data_stream", "sse"} : WellMade(one(kind), {kind}, ids)
  BY WellMadeOne
<1>3. PICK end : end \in {{}, {"data_stream", "sse"}} /\ WellMade(last, end, ids)
  <2>1. WellMade(one("data_stream") \o one("sse"), {"data_stream"} \cup {"sse"}, ids)
    BY <1>2, WellMadeConcat
  <2>2. {"data_stream"} \cup {"sse"} = {"data_stream", "sse"}
    OBVIOUS
  <2>3. QED BY <2>1, <2>2, WellMadeNone
<1> HIDE DEF one, last
<1>4. ASSUME NEW s, NEW kinds, WellMade(s, kinds, ids),
             NEW kind \in {"rpc", "http", "device_manager", "config_loader",
                           "latency_monitor", "heartbeat"},
             kind \notin kinds
      PROVE  WellMade(s \o one(kind), kinds \cup {kind}, ids)
  <2>1. WellMade(one(kind), {kind}, ids) /\ kinds \cap {kind} = {}
    BY <1>2, <1>4
  <2>2. QED BY <1>4, <2>1, WellMadeConcat
<1>5. PICK a : a = one("rpc") /\ WellMade(a, {"rpc"}, ids)
  BY <1>2
<1>6. PICK b : b = a \o one("http") /\ WellMade(b, {"rpc"} \cup {"http"}, ids)
  BY <1>4, <1>5
<1>7. PICK c : c = b \o one("device_manager")
              /\ WellMade(c, {"rpc", "http"} \cup {"device_manager"}, ids)
  <2>1. {"rpc"} \cup {"http"} = {"rpc", "http"}
    OBVIOUS
  <2>2. QED BY <1>4, <1>6, <2>1
<1>8. PICK d : d = c \o one("config_loader")
              /\ WellMade(d, {"rpc", "http", "device_manager"} \cup {"config_loader"}, ids)
  <2>1. {"rpc", "http"} \cup {"device_manager"} = {"rpc", "http", "device_manager"}
    OBVIOUS
  <2>2. QED BY <1>4, <1>7, <2>1
<1>9. PICK e : e = d \o one("latency_monitor")
              /\ WellMade(e, {"rpc", "http", "device_manager", "config_loader"}
                                \cup {"latency_monitor"}, ids)
  <2>1. {"rpc", "http", "device_manager"} \cup {"config_loader"}
            = {"rpc", "http", "device_manager", "config_loader"}
    OBVIOUS
  <2>2. QED BY <1>4, <1>8, <2>1
<1>10. PICK f : f = e \o modbus
              /\ WellMade(f, {"rpc", "http", "device_manager", "config_loader",
                              "latency_monitor"} \cup {"modbus"}, ids)
  <2>1. {"rpc", "http", "device_manager", "config_loader"} \cup {"latency_monitor"}
            = {"rpc", "http", "device_manager", "config_loader", "latency_monitor"}
    OBVIOUS
  <2>2. QED BY <1>1, <1>9, <2>1, WellMadeConcat
<1>11. PICK g : g = f \o one("heartbeat")
              /\ WellMade(g, {"rpc", "http", "device_manager", "config_loader",
                              "latency_monitor", "modbus"} \cup {"heartbeat"}, ids)
  <2>1. {"rpc", "http", "device_manager", "config_loader", "latency_monitor"} \cup {"modbus"}
            = {"rpc", "http", "device_manager", "config_loader", "latency_monitor", "modbus"}
    OBVIOUS
  <2>2. QED BY <1>4, <1>10, <2>1
<1>12. PICK kinds : WellMade(g \o last, kinds, ids)
  <2>1. ({"rpc", "http", "device_manager", "config_loader", "latency_monitor", "modbus"}
             \cup {"heartbeat"}) \cap end = {}
    BY <1>3
  <2>2. QED BY <1>3, <1>11, <2>1, WellMadeConcat
<1>13. g \o last = StartedWorkers(conf)
  BY <1>5, <1>6, <1>7, <1>8, <1>9, <1>10, <1>11 DEF StartedWorkers, one, last, modbus
<1>14. WellMade(StartedWorkers(conf), kinds, Ids(conf))
  BY <1>12, <1>13 DEF ids
<1>15. QED BY <1>14

-----------------------------------------------------------------------------
\* Fields with names of their own have as many names.
LEMMA NamesCounted ==
    ASSUME NEW fields, Array(fields),
           \A k, l \in DOMAIN fields : fields[k].name = fields[l].name => k = l
    PROVE  Cardinality({fields[j].name : j \in DOMAIN fields}) = Len(fields)
<1> DEFINE n == Len(fields)
           names == {fields[j].name : j \in DOMAIN fields}
           f == [j \in 1..n |-> fields[j].name]
<1>1. n \in Nat /\ DOMAIN fields = 1..n
  BY ArrayIndices
<1>2. f \in [1..n -> names]
  BY <1>1
<1>3. \A k, l \in 1..n : f[k] = f[l] => k = l
  BY <1>1
<1>4. \A name \in names : \E j \in 1..n : f[j] = name
  BY <1>1
<1> HIDE DEF f, names, n
<1>5. f \in Bijection(1..n, names)
  BY <1>2, <1>3, <1>4 DEF Bijection, Injection, Surjection, IsInjective
<1>6. ExistsBijection(1..n, names)
  BY <1>5 DEF ExistsBijection
<1>7. Cardinality(names) = n
  BY <1>1, <1>6, FS_CountingElements
<1>8. QED BY <1>7 DEF names, n

LEMMA U16Bounds ==
    /\ MaxU16 \in Int
    /\ \A n \in U16 : n \in Int /\ 0 <= n
BY DEF U16, MaxU16

LEMMA AcceptedGroup ==
    ASSUME NEW group, ReadableGroup(group),
           ValidAddress(group.register_address), ValidGroup(group)
    PROVE  UsableGroup(group)
<1> DEFINE fields == group.fields
           address == group.register_address
<1>1. ParseRegisterAddress(address) # Unparsable
  <2>1. address.letter \in DOMAIN KindOf /\ address.number \in U16
    BY DEF ValidAddress, Prefix, KindOf
  <2>2. ParseRegisterAddress(address).address = address.number
    BY <2>1 DEF ParseRegisterAddress
  <2>3. address.number # -1
    <3>1. PICK number : number = address.number
      OBVIOUS
    <3>2. number \in U16
      BY <2>1, <3>1
    <3>3. number \in Int /\ 0 <= number
      BY ONLY <3>2, U16Bounds
    <3>4. number # -1
      BY ONLY <3>3
    <3>5. QED BY ONLY <3>1, <3>4
  <2>4. Unparsable.address = -1
    BY DEF Unparsable
  <2>5. QED BY <2>2, <2>3, <2>4
<1>2. Cardinality({fields[j].name : j \in DOMAIN fields}) = Len(fields)
  BY NamesCounted DEF ReadableGroup, ValidGroup
<1>3. ASSUME group.register_count < MaxU16, NEW j \in DOMAIN fields
      PROVE  fields[j].offset + Types!RequiredRegisters(fields[j].data_type)
                <= group.register_count
  <2>1. /\ fields[j].offset \in U16 /\ fields[j].data_type \in Types!DataType
        /\ group.register_count \in U16
    BY <1>3 DEF ReadableGroup, ReadableField
  <2>2. Types!RequiredRegisters(fields[j].data_type) \in {1, 2, 4}
    BY <2>1 DEF Types!RequiredRegisters, Types!DataType
  <2>3. EndOffset(fields[j]) <= group.register_count
    BY <1>3 DEF ValidGroup
  <2>4. PICK o, r, c : /\ o = fields[j].offset
                       /\ r = Types!RequiredRegisters(fields[j].data_type)
                       /\ c = group.register_count
    OBVIOUS
  <2>5. o \in U16 /\ r \in {1, 2, 4} /\ c \in U16 /\ c < MaxU16
    BY <1>3, <2>1, <2>2, <2>4
  <2>6. (IF o + r > MaxU16 THEN MaxU16 ELSE o + r) <= c
    BY <2>3, <2>4 DEF EndOffset
  <2>7. o \in Int /\ r \in Int /\ c \in Int /\ MaxU16 \in Int
    BY ONLY <2>5, U16Bounds
  <2>8. c < MaxU16
    BY <2>5
  <2>9. o + r <= c
    BY ONLY <2>6, <2>7, <2>8
  <2>10. QED BY <2>4, <2>9
<1>4. QED BY <1>1, <1>2, <1>3 DEF UsableGroup

\* The polling intervals that streams are grouped by.
LEMMA AcceptedIntervals ==
    ASSUME NEW text, FromFile(text)
    PROVE  \A interval \in DOMAIN StreamGroups(Parsed(text)) : interval \in PollInterval
<1> DEFINE streams == Section(text, "streams")
           conf == Parsed(text)
<1>1. conf.streams = Completed(streams, StreamDefaults)
  BY DEF Parsed
<1>2. /\ Array(streams)
      /\ \A k \in DOMAIN streams : ReadableStream(streams[k])
      /\ \A k \in DOMAIN conf.streams : ValidStream(conf.streams[k])
  BY DEF FromFile, Readable, Valid
<1>3. ASSUME NEW k \in DOMAIN conf.streams
      PROVE  conf.streams[k].poll_interval_ms \in PollInterval
  <2>1. k \in DOMAIN streams
    BY <1>1 DEF Completed
  <2>2. conf.streams[k].poll_interval_ms \in Nat
    <3>1. CASE "poll_interval_ms" \in DOMAIN streams[k]
      BY <1>1, <1>2, <2>1, <3>1, CompletedKeys DEF ReadableStream
    <3>2. CASE "poll_interval_ms" \notin DOMAIN streams[k]
      <4>1. "poll_interval_ms" \in DOMAIN StreamDefaults /\ StreamDefaults["poll_interval_ms"] = 100
        BY DEF StreamDefaults
      <4>2. QED BY <1>1, <1>2, <2>1, <3>2, <4>1, CompletedKeys
    <3>3. QED BY <3>1, <3>2
  <2>3. /\ conf.streams[k].poll_interval_ms >= 5
        /\ conf.streams[k].poll_interval_ms <= 5000
    BY <1>2, <1>3 DEF ValidStream
  <2>4. PICK ms : ms = conf.streams[k].poll_interval_ms
    OBVIOUS
  <2>5. ms \in Nat /\ ms >= 5 /\ ms <= 5000
    BY <2>2, <2>3, <2>4
  <2>6. ms \in PollInterval
    BY ONLY <2>5 DEF PollInterval
  <2>7. QED BY ONLY <2>4, <2>6
<1> HIDE DEF conf
<1>4. DOMAIN StreamGroups(conf) \subseteq {s.poll_interval_ms : s \in ToSet(conf.streams)}
  BY DEF StreamGroups
<1>5. ToSet(conf.streams) = {conf.streams[k] : k \in DOMAIN conf.streams}
  BY <1>1, <1>2, CompletedIsArray, ArrayIndices DEF conf
<1>6. ASSUME NEW interval \in DOMAIN StreamGroups(conf)
      PROVE  interval \in PollInterval
  <2>1. PICK s \in ToSet(conf.streams) : interval = s.poll_interval_ms
    BY <1>4
  <2>2. PICK k \in DOMAIN conf.streams : s = conf.streams[k]
    BY <1>5
  <2>3. interval = conf.streams[k].poll_interval_ms
    BY <2>1, <2>2
  <2>4. conf.streams[k].poll_interval_ms \in PollInterval
    BY <1>3
  <2>5. QED BY ONLY <2>3, <2>4
<1>7. QED BY <1>6 DEF conf

\* What Config::validate lets pass is enough for what the workers take for
\* granted, whatever the file says: config.rs against main.rs, operations.rs,
\* data_stream_worker.rs and the Modbus worker.
THEOREM AcceptedIsUsable ==
    ASSUME NEW text, FromFile(text)
    PROVE  Usable(Parsed(text))
<1> DEFINE devices == Section(text, "devices")
           conf == Parsed(text)
           started == StartedWorkers(conf)
<1>1. conf.devices = Completed(devices, DeviceDefaults)
  BY DEF Parsed
<1>2. /\ Array(devices)
      /\ \A k \in DOMAIN devices : ReadableDevice(devices[k])
  BY DEF FromFile, Readable
<1>3. Array(conf.devices) /\ DOMAIN conf.devices = DOMAIN devices
  BY <1>1, <1>2, CompletedIsArray DEF Completed
<1>4. \A k, l \in DOMAIN conf.devices : conf.devices[k].id = conf.devices[l].id => k = l
  BY DEF FromFile, Valid
<1>5. PICK kinds : WellMade(started, kinds, Ids(conf))
  BY <1>3, <1>4, StartedAreDistinct
<1>6. /\ Len(started) \in Nat /\ DOMAIN started = 1..Len(started)
      /\ ToSet(started) = {started[k] : k \in DOMAIN started}
  <2>1. started \in Seq([kind : kinds, device : Ids(conf) \cup {""}])
    BY <1>5 DEF WellMade
  <2> HIDE DEF started
  <2>2. QED BY <2>1, LenProperties DEF ToSet
<1>7. \A k, l \in DOMAIN started : started[k] = started[l] => k = l
  BY <1>5, <1>6 DEF WellMade
<1>8. ASSUME NEW w \in ToSet(started), w.kind = "modbus"
      PROVE  Cardinality(DeviceConfigs(conf, w.device)) = 1
  <2>1. w.device \in Ids(conf)
    BY <1>5, <1>6, <1>8 DEF WellMade
  <2>2. PICK k \in DOMAIN conf.devices : conf.devices[k].id = w.device
    BY <2>1 DEF Ids
  <2>3. DeviceConfigs(conf, w.device) = {k}
    BY <1>4, <2>2 DEF DeviceConfigs
  <2>4. QED BY <2>3, FS_Singleton
<1>9. ASSUME NEW k \in DOMAIN conf.devices, NEW g \in DOMAIN conf.devices[k].signal_groups
      PROVE  UsableGroup(conf.devices[k].signal_groups[g])
  <2>1. conf.devices[k].signal_groups = Section(devices[k], "signal_groups")
    <3>1. k \in DOMAIN devices
      BY <1>3
    <3>2. "signal_groups" \in DOMAIN DeviceDefaults /\ DeviceDefaults["signal_groups"] = <<>>
      BY DEF DeviceDefaults
    <3>3. QED BY <1>1, <1>2, <3>1, <3>2, CompletedKeys DEF Section
  <2>2. ReadableGroup(conf.devices[k].signal_groups[g])
    BY <1>2, <1>3, <1>9, <2>1 DEF ReadableDevice
  <2>3. /\ ValidAddress(conf.devices[k].signal_groups[g].register_address)
        /\ ValidGroup(conf.devices[k].signal_groups[g])
    BY <1>9 DEF FromFile, Valid
  <2>4. QED BY <2>2, <2>3, AcceptedGroup
<1>10. \A interval \in DOMAIN StreamGroups(conf) : interval \in PollInterval
  BY AcceptedIntervals
<1>11. QED
  BY <1>7, <1>8, <1>9, <1>10 DEF Usable

\* The loader and every worker use a file that was accepted, hence one that the
\* workers can work with.
THEOREM UsedIsUsable == ReloadSpec => []OnlyUsable
<1>1. ReloadTypeOK => OnlyUsable
  <2> SUFFICES ASSUME ReloadTypeOK,
                      NEW name \in {current} \cup {config[w] : w \in Subscribers}
               PROVE  Usable(Parsed(Files[name]))
    BY DEF OnlyUsable
  <2>1. name \in Contents
    BY DEF ReloadTypeOK
  <2>2. FromFile(Files[name])
    BY <2>1, ReloadAssumption
  <2>3. QED BY <2>2, AcceptedIsUsable
<1>2. QED BY <1>1, ReloadTypeCorrect, PTL
=============================================================================
