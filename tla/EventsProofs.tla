---------------------------- MODULE EventsProofs ----------------------------
(***************************************************************************)
(* Proofs about Events and Tui, for any topics, payloads and sizes.  About *)
(* Events: the way to the UI implements LossyChannels, and no Publish      *)
(* panics before the program has ended.  About Tui: the chat uses the      *)
(* brokers as Events says, so that both hold of the program; its parts     *)
(* show one session; a summary's dialog ends with it; and the list of      *)
(* messages, once the events are in, is what is stored.                    *)
(***************************************************************************)
EXTENDS Tui, FiniteSetTheorems, TLAPS

\* Everything under way on a topic, from the UI back to the broker, is in the
\* order of its offer, later than what was received and no later than what was
\* offered.
OutputOrdered(t) ==
  \A k \in DOMAIN output : output[k].topic = t =>
    /\ received[t].last < output[k].number /\ output[k].number <= offered[t]
    /\ \A l \in DOMAIN output : output[l].topic = t /\ k < l => output[k].number < output[l].number

HeldOrdered(t) ==
  held[t] # Nothing =>
    /\ received[t].last < held[t].number /\ held[t].number <= offered[t]
    /\ \A k \in DOMAIN output : output[k].topic = t => output[k].number < held[t].number

QueueOrdered(t) ==
  \A i \in DOMAIN queue[t] :
    /\ received[t].last < queue[t][i].number /\ queue[t][i].number <= offered[t]
    /\ \A j \in DOMAIN queue[t] : i < j => queue[t][i].number < queue[t][j].number
    /\ \A k \in DOMAIN output : output[k].topic = t => output[k].number < queue[t][i].number
    /\ held[t] # Nothing => held[t].number < queue[t][i].number

Ordered(t) ==
  /\ received[t].last <= offered[t]
  /\ OutputOrdered(t) /\ HeldOrdered(t) /\ QueueOrdered(t)

AllOrdered == \A t \in Topics : Ordered(t)

OrderInv == EventsTypeOK /\ AllOrdered

\* A number is never that of Nothing: what is held is an event, or nothing.
LEMMA HeldIsNumbered ==
  ASSUME EventsTypeOK, NEW t \in Topics, held[t] # Nothing
  PROVE  held[t] \in Numbered /\ held[t].number \in Nat \ {0} /\ held[t].event \in Payloads
BY DEF EventsTypeOK, Numbered, Nothing

\* Types hold at first.
LEMMA InitType == EventsInit => EventsTypeOK
BY DEF EventsInit, EventsTypeOK, Places, Stages

\* Every step keeps the types.
LEMMA NextType == EventsTypeOK /\ [EventsNext]_eventVars => EventsTypeOK'
<1> SUFFICES ASSUME EventsTypeOK, [EventsNext]_eventVars PROVE EventsTypeOK'
  OBVIOUS
<1> USE SizesAssumption
<1>1. CASE UNCHANGED eventVars
  BY <1>1 DEF EventsTypeOK, eventVars
<1>2. ASSUME NEW t \in Topics, NEW e \in Payloads, Publish(t, e) PROVE EventsTypeOK'
  <2>1. publishing' \in [Topics -> SUBSET Payloads]
    <3>1. publishing[t] \cup {e} \in SUBSET Payloads
      BY DEF EventsTypeOK
    <3>. QED BY <1>2, <3>1 DEF EventsTypeOK, Publish
  <2>2. offered' \in [Topics -> Nat] /\ dropped' \subseteq Topics
    <3>1. UNCHANGED <<offered, dropped>> \/ (Counted(t) /\ Dropped(t))
      BY <1>2 DEF Publish
    <3>2. CASE UNCHANGED <<offered, dropped>> BY <3>2 DEF EventsTypeOK
    <3>3. CASE Counted(t) /\ Dropped(t) BY <3>3 DEF EventsTypeOK, Counted, Dropped
    <3>. QED BY <3>1, <3>2, <3>3
  <2>3. UNCHANGED <<queue, sub, held, closed, output, received, main, panicked>>
    BY <1>2 DEF Publish
  <2>. QED BY <2>1, <2>2, <2>3 DEF EventsTypeOK
<1>3. ASSUME NEW t \in Topics, NEW e \in Payloads, Offer(t, e) PROVE EventsTypeOK'
  <2>1. publishing' \in [Topics -> SUBSET Payloads]
    <3>1. publishing[t] \ {e} \in SUBSET Payloads
      BY DEF EventsTypeOK
    <3>. QED BY <1>3, <3>1 DEF EventsTypeOK, Offer
  <2>2. offered' \in [Topics -> Nat] /\ dropped' \subseteq Topics /\ panicked' \subseteq Topics
    BY <1>3 DEF EventsTypeOK, Offer, Counted, Dropped
  <2>3. queue' \in [Topics -> Seq(Numbered)]
    <3>1. [number |-> offered[t] + 1, event |-> e] \in Numbered
      BY DEF EventsTypeOK, Numbered
    <3>2. Append(queue[t], [number |-> offered[t] + 1, event |-> e]) \in Seq(Numbered)
      BY <3>1 DEF EventsTypeOK
    <3>. QED BY <1>3, <3>2 DEF EventsTypeOK, Offer
  <2>. QED BY <1>3, <2>1, <2>2, <2>3 DEF EventsTypeOK, Offer
<1>4. ASSUME NEW t \in Topics, Transport(t) PROVE EventsTypeOK'
  <2>1. CASE Unsubscribe(t) BY <2>1 DEF EventsTypeOK, Unsubscribe
  <2>2. CASE Subscribe(t) BY <2>2 DEF EventsTypeOK, Subscribe, Places
  <2>3. CASE Take(t)
    <3>1. Head(queue[t]) \in Numbered /\ Tail(queue[t]) \in Seq(Numbered)
      BY <2>3 DEF Take, EventsTypeOK
    <3>2. Head(queue[t]) # Nothing
      BY <3>1 DEF Numbered, Nothing
    <3>3. queue' \in [Topics -> Seq(Numbered)] /\ held' \in [Topics -> Numbered \cup {Nothing}]
      BY <2>3, <3>1 DEF EventsTypeOK, Take
    <3>4. \A u \in Topics : sub'[u] = "sending" <=> held'[u] # Nothing
      BY <2>3, <3>2 DEF EventsTypeOK, Take
    <3>. QED BY <2>3, <3>3, <3>4 DEF EventsTypeOK, Take, Places
  <2>4. CASE Forward(t)
    <3>1. held[t] # Nothing =>
            [topic |-> t, number |-> held[t].number, event |-> held[t].event] \in Items
      BY HeldIsNumbered DEF Items
    <3>. QED BY <2>4, <3>1 DEF EventsTypeOK, Forward, Places
  <2>5. CASE DropSlow(t) BY <2>5 DEF EventsTypeOK, DropSlow, Places, Dropped
  <2>6. CASE StopForwarding(t) BY <2>6 DEF EventsTypeOK, StopForwarding, Places, Dropped
  <2>. QED BY <1>4, <2>1, <2>2, <2>3, <2>4, <2>5, <2>6 DEF Transport
<1>5. CASE Deliver
  <2>1. Head(output) \in Items /\ Tail(output) \in Seq(Items)
    BY <1>5 DEF Deliver, EventsTypeOK
  <2>2. /\ Head(output).topic \in Topics /\ Head(output).number \in Nat
        /\ received[Head(output).topic].count \in Nat
    BY <2>1 DEF EventsTypeOK, Items
  <2>3. [last |-> Head(output).number, count |-> received[Head(output).topic].count + 1]
          \in [last : Nat, count : Nat]
    BY <2>2
  <2>4. received' \in [Topics -> [last : Nat, count : Nat]]
    BY <1>5, <2>2, <2>3 DEF EventsTypeOK, Deliver
  <2>. QED BY <1>5, <2>1, <2>4 DEF EventsTypeOK, Deliver
<1>6. CASE Teardown
  BY <1>6 DEF EventsTypeOK, Teardown, Exit, CancelSubscriptions, CloseOutput, Join, Stages
<1>. QED BY <1>1, <1>2, <1>3, <1>4, <1>5, <1>6 DEF EventsNext

---------------------------------------------------------------------------
(* The order of events *)

\* The numbers of what is in the UI's channel and in a buffer can be compared.
LEMMA NumbersAreNat ==
  ASSUME EventsTypeOK, NEW t \in Topics
  PROVE  /\ \A k \in DOMAIN output : output[k].number \in Nat
         /\ \A i \in DOMAIN queue[t] : queue[t][i].number \in Nat
         /\ held[t] # Nothing => held[t].number \in Nat
<1>1. output \in Seq(Items) /\ queue[t] \in Seq(Numbered)
  BY DEF EventsTypeOK
<1>2. \A k \in DOMAIN output : output[k] \in Items
  BY <1>1
<1>3. \A i \in DOMAIN queue[t] : queue[t][i] \in Numbered
  BY <1>1
<1>. QED BY <1>2, <1>3, HeldIsNumbered DEF Items, Numbered

\* At first nothing is under way.
LEMMA InitOrder == EventsInit => OrderInv
<1> SUFFICES ASSUME EventsInit PROVE OrderInv
  OBVIOUS
<1>1. AllOrdered
  BY DEF EventsInit, AllOrdered, Ordered, OutputOrdered, HeldOrdered, QueueOrdered
<1>. QED BY <1>1, InitType DEF OrderInv

\* A topic all of whose parts a step leaves alone stays in order.
LEMMA OrderUntouched ==
  ASSUME OrderInv, NEW t \in Topics, Ordered(t),
         UNCHANGED <<received[t], held[t], queue[t], output>>,
         offered'[t] \in Nat, offered[t] <= offered'[t]
  PROVE  Ordered(t)'
<1>1. offered[t] \in Nat /\ received[t].last \in Nat
  BY DEF OrderInv, EventsTypeOK
<1>2. /\ \A k \in DOMAIN output : output[k].number \in Nat
      /\ \A i \in DOMAIN queue[t] : queue[t][i].number \in Nat
      /\ held[t] # Nothing => held[t].number \in Nat
  BY NumbersAreNat DEF OrderInv
<1>3. Ordered(t)
  OBVIOUS
<1>4. OutputOrdered(t)'
  BY <1>1, <1>2, <1>3 DEF Ordered, OutputOrdered
<1>5. HeldOrdered(t)'
  BY <1>1, <1>2, <1>3 DEF Ordered, HeldOrdered
<1>6. QueueOrdered(t)'
  BY <1>1, <1>2, <1>3 DEF Ordered, QueueOrdered
<1>7. received'[t].last <= offered'[t]
  BY <1>1, <1>3 DEF Ordered
<1>. QED BY <1>4, <1>5, <1>6, <1>7 DEF Ordered

\* Publish and Offer: what is appended to the buffer is newer than all the rest.
LEMMA OfferOrder ==
  ASSUME OrderInv, NEW t \in Topics, NEW e \in Payloads, Offer(t, e)
  PROVE  AllOrdered'
<1>1. offered[t] \in Nat /\ offered'[t] = offered[t] + 1
  BY DEF OrderInv, EventsTypeOK, Offer, Counted
<1>2. \A u \in Topics \ {t} : offered'[u] = offered[u] /\ offered[u] \in Nat
  BY DEF OrderInv, EventsTypeOK, Offer, Counted
<1>3. UNCHANGED <<received, held, output>>
  BY DEF Offer
<1>4. ASSUME NEW u \in Topics, queue'[u] = queue[u] PROVE Ordered(u)'
  BY <1>1, <1>2, <1>3, <1>4, OrderUntouched DEF OrderInv, AllOrdered
<1>5. \A u \in Topics \ {t} : queue'[u] = queue[u]
  BY DEF OrderInv, EventsTypeOK, Offer
<1>6. Ordered(t)'
  <2>1. CASE queue'[t] = queue[t]
    BY <1>4, <2>1
  <2>2. CASE queue'[t] # queue[t]
    <3>1. queue'[t] = Append(queue[t], [number |-> offered[t] + 1, event |-> e])
      BY <2>2 DEF OrderInv, EventsTypeOK, Offer
    <3>2. queue[t] \in Seq(Numbered)
      BY DEF OrderInv, EventsTypeOK
    <3>3. /\ DOMAIN queue'[t] = 1 .. Len(queue[t]) + 1
          /\ \A i \in DOMAIN queue[t] : queue'[t][i] = queue[t][i]
          /\ queue'[t][Len(queue[t]) + 1] = [number |-> offered[t] + 1, event |-> e]
          /\ DOMAIN queue[t] = 1 .. Len(queue[t]) /\ Len(queue[t]) \in Nat
      BY <3>1, <3>2
    <3>4. Ordered(t)
      BY DEF OrderInv, AllOrdered
    <3>5. \A k \in DOMAIN output : output[k].number \in Nat
      BY NumbersAreNat DEF OrderInv
    <3>6. /\ \A i \in DOMAIN queue[t] : queue[t][i].number \in Nat
          /\ held[t] # Nothing => held[t].number \in Nat
      BY NumbersAreNat DEF OrderInv
    <3>7. received[t].last \in Nat
      BY DEF OrderInv, EventsTypeOK
    <3>8. OutputOrdered(t)'
      BY <1>1, <1>3, <3>4, <3>5, <3>7 DEF Ordered, OutputOrdered
    <3>9. HeldOrdered(t)'
      BY <1>1, <1>3, <3>4, <3>6 DEF Ordered, HeldOrdered
    <3>10. QueueOrdered(t)'
      <4>1. SUFFICES ASSUME NEW i \in 1 .. Len(queue[t]) + 1
                     PROVE  /\ received[t].last < queue'[t][i].number
                            /\ queue'[t][i].number <= offered'[t]
                            /\ \A j \in 1 .. Len(queue[t]) + 1 :
                                 i < j => queue'[t][i].number < queue'[t][j].number
                            /\ \A k \in DOMAIN output : output[k].topic = t =>
                                 output[k].number < queue'[t][i].number
                            /\ held[t] # Nothing => held[t].number < queue'[t][i].number
        BY <1>3, <3>3 DEF QueueOrdered
      <4>2. CASE i \in 1 .. Len(queue[t])
        <5>1. queue'[t][i] = queue[t][i] /\ queue[t][i].number \in Nat
          BY <3>3, <3>6, <4>2
        <5>2. /\ received[t].last < queue[t][i].number /\ queue[t][i].number <= offered[t]
              /\ \A k \in DOMAIN output : output[k].topic = t => output[k].number < queue[t][i].number
              /\ held[t] # Nothing => held[t].number < queue[t][i].number
          BY <3>3, <3>4, <4>2 DEF Ordered, QueueOrdered
        <5>3. ASSUME NEW j \in 1 .. Len(queue[t]) + 1, i < j
              PROVE  queue'[t][i].number < queue'[t][j].number
          <6>1. CASE j = Len(queue[t]) + 1
            <7>1. queue'[t][j].number = offered[t] + 1
              BY <3>3, <6>1
            <7>2. queue'[t][i].number \in Nat /\ queue'[t][i].number <= offered[t]
              BY <5>1, <5>2
            <7>. QED BY <1>1, <7>1, <7>2
          <6>2. CASE j \in 1 .. Len(queue[t])
            BY <3>3, <3>4, <4>2, <5>1, <5>3, <6>2 DEF Ordered, QueueOrdered
          <6>. QED BY <3>3, <6>1, <6>2
        <5>. QED BY <1>1, <5>1, <5>2, <5>3
      <4>3. CASE i = Len(queue[t]) + 1
        <5>1. queue'[t][i].number = offered[t] + 1
          BY <3>3, <4>3
        <5>2. ~ \E j \in 1 .. Len(queue[t]) + 1 : i < j
          BY <3>3, <4>3
        <5>. QED BY <1>1, <3>4, <3>5, <3>6, <3>7, <5>1, <5>2 DEF Ordered, OutputOrdered, HeldOrdered
      <4>. QED BY <3>3, <4>2, <4>3
    <3>. QED BY <1>1, <1>3, <3>4, <3>7, <3>8, <3>9, <3>10 DEF Ordered
  <2>. QED BY <2>1, <2>2
<1>. QED BY <1>4, <1>5, <1>6 DEF AllOrdered

\* Take: the first of the buffer is older than the rest.
LEMMA TakeOrder ==
  ASSUME OrderInv, NEW t \in Topics, Take(t)
  PROVE  AllOrdered'
<1>1. \A u \in Topics : offered'[u] = offered[u] /\ offered[u] \in Nat
  BY DEF OrderInv, EventsTypeOK, Take
<1>2. UNCHANGED <<received, output, offered>>
  BY DEF Take
<1>3. ASSUME NEW u \in Topics \ {t} PROVE Ordered(u)'
  <2>1. UNCHANGED <<held[u], queue[u]>>
    BY DEF OrderInv, EventsTypeOK, Take
  <2>. QED BY <1>1, <1>2, <2>1, OrderUntouched DEF OrderInv, AllOrdered
<1>4. Ordered(t)'
  <2>1. queue[t] \in Seq(Numbered) /\ queue[t] # <<>>
    BY DEF OrderInv, EventsTypeOK, Take
  <2>2. held'[t] = queue[t][1] /\ queue'[t] = Tail(queue[t]) /\ held[t] = Nothing
    BY DEF OrderInv, EventsTypeOK, Take
  <2>3. /\ 1 \in DOMAIN queue[t]
        /\ DOMAIN queue'[t] = 1 .. Len(queue[t]) - 1
        /\ DOMAIN queue[t] = 1 .. Len(queue[t]) /\ Len(queue[t]) \in Nat
        /\ \A i \in DOMAIN queue'[t] : i + 1 \in DOMAIN queue[t] /\ queue'[t][i] = queue[t][i + 1]
    BY <2>1, <2>2
  <2>4. Ordered(t) /\ QueueOrdered(t)
    BY DEF OrderInv, AllOrdered, Ordered
  <2>5. /\ received[t].last < queue[t][1].number /\ queue[t][1].number <= offered[t]
        /\ \A j \in DOMAIN queue[t] : 1 < j => queue[t][1].number < queue[t][j].number
        /\ \A k \in DOMAIN output : output[k].topic = t => output[k].number < queue[t][1].number
    BY <2>3, <2>4 DEF QueueOrdered
  <2>6. OutputOrdered(t)' /\ received'[t].last <= offered'[t]
    BY <1>2, <2>4 DEF Ordered, OutputOrdered
  <2>7. HeldOrdered(t)'
    BY <1>2, <2>2, <2>5 DEF HeldOrdered
  <2>8. QueueOrdered(t)'
    <3>1. SUFFICES ASSUME NEW i \in DOMAIN queue'[t]
                   PROVE  /\ received[t].last < queue'[t][i].number
                          /\ queue'[t][i].number <= offered[t]
                          /\ \A j \in DOMAIN queue'[t] :
                               i < j => queue'[t][i].number < queue'[t][j].number
                          /\ \A k \in DOMAIN output : output[k].topic = t =>
                               output[k].number < queue'[t][i].number
                          /\ held'[t].number < queue'[t][i].number
      BY <1>2 DEF QueueOrdered
    <3>2. /\ i + 1 \in DOMAIN queue[t] /\ queue'[t][i] = queue[t][i + 1] /\ 1 < i + 1
          /\ \A j \in DOMAIN queue'[t] : i < j =>
               j + 1 \in DOMAIN queue[t] /\ queue'[t][j] = queue[t][j + 1] /\ i + 1 < j + 1
      BY <2>3
    <3>. QED BY <2>2, <2>4, <2>5, <3>2 DEF QueueOrdered
  <2>. QED BY <2>6, <2>7, <2>8 DEF Ordered
<1>. QED BY <1>3, <1>4 DEF AllOrdered

\* Forward: what was held is newer than the UI's channel and older than the
\* buffer.
LEMMA ForwardOrder ==
  ASSUME OrderInv, NEW t \in Topics, Forward(t)
  PROVE  AllOrdered'
<1> DEFINE item == [topic |-> t, number |-> held[t].number, event |-> held[t].event]
<1>1. UNCHANGED <<received, queue, offered>>
  BY DEF Forward
<1>2. output \in Seq(Items) /\ output' = Append(output, item)
  BY DEF OrderInv, EventsTypeOK, Forward
<1>3. /\ DOMAIN output' = 1 .. Len(output) + 1
      /\ DOMAIN output = 1 .. Len(output) /\ Len(output) \in Nat
      /\ \A k \in DOMAIN output : output'[k] = output[k]
      /\ output'[Len(output) + 1] = item
  <2> HIDE DEF item
  <2>. QED BY <1>2
<1>4. held[t] # Nothing
  BY DEF OrderInv, EventsTypeOK, Forward
<1>5. ASSUME NEW u \in Topics \ {t} PROVE Ordered(u)'
  <2>1. held'[u] = held[u]
    BY DEF OrderInv, EventsTypeOK, Forward
  <2>2. \A k \in DOMAIN output' : output'[k].topic = u => k \in DOMAIN output /\ output'[k] = output[k]
    BY <1>3
  <2>3. Ordered(u)
    BY DEF OrderInv, AllOrdered
  <2>4. OutputOrdered(u)'
    BY <1>1, <2>2, <2>3 DEF Ordered, OutputOrdered
  <2>5. HeldOrdered(u)'
    BY <1>1, <2>1, <2>2, <2>3 DEF Ordered, HeldOrdered
  <2>6. QueueOrdered(u)'
    BY <1>1, <2>1, <2>2, <2>3 DEF Ordered, QueueOrdered
  <2>. QED BY <1>1, <2>3, <2>4, <2>5, <2>6 DEF Ordered
<1>6. Ordered(t)'
  <2>1. held'[t] = Nothing
    BY DEF OrderInv, EventsTypeOK, Forward
  <2>2. Ordered(t)
    BY DEF OrderInv, AllOrdered
  <2>3. /\ received[t].last < held[t].number /\ held[t].number <= offered[t]
        /\ \A k \in DOMAIN output : output[k].topic = t => output[k].number < held[t].number
        /\ \A i \in DOMAIN queue[t] : held[t].number < queue[t][i].number
    BY <1>4, <2>2 DEF Ordered, HeldOrdered, QueueOrdered
  <2>4. OutputOrdered(t)'
    <3>1. SUFFICES ASSUME NEW k \in 1 .. Len(output) + 1, output'[k].topic = t
                   PROVE  /\ received[t].last < output'[k].number
                          /\ output'[k].number <= offered[t]
                          /\ \A l \in 1 .. Len(output) + 1 : output'[l].topic = t /\ k < l =>
                               output'[k].number < output'[l].number
      BY <1>1, <1>3 DEF OutputOrdered
    <3>2. CASE k = Len(output) + 1
      <4>1. ~ \E l \in 1 .. Len(output) + 1 : k < l
        BY <1>3, <3>2
      <4>. QED BY <1>3, <2>3, <3>2, <4>1
    <3>3. CASE k \in 1 .. Len(output)
      <4>1. output'[k] = output[k] /\ output[k].topic = t
        BY <1>3, <3>1, <3>3
      <4>2. ASSUME NEW l \in 1 .. Len(output) + 1, output'[l].topic = t, k < l
            PROVE  output'[k].number < output'[l].number
        <5>1. CASE l = Len(output) + 1
          BY <1>3, <2>3, <3>3, <4>1, <5>1
        <5>2. CASE l \in 1 .. Len(output)
          BY <1>3, <2>2, <3>3, <4>1, <4>2, <5>2 DEF Ordered, OutputOrdered
        <5>. QED BY <1>3, <5>1, <5>2
      <4>. QED BY <1>3, <2>2, <3>3, <4>1, <4>2 DEF Ordered, OutputOrdered
    <3>. QED BY <1>3, <3>2, <3>3
  <2>5. HeldOrdered(t)'
    BY <2>1 DEF HeldOrdered
  <2>6. QueueOrdered(t)'
    <3>1. SUFFICES ASSUME NEW i \in DOMAIN queue[t], NEW k \in 1 .. Len(output) + 1,
                          output'[k].topic = t
                   PROVE  output'[k].number < queue[t][i].number
      BY <1>1, <1>3, <2>1, <2>2 DEF Ordered, QueueOrdered
    <3>2. CASE k = Len(output) + 1
      BY <1>3, <2>3, <3>2
    <3>3. CASE k \in 1 .. Len(output)
      BY <1>3, <2>2, <3>1, <3>3 DEF Ordered, QueueOrdered
    <3>. QED BY <1>3, <3>2, <3>3
  <2>. QED BY <1>1, <2>2, <2>4, <2>5, <2>6 DEF Ordered
<1>. QED BY <1>5, <1>6 DEF AllOrdered

\* DropSlow and StopForwarding: what was held is gone.
LEMMA ReleaseOrder ==
  ASSUME OrderInv, NEW t \in Topics, DropSlow(t) \/ StopForwarding(t)
  PROVE  AllOrdered'
<1>1. UNCHANGED <<received, queue, offered, output>>
  BY DEF DropSlow, StopForwarding
<1>2. ASSUME NEW u \in Topics PROVE held'[u] = held[u] \/ held'[u] = Nothing
  BY DEF OrderInv, EventsTypeOK, DropSlow, StopForwarding
<1>3. ASSUME NEW u \in Topics PROVE Ordered(u)'
  <2>1. Ordered(u)
    BY DEF OrderInv, AllOrdered
  <2>2. OutputOrdered(u)'
    BY <1>1, <2>1 DEF Ordered, OutputOrdered
  <2>3. HeldOrdered(u)'
    BY <1>1, <1>2, <2>1 DEF Ordered, HeldOrdered
  <2>4. QueueOrdered(u)'
    BY <1>1, <1>2, <2>1 DEF Ordered, QueueOrdered
  <2>. QED BY <1>1, <2>1, <2>2, <2>3, <2>4 DEF Ordered
<1>. QED BY <1>3 DEF AllOrdered

\* Deliver: the UI receives the oldest of its channel.
LEMMA DeliverOrder ==
  ASSUME OrderInv, Deliver
  PROVE  /\ AllOrdered'
         /\ \E t \in Topics : \E n \in received[t].last + 1 .. offered[t] :
              received' = [received EXCEPT ![t] = [last |-> n, count |-> @.count + 1]]
<1> DEFINE t == output[1].topic
<1>1. output \in Seq(Items) /\ output # <<>> /\ output' = Tail(output)
  BY DEF OrderInv, EventsTypeOK, Deliver
<1>2. /\ 1 \in DOMAIN output /\ Head(output) = output[1]
      /\ \A k \in DOMAIN output' : k + 1 \in DOMAIN output /\ output'[k] = output[k + 1]
      /\ \A k \in DOMAIN output' : \A l \in DOMAIN output' : k < l => k + 1 < l + 1
      /\ \A k \in DOMAIN output' : 1 < k + 1
  BY <1>1
<1>3. output[1] \in Items
  BY <1>1, <1>2
<1>4. t \in Topics /\ output[1].number \in Nat
  BY <1>3 DEF Items
<1>5. received' = [received EXCEPT ![t] = [last |-> output[1].number, count |-> @.count + 1]]
  BY <1>2 DEF Deliver
<1>6. UNCHANGED <<queue, held, offered>>
  BY DEF Deliver
<1>7. received'[t].last = output[1].number
  BY <1>4, <1>5 DEF OrderInv, EventsTypeOK
<1>8. \A u \in Topics : u # t => received'[u] = received[u]
  BY <1>4, <1>5 DEF OrderInv, EventsTypeOK
<1>9. \A u \in Topics : Ordered(u)
  BY DEF OrderInv, AllOrdered
<1>10. /\ received[t].last < output[1].number /\ output[1].number <= offered[t]
       /\ \A l \in DOMAIN output : output[l].topic = t /\ 1 < l => output[1].number < output[l].number
       /\ held[t] # Nothing => output[1].number < held[t].number
       /\ \A i \in DOMAIN queue[t] : output[1].number < queue[t][i].number
  BY <1>2, <1>4, <1>9 DEF Ordered, OutputOrdered, HeldOrdered, QueueOrdered
<1>11. ASSUME NEW u \in Topics PROVE Ordered(u)'
  <2>1. received'[u].last <= offered'[u]
    BY <1>6, <1>7, <1>8, <1>9, <1>10 DEF Ordered
  <2>2. OutputOrdered(u)'
    <3>1. SUFFICES ASSUME NEW k \in DOMAIN output', output'[k].topic = u
                   PROVE  /\ received'[u].last < output'[k].number
                          /\ output'[k].number <= offered[u]
                          /\ \A l \in DOMAIN output' : output'[l].topic = u /\ k < l =>
                               output'[k].number < output'[l].number
      BY <1>6 DEF OutputOrdered
    <3>2. k + 1 \in DOMAIN output /\ output'[k] = output[k + 1] /\ 1 < k + 1
      BY <1>2
    <3>3. received'[u].last < output'[k].number
      <4>1. CASE u = t BY <1>7, <1>10, <3>1, <3>2, <4>1
      <4>2. CASE u # t BY <1>8, <1>9, <3>1, <3>2, <4>2 DEF Ordered, OutputOrdered
      <4>. QED BY <4>1, <4>2
    <3>4. output'[k].number <= offered[u]
      BY <1>9, <3>1, <3>2 DEF Ordered, OutputOrdered
    <3>5. ASSUME NEW l \in DOMAIN output', output'[l].topic = u, k < l
          PROVE  output'[k].number < output'[l].number
      <4>1. l + 1 \in DOMAIN output /\ output'[l] = output[l + 1] /\ k + 1 < l + 1
        BY <1>2, <3>5
      <4>. QED BY <1>9, <3>1, <3>2, <3>5, <4>1 DEF Ordered, OutputOrdered
    <3>. QED BY <3>3, <3>4, <3>5
  <2>3. HeldOrdered(u)'
    <3>1. \A k \in DOMAIN output' : held[u] # Nothing /\ output'[k].topic = u =>
            output'[k].number < held[u].number
      BY <1>2, <1>9 DEF Ordered, HeldOrdered
    <3>2. held[u] # Nothing => received'[u].last < held[u].number
      <4>1. CASE u = t BY <1>7, <1>10, <4>1
      <4>2. CASE u # t BY <1>8, <1>9, <4>2 DEF Ordered, HeldOrdered
      <4>. QED BY <4>1, <4>2
    <3>. QED BY <1>6, <1>9, <3>1, <3>2 DEF Ordered, HeldOrdered
  <2>4. QueueOrdered(u)'
    <3>1. \A i \in DOMAIN queue[u] : \A k \in DOMAIN output' : output'[k].topic = u =>
            output'[k].number < queue[u][i].number
      BY <1>2, <1>9 DEF Ordered, QueueOrdered
    <3>2. \A i \in DOMAIN queue[u] : received'[u].last < queue[u][i].number
      <4>1. CASE u = t BY <1>7, <1>10, <4>1
      <4>2. CASE u # t BY <1>8, <1>9, <4>2 DEF Ordered, QueueOrdered
      <4>. QED BY <4>1, <4>2
    <3>. QED BY <1>6, <1>9, <3>1, <3>2 DEF Ordered, QueueOrdered
  <2>. QED BY <2>1, <2>2, <2>3, <2>4 DEF Ordered
<1>12. output[1].number \in received[t].last + 1 .. offered[t]
  BY <1>4, <1>10 DEF OrderInv, EventsTypeOK
<1>. QED BY <1>4, <1>5, <1>11, <1>12 DEF AllOrdered

\* Every step keeps the order.
LEMMA NextOrder ==
  ASSUME OrderInv, [EventsNext]_eventVars
  PROVE  OrderInv'
<1> SUFFICES AllOrdered'
  BY NextType DEF OrderInv
<1>1. \A u \in Topics : Ordered(u) /\ offered[u] \in Nat
  BY DEF OrderInv, AllOrdered, EventsTypeOK
<1>2. ASSUME UNCHANGED <<received, held, queue, output, offered>>
      PROVE  AllOrdered'
  BY <1>1, <1>2, OrderUntouched DEF AllOrdered
<1>3. CASE UNCHANGED eventVars
  BY <1>2, <1>3 DEF eventVars
<1>4. ASSUME NEW t \in Topics, NEW e \in Payloads, Publish(t, e)
      PROVE  AllOrdered'
  <2>1. UNCHANGED <<received, held, queue, output>>
    BY <1>4 DEF Publish
  <2>2. UNCHANGED offered \/ offered' = [offered EXCEPT ![t] = @ + 1]
    BY <1>4 DEF Publish, Counted
  <2>3. \A u \in Topics : offered'[u] \in Nat /\ offered[u] <= offered'[u]
    <3>1. CASE UNCHANGED offered
      BY <1>1, <3>1
    <3>2. CASE offered' = [offered EXCEPT ![t] = @ + 1]
      BY <1>1, <3>2 DEF OrderInv, EventsTypeOK
    <3>. QED BY <2>2, <3>1, <3>2
  <2>. QED BY <1>1, <2>1, <2>3, OrderUntouched DEF AllOrdered
<1>5. ASSUME NEW t \in Topics, NEW e \in Payloads, Offer(t, e)
      PROVE  AllOrdered'
  BY <1>5, OfferOrder
<1>6. ASSUME NEW t \in Topics, Transport(t) PROVE AllOrdered'
  <2>1. CASE Unsubscribe(t) BY <1>2, <2>1 DEF Unsubscribe
  <2>2. CASE Subscribe(t) BY <1>2, <2>2 DEF Subscribe
  <2>3. CASE Take(t) BY <2>3, TakeOrder
  <2>4. CASE Forward(t) BY <2>4, ForwardOrder
  <2>5. CASE DropSlow(t) \/ StopForwarding(t) BY <2>5, ReleaseOrder
  <2>. QED BY <1>6, <2>1, <2>2, <2>3, <2>4, <2>5 DEF Transport
<1>7. CASE Deliver
  BY <1>7, DeliverOrder
<1>8. CASE Teardown
  BY <1>2, <1>8 DEF Teardown, Exit, CancelSubscriptions, CloseOutput, Join
<1>. QED BY <1>3, <1>4, <1>5, <1>6, <1>7, <1>8 DEF EventsNext

\* Every step is a step of the lossy channels, or none of theirs.
LEMMA NextIsChannels ==
  ASSUME OrderInv, [EventsNext]_eventVars
  PROVE  [Channels!Next]_(Channels!vars)
<1>1. ASSUME UNCHANGED <<offered, received>> PROVE [Channels!Next]_(Channels!vars)
  BY <1>1 DEF Channels!vars
<1>2. ASSUME NEW t \in Topics, Counted(t), UNCHANGED received PROVE Channels!Next
  BY <1>2 DEF Counted, Channels!Next, Channels!Send
<1>3. CASE UNCHANGED eventVars
  BY <1>1, <1>3 DEF eventVars
<1>4. ASSUME NEW t \in Topics, NEW e \in Payloads, Publish(t, e) \/ Offer(t, e)
      PROVE  [Channels!Next]_(Channels!vars)
  BY <1>1, <1>2, <1>4 DEF Publish, Offer
<1>5. ASSUME NEW t \in Topics, Transport(t) PROVE [Channels!Next]_(Channels!vars)
  BY <1>1, <1>5
  DEF Transport, Unsubscribe, Subscribe, Take, Forward, DropSlow, StopForwarding
<1>6. CASE Deliver
  <2>1. UNCHANGED offered
    BY <1>6 DEF Deliver
  <2>2. PICK t \in Topics : \E n \in received[t].last + 1 .. offered[t] :
          received' = [received EXCEPT ![t] = [last |-> n, count |-> @.count + 1]]
    BY <1>6, DeliverOrder
  <2>3. Channels!Receive(t)
    BY <2>1, <2>2 DEF Channels!Receive
  <2>. QED BY <2>3 DEF Channels!Next
<1>7. CASE Teardown
  BY <1>1, <1>7 DEF Teardown, Exit, CancelSubscriptions, CloseOutput, Join
<1>. QED BY <1>3, <1>4, <1>5, <1>6, <1>7 DEF EventsNext

\* What is under way on a topic is always in order, in every behaviour of the
\* brokers and the forwarding goroutines.
THEOREM InOrder == EventsSpec => []OrderInv
<1>. QED BY InitOrder, NextOrder, PTL DEF EventsSpec

\* The way to the UI (broker.go, setupSubscriber and the message handler of
\* cmd/root.go) implements a lossy channel for each topic.
THEOREM ImplementsLossyChannels == EventsSpec => TopicsInOrder
<1>1. EventsInit => Channels!Init
  BY DEF EventsInit, Channels!Init
<1>2. OrderInv /\ [EventsNext]_eventVars => [Channels!Next]_(Channels!vars)
  BY NextIsChannels
<1>. QED BY <1>1, <1>2, InOrder, PTL DEF EventsSpec, TopicsInOrder, Channels!Spec

---------------------------------------------------------------------------
(* Teardown *)

\* Channels are closed after the context is cancelled, and a send on a closed
\* one is what panics.
TeardownInv == closed # {} \/ panicked # {} => main \notin {"running", "exited"}

\* No Publish sends on a closed channel before the program has ended.
THEOREM NoEarlyPanic == EventsSpec => []PanicOnlyAtTeardown
<1>1. EventsInit => TeardownInv
  BY DEF EventsInit, TeardownInv
<1>2. ASSUME TeardownInv, [EventsNext]_eventVars PROVE TeardownInv'
  <2>1. CASE UNCHANGED eventVars
    BY <1>2, <2>1 DEF TeardownInv, eventVars
  <2>2. ASSUME NEW t \in Topics, NEW e \in Payloads, Publish(t, e) PROVE TeardownInv'
    BY <1>2, <2>2 DEF TeardownInv, Publish
  <2>3. ASSUME NEW t \in Topics, NEW e \in Payloads, Offer(t, e) PROVE TeardownInv'
    BY <1>2, <2>3 DEF TeardownInv, Offer
  <2>4. ASSUME NEW t \in Topics, Transport(t) PROVE TeardownInv'
    BY <1>2, <2>4
    DEF TeardownInv, Transport, Unsubscribe, Subscribe, Take, Forward, DropSlow, StopForwarding
  <2>5. CASE Deliver
    BY <1>2, <2>5 DEF TeardownInv, Deliver
  <2>6. CASE Teardown
    BY <1>2, <2>6 DEF TeardownInv, Teardown, Exit, CancelSubscriptions, CloseOutput, Join
  <2>. QED BY <1>2, <2>1, <2>2, <2>3, <2>4, <2>5, <2>6 DEF EventsNext
<1>3. TeardownInv => PanicOnlyAtTeardown
  BY DEF TeardownInv, PanicOnlyAtTeardown
<1>. QED BY <1>1, <1>2, <1>3, PTL DEF EventsSpec

---------------------------------------------------------------------------
(* Tui *)

\* Every step of the agent, the UI and the user is a step of the brokers and the
\* forwarding goroutines, or none of theirs.
LEMMA NextIsEvents ==
  ASSUME EventsTypeOK, [Next]_vars
  PROVE  [EventsNext]_eventVars
<1>1. CASE UNCHANGED vars
  BY <1>1 DEF vars
<1>2. ASSUME NEW t \in {"message", "agent"}, NEW e, Publish(t, e) PROVE EventsNext
  BY <1>2, TopicsAssumption DEF Publish, EventsNext
<1>3. CASE Agent
  BY <1>2, <1>3 DEF Agent, CreateMessage, UpdateMessage, RunEnds, SummaryEnds
<1>4. CASE Receive
  BY <1>4 DEF Receive, EventsNext
<1>5. CASE Command
  BY <1>5 DEF Command, SessionSelected, SessionPicked, SessionCleared, Send, StartCompact, Summarize
<1>6. CASE User
  BY <1>6 DEF User, Enter, NewSession, PickSession, Compact, Cancel, MoveToPage
<1>7. CASE Transmit
  <2>1. \A t \in Topics : publishing[t] \subseteq Payloads
    BY DEF EventsTypeOK
  <2>. QED BY <1>7, <2>1 DEF Transmit, EventsNext
<1>. QED BY <1>1, <1>3, <1>4, <1>5, <1>6, <1>7 DEF Next

\* The program refines the specification of its event path.
THEOREM ChatUsesEvents == Spec => EventsSpec
<1>1. Init => EventsInit
  BY DEF Init
<1>2. EventsTypeOK /\ [Next]_vars => [EventsNext]_eventVars
  BY NextIsEvents
<1>3. EventsTypeOK /\ [EventsNext]_eventVars => EventsTypeOK'
  BY NextType
<1>4. Init => EventsTypeOK
  BY <1>1, InitType
<1>. QED BY <1>1, <1>2, <1>3, <1>4, PTL DEF Spec, EventsSpec

\* With the chat reading them (tui.go) and the agent publishing, the events of
\* each topic reach the UI in order and at most once.
THEOREM ChatReceivesInOrder == Spec => TopicsInOrder
<1>. QED BY ChatUsesEvents, ImplementsLossyChannels

\* A Publish of the agent sends on a closed channel only after the program has
\* ended, whatever the user did.
THEOREM ChatNoEarlyPanic == Spec => []PanicOnlyAtTeardown
<1>. QED BY ChatUsesEvents, NoEarlyPanic

---------------------------------------------------------------------------
(* Tui: the events under way *)

\* The events of a topic between the broker and the UI, with their numbers.
Content(item) == [number |-> item.number, event |-> item.event]
Buffered(t)   == {queue[t][i] : i \in DOMAIN queue[t]}
Forwarded(t)  == {Content(output[k]) : k \in {l \in DOMAIN output : output[l].topic = t}}
Way(t)        == Buffered(t) \cup ({held[t]} \ {Nothing}) \cup Forwarded(t)

\* They are events, offered before.
LEMMA WayNumbered ==
  ASSUME OrderInv, NEW t \in Topics, NEW x \in Way(t)
  PROVE  x \in Numbered /\ x.number \in Nat /\ x.number <= offered[t] /\ offered[t] \in Nat
<1>1. EventsTypeOK /\ Ordered(t) /\ offered[t] \in Nat
  BY DEF OrderInv, AllOrdered, EventsTypeOK
<1>2. CASE \E i \in DOMAIN queue[t] : x = queue[t][i]
  <2>1. PICK i \in DOMAIN queue[t] : x = queue[t][i]
    BY <1>2
  <2>2. x \in Numbered
    BY <1>1, <2>1 DEF EventsTypeOK
  <2>. QED BY <1>1, <2>1, <2>2 DEF Ordered, QueueOrdered, Numbered
<1>3. CASE held[t] # Nothing /\ x = held[t]
  <2>1. x \in Numbered
    BY <1>1, <1>3 DEF EventsTypeOK
  <2>. QED BY <1>1, <1>3, <2>1 DEF Ordered, HeldOrdered, Numbered
<1>4. CASE \E k \in DOMAIN output : output[k].topic = t /\ x = Content(output[k])
  <2>1. PICK k \in DOMAIN output : output[k].topic = t /\ x = Content(output[k])
    BY <1>4
  <2>2. output[k] \in Items
    BY <1>1 DEF EventsTypeOK
  <2>3. x \in Numbered /\ x.number = output[k].number
    BY <2>1, <2>2 DEF Items, Numbered, Content
  <2>. QED BY <1>1, <2>1, <2>3 DEF Ordered, OutputOrdered, Numbered
<1>. QED BY <1>2, <1>3, <1>4 DEF Way, Buffered, Forwarded

\* Where nothing of a topic moves, its way is as it was.
LEMMA WayUntouched ==
  ASSUME NEW t, UNCHANGED <<queue, held, output>>
  PROVE  Way(t)' = Way(t)
BY DEF Way, Buffered, Forwarded

\* Offer, into the buffer.
LEMMA WayAppended ==
  ASSUME OrderInv, NEW t \in Topics, NEW e, UNCHANGED <<held, output>>,
         queue' = [queue EXCEPT ![t] = Append(@, [number |-> offered[t] + 1, event |-> e])]
  PROVE  /\ \A u \in Topics \ {t} : Way(u)' = Way(u)
         /\ Way(t)' = Way(t) \cup {[number |-> offered[t] + 1, event |-> e]}
<1> DEFINE new == [number |-> offered[t] + 1, event |-> e]
<1>1. /\ queue' = [queue EXCEPT ![t] = Append(@, new)] /\ UNCHANGED <<held, output>>
      /\ queue \in [Topics -> Seq(Numbered)]
  BY DEF OrderInv, EventsTypeOK
<1>2. ASSUME NEW u \in Topics \ {t} PROVE Way(u)' = Way(u)
  <2>1. queue'[u] = queue[u]
    BY <1>1
  <2>. QED BY <1>1, <2>1 DEF Way, Buffered, Forwarded
<1>3. Way(t)' = Way(t) \cup {new}
  <2>1. queue'[t] = Append(queue[t], new) /\ queue[t] \in Seq(Numbered)
    BY <1>1
  <2> HIDE DEF new
  <2>2. Buffered(t)' = Buffered(t) \cup {new}
    <3>1. /\ DOMAIN queue'[t] = 1 .. Len(queue[t]) + 1 /\ Len(queue[t]) \in Nat
          /\ DOMAIN queue[t] = 1 .. Len(queue[t])
          /\ queue'[t][Len(queue[t]) + 1] = new
          /\ \A i \in 1 .. Len(queue[t]) : queue'[t][i] = queue[t][i]
      BY <2>1
    <3>2. \A i \in 1 .. Len(queue[t]) + 1 : i \in 1 .. Len(queue[t]) \/ i = Len(queue[t]) + 1
      BY <3>1
    <3>3. \A i \in 1 .. Len(queue[t]) : i \in 1 .. Len(queue[t]) + 1
      BY <3>1
    <3>4. Len(queue[t]) + 1 \in 1 .. Len(queue[t]) + 1
      BY <3>1
    <3>. QED BY <3>1, <3>2, <3>3, <3>4 DEF Buffered
  <2>3. held'[t] = held[t] /\ Forwarded(t)' = Forwarded(t)
    BY <1>1 DEF Forwarded
  <2>. QED BY <2>2, <2>3 DEF Way
<1>. QED BY <1>2, <1>3

\* Take: from the buffer to the goroutine's hand.
LEMMA WayTaken ==
  ASSUME OrderInv, NEW t \in Topics, Take(t), NEW u \in Topics
  PROVE  Way(u)' = Way(u)
<1>1. /\ held' = [held EXCEPT ![t] = Head(queue[t])] /\ queue' = [queue EXCEPT ![t] = Tail(@)]
      /\ UNCHANGED output /\ held[t] = Nothing /\ queue[t] # <<>>
      /\ queue \in [Topics -> Seq(Numbered)] /\ held \in [Topics -> Numbered \cup {Nothing}]
  BY DEF OrderInv, EventsTypeOK, Take
<1>2. CASE u # t
  <2>1. queue'[u] = queue[u] /\ held'[u] = held[u]
    BY <1>1, <1>2
  <2>. QED BY <1>1, <2>1 DEF Way, Buffered, Forwarded
<1>3. CASE u = t
  <2>1. held'[t] = queue[t][1] /\ queue'[t] = Tail(queue[t]) /\ queue[t] \in Seq(Numbered)
    BY <1>1
  <2>2. queue[t][1] # Nothing
    <3>1. queue[t][1] \in Numbered
      BY <1>1, <2>1
    <3>. QED BY <3>1 DEF Numbered, Nothing
  <2>3. Buffered(t) = Buffered(t)' \cup {queue[t][1]}
    <3>1. /\ Len(queue[t]) \in Nat /\ DOMAIN queue[t] = 1 .. Len(queue[t]) /\ 1 \in DOMAIN queue[t]
          /\ DOMAIN queue'[t] = 1 .. Len(queue[t]) - 1
          /\ \A i \in 1 .. Len(queue[t]) - 1 : queue'[t][i] = queue[t][i + 1]
      BY <1>1, <2>1
    <3>2. \A i \in 1 .. Len(queue[t]) : i = 1 \/ i - 1 \in 1 .. Len(queue[t]) - 1
      BY <3>1
    <3>3. \A i \in 1 .. Len(queue[t]) : i = 1 \/ queue[t][i] = queue'[t][i - 1]
      BY <3>1, <3>2
    <3>4. \A i \in 1 .. Len(queue[t]) - 1 : i + 1 \in 1 .. Len(queue[t])
      BY <3>1
    <3>5. Buffered(t) \subseteq Buffered(t)' \cup {queue[t][1]}
      BY <3>1, <3>2, <3>3 DEF Buffered
    <3>6. Buffered(t)' \cup {queue[t][1]} \subseteq Buffered(t)
      BY <3>1, <3>4 DEF Buffered
    <3>. QED BY <3>5, <3>6
  <2>4. Forwarded(t)' = Forwarded(t)
    BY <1>1 DEF Forwarded
  <2>. QED BY <1>1, <1>3, <2>1, <2>2, <2>3, <2>4 DEF Way
<1>. QED BY <1>2, <1>3

\* Forward: from there to the UI's channel.
LEMMA WayForwarded ==
  ASSUME OrderInv, NEW t \in Topics, Forward(t), NEW u \in Topics
  PROVE  Way(u)' = Way(u)
<1> DEFINE new == [topic |-> t, number |-> held[t].number, event |-> held[t].event]
<1>1. /\ output' = Append(output, new) /\ held' = [held EXCEPT ![t] = Nothing] /\ UNCHANGED queue
      /\ output \in Seq(Items) /\ held[t] # Nothing /\ held[t] \in Numbered
      /\ held \in [Topics -> Numbered \cup {Nothing}]
  BY DEF OrderInv, EventsTypeOK, Forward
<1>2. /\ Len(output) \in Nat /\ DOMAIN output = 1 .. Len(output)
      /\ DOMAIN output' = 1 .. Len(output) + 1
      /\ output'[Len(output) + 1] = new
      /\ \A k \in 1 .. Len(output) : output'[k] = output[k]
      /\ \A k \in 1 .. Len(output) + 1 : k \in 1 .. Len(output) \/ k = Len(output) + 1
      /\ \A k \in 1 .. Len(output) : k \in 1 .. Len(output) + 1
      /\ Len(output) + 1 \in 1 .. Len(output) + 1
  <2>1. Len(output) \in Nat /\ DOMAIN output = 1 .. Len(output) /\ DOMAIN output' = 1 .. Len(output) + 1
        /\ output'[Len(output) + 1] = new /\ \A k \in 1 .. Len(output) : output'[k] = output[k]
    BY <1>1
  <2>. QED BY <2>1
<1>3. Forwarded(u)' = Forwarded(u) \cup (IF u = t THEN {held[t]} ELSE {})
  <2>1. Content(new) = held[t] /\ new.topic = t
    BY <1>1 DEF Content, Numbered
  <2> HIDE DEF new
  <2>. QED BY <1>2, <2>1 DEF Forwarded
<1>4. held'[u] = (IF u = t THEN Nothing ELSE held[u]) /\ Buffered(u)' = Buffered(u)
  BY <1>1 DEF Buffered
<1>. QED BY <1>1, <1>3, <1>4 DEF Way

\* Deliver: the first of the UI's channel is the first of its topic's way.
LEMMA WayDelivered ==
  ASSUME OrderInv, Deliver, NEW t, t = Head(output).topic, NEW x, x = Content(Head(output))
  PROVE  /\ t \in Topics /\ x \in Way(t)
         /\ \A u \in Topics \ {t} : Way(u)' = Way(u)
         /\ Way(t) = Way(t)' \cup {x}
         /\ \A y \in Way(t)' : x.number < y.number
<1>1. /\ output \in Seq(Items) /\ output' = Tail(output) /\ UNCHANGED <<queue, held>>
      /\ t = output[1].topic /\ x = Content(output[1]) /\ output # <<>>
  BY DEF OrderInv, EventsTypeOK, Deliver
<1>2. /\ Len(output) \in Nat /\ DOMAIN output = 1 .. Len(output) /\ 1 \in DOMAIN output
      /\ DOMAIN output' = 1 .. Len(output) - 1
      /\ \A k \in 1 .. Len(output) - 1 : output'[k] = output[k + 1]
  BY <1>1
<1>3. t \in Topics
  <2>1. output[1] \in Items
    BY <1>1, <1>2
  <2>. QED BY <1>1, <2>1 DEF Items
<1>4. ASSUME NEW u PROVE
        Forwarded(u) = Forwarded(u)' \cup (IF u = t THEN {x} ELSE {})
  <2>1. \A k \in DOMAIN output' : k + 1 \in DOMAIN output /\ output'[k] = output[k + 1]
    BY <1>2
  <2>2. \A k \in DOMAIN output \ {1} : k - 1 \in DOMAIN output' /\ output'[k - 1] = output[k]
    BY <1>2
  <2>3. Forwarded(u)' \subseteq Forwarded(u)
    BY <2>1 DEF Forwarded
  <2>4. u = t => x \in Forwarded(u)
    BY <1>1, <1>2 DEF Forwarded
  <2>5. Forwarded(u) \subseteq Forwarded(u)' \cup (IF u = t THEN {x} ELSE {})
    <3>1. ASSUME NEW k \in DOMAIN output, output[k].topic = u
          PROVE  Content(output[k]) \in Forwarded(u)' \cup (IF u = t THEN {x} ELSE {})
      <4>1. CASE k = 1
        BY <1>1, <3>1, <4>1
      <4>2. CASE k # 1
        BY <2>2, <3>1, <4>2 DEF Forwarded
      <4>. QED BY <4>1, <4>2
    <3>. QED BY <3>1 DEF Forwarded
  <2>. QED BY <2>3, <2>4, <2>5
<1>5. \A u : Buffered(u)' = Buffered(u) /\ held'[u] = held[u]
  BY <1>1 DEF Buffered
<1>6. \A u \in Topics \ {t} : Way(u)' = Way(u)
  BY <1>4, <1>5 DEF Way
<1>7. Way(t) = Way(t)' \cup {x}
  BY <1>4, <1>5 DEF Way
<1>8. ASSUME NEW y \in Way(t)' PROVE x.number < y.number
  <2>1. Ordered(t) /\ x.number = output[1].number
    BY <1>1, <1>3 DEF OrderInv, AllOrdered, Content
  <2>2. CASE y \in Buffered(t)
    BY <1>1, <1>2, <2>1, <2>2 DEF Ordered, QueueOrdered, Buffered
  <2>3. CASE held[t] # Nothing /\ y = held[t]
    BY <1>1, <1>2, <2>1, <2>3 DEF Ordered, HeldOrdered
  <2>4. CASE y \in Forwarded(t)'
    <3>1. PICK k \in DOMAIN output' : output'[k].topic = t /\ y = Content(output'[k])
      BY <2>4 DEF Forwarded
    <3>2. k + 1 \in DOMAIN output /\ 1 < k + 1 /\ output'[k] = output[k + 1]
      BY <1>2
    <3>3. y.number = output[k + 1].number
      BY <3>1, <3>2 DEF Content
    <3>. QED BY <1>1, <1>2, <2>1, <3>1, <3>2, <3>3 DEF Ordered, OutputOrdered
  <2>. QED BY <1>5, <2>2, <2>3, <2>4 DEF Way
<1>. QED BY <1>1, <1>3, <1>6, <1>7, <1>8

\* When a topic has nothing in transit its way is empty.
LEMMA WayEmpty ==
  ASSUME EventsTypeOK, NEW t \in Topics, ~(InTransit(t) > 0)
  PROVE  Way(t) = {}
<1> DEFINE of == {i \in DOMAIN output : output[i].topic = t}
<1>1. queue[t] \in Seq(Numbered) /\ output \in Seq(Items) /\ Len(queue[t]) \in Nat
  BY DEF EventsTypeOK
<1>2. IsFiniteSet(of) /\ Cardinality(of) \in Nat
  <2>1. Len(output) \in Nat /\ DOMAIN output = 1 .. Len(output)
    BY <1>1
  <2>2. IsFiniteSet(DOMAIN output)
    BY <2>1, FS_Interval
  <2>3. of \subseteq DOMAIN output
    OBVIOUS
  <2>. QED BY <2>2, <2>3, FS_Subset, FS_CardinalityType
<1>3. Len(queue[t]) = 0 /\ Cardinality(of) = 0 /\ held[t] = Nothing
  <2>1. InTransit(t) = Len(queue[t]) + Cardinality(of) + (IF held[t] = Nothing THEN 0 ELSE 1)
    BY DEF InTransit
  <2> HIDE DEF of
  <2>. QED BY <1>1, <1>2, <2>1
<1>4. of = {}
  <2> HIDE DEF of
  <2>. QED BY <1>2, <1>3, FS_EmptySet
<1>5. DOMAIN queue[t] = {}
  BY <1>1, <1>3
<1>. QED BY <1>3, <1>4, <1>5 DEF Way, Buffered, Forwarded

---------------------------------------------------------------------------
(* Tui: the session *)

\* The program's end is not undone.
LEMMA StaysOver == [Next]_vars /\ main # "running" => main' # "running"
<1> SUFFICES ASSUME [Next]_vars, main # "running" PROVE main' # "running"
  OBVIOUS
<1>1. CASE UNCHANGED vars
  BY <1>1 DEF vars, eventVars
<1>2. CASE Agent
  BY <1>2 DEF Agent, CreateMessage, UpdateMessage, RunEnds, SummaryEnds, Publish
<1>3. CASE Receive
  BY <1>3 DEF Receive, Deliver
<1>4. CASE Command
  BY <1>4 DEF Command, SessionSelected, SessionPicked, SessionCleared, Send, StartCompact, Summarize, eventVars
<1>5. CASE User
  BY <1>5 DEF User, Input, Enter, NewSession, PickSession, Compact, Cancel, MoveToPage, eventVars
<1>6. CASE Transmit
  BY <1>6 DEF Transmit, Transport, Unsubscribe, Subscribe, Take, Forward, DropSlow, StopForwarding,
              Offer, Teardown, Exit, CancelSubscriptions, CloseOutput, Join
<1>. QED BY <1>1, <1>2, <1>3, <1>4, <1>5, <1>6 DEF Next

Changes == {"selected", "picked", "cleared"}

\* A change of session comes alone, to the chat page, and one to no session
\* finds the page without.
SessionInv ==
  main # "running" \/ raced \/
    /\ \A m, n \in inFlight : m.kind \in Changes /\ n.kind \in Changes => m = n
    /\ Changing => page = "chat"
    /\ \A m \in inFlight : m.kind = "cleared" => current = NoSession
    /\ OneSession

\* While the user does not go on during a change there is only the one.
LEMMA NextSession == SessionInv /\ [Next]_vars => SessionInv'
<1> SUFFICES ASSUME SessionInv, [Next]_vars, main' = "running", ~raced' PROVE SessionInv'
  BY DEF SessionInv
<1>1. main = "running"
  BY StaysOver
<1>2. CASE UNCHANGED <<main, inFlight, page, selected, current, editor, shown, raced>>
  BY <1>2 DEF SessionInv, Changing, OneSession
<1>3. ASSUME UNCHANGED <<main, page, selected, current, editor, shown>>, ~raced,
             NEW m, m.kind \notin Changes,
             inFlight' = inFlight \cup {m} \/ inFlight' = inFlight \ {m}
      PROVE  SessionInv'
  <2>1. \A n \in inFlight' : n.kind \in Changes => n \in inFlight
    BY <1>3
  <2>2. \A n \in inFlight : n.kind \in Changes => n \in inFlight'
    BY <1>3
  <2>3. Changing' <=> Changing
    BY <2>1, <2>2 DEF Changing, Changes
  <2>. QED BY <1>1, <1>3, <2>1, <2>3 DEF SessionInv, OneSession, Changes
<1>4. CASE UNCHANGED vars
  BY <1>2, <1>4 DEF vars, eventVars, screen, ghosts
<1>5. CASE Agent
  BY <1>2, <1>5 DEF Agent, CreateMessage, UpdateMessage, RunEnds, SummaryEnds, Publish, screen, ghosts
<1>6. CASE Transmit
  BY <1>1, <1>2, <1>6 DEF Transmit, Transport, Unsubscribe, Subscribe, Take, Forward, DropSlow,
       StopForwarding, Offer, Teardown, Exit, CancelSubscriptions, CloseOutput, Join, screen, ghosts
<1>7. CASE Receive
  <2>1. UNCHANGED <<main, page, selected, current, editor, shown, raced>>
    BY <1>7 DEF Receive, Deliver
  <2>2. UNCHANGED inFlight \/ inFlight' = inFlight \cup {Bare("compact")}
    BY <1>7 DEF Receive, MessageEvent, AgentEvent
  <2>3. Bare("compact").kind \notin Changes
    BY DEF Bare, OfSession, Changes
  <2>. QED BY <1>2, <1>3, <2>1, <2>2, <2>3
<1>8. CASE Command
  <2> SUFFICES ASSUME NEW m \in inFlight,
                      \/ SessionSelected(m) \/ SessionPicked(m) \/ SessionCleared(m)
                      \/ Send(m) \/ StartCompact(m) \/ Summarize(m)
               PROVE  SessionInv'
    BY <1>8 DEF Command
  <2>1. UNCHANGED main
    BY DEF SessionSelected, SessionPicked, SessionCleared, Send, StartCompact, Summarize, eventVars
  <2>2. ASSUME m.kind \in Changes, inFlight' = inFlight \ {m}, UNCHANGED raced
        PROVE  /\ \A n \in inFlight' : n.kind \notin Changes
               /\ ~Changing' /\ ~raced
               /\ page = "chat"
    BY <1>1, <2>2 DEF SessionInv, Changing, Changes
  <2>3. CASE SessionSelected(m)
    <3>1. /\ m.kind \in Changes /\ inFlight' = inFlight \ {m} /\ UNCHANGED <<raced, page>>
          /\ selected' = m.session
          /\ page = "chat" => current' = m.session /\ editor' = m.session /\ shown' = m.session
      BY <2>3 DEF SessionSelected, ghosts, Changes
    <3>. QED BY <2>2, <3>1 DEF SessionInv, OneSession, Changes
  <2>4. CASE SessionPicked(m)
    <3> DEFINE n == OfSession("selected", m.session)
    <3>1. /\ m.kind \in Changes /\ UNCHANGED <<raced, page, selected, current, editor, shown>>
      BY <2>4 DEF SessionPicked, ghosts, screen, Changes
    <3>2. page = "chat" /\ ~raced /\ \A k \in inFlight : k.kind \in Changes => k = m
      BY <1>1, <3>1 DEF SessionInv, Changing, Changes
    <3>3. inFlight' = (inFlight \ {m}) \cup {n} /\ n.kind = "selected"
      BY <2>4, <3>2 DEF SessionPicked, OfSession
    <3>4. \A k \in inFlight' : k.kind \in Changes => k = n
      BY <3>2, <3>3
    <3>5. Changing'
      BY <3>3 DEF Changing
    <3>. QED BY <3>1, <3>2, <3>3, <3>4, <3>5 DEF SessionInv, OneSession, Changes
  <2>5. CASE SessionCleared(m)
    <3>1. /\ m.kind = "cleared" /\ inFlight' = inFlight \ {m}
          /\ UNCHANGED <<raced, page, selected, current, editor>>
          /\ page = "chat" => shown' = NoSession
      BY <2>5 DEF SessionCleared, ghosts
    <3>2. m.kind \in Changes
      BY <3>1 DEF Changes
    <3>3. current = NoSession
      BY <1>1, <3>1 DEF SessionInv
    <3>. QED BY <2>2, <3>1, <3>2, <3>3 DEF SessionInv, OneSession, Changes
  <2>6. CASE Send(m)
    <3> DEFINE s == IF current = NoSession THEN created + 1 ELSE current
               n == OfSession("selected", s)
    <3>1. m.kind = "send" /\ m.kind \notin Changes /\ UNCHANGED <<page, selected, editor, shown>>
      BY <2>6 DEF Send, Changes
    <3>2. CASE page # "chat" \/ current # NoSession
      <4>1. inFlight' = inFlight \ {m} /\ UNCHANGED current /\ ~raced
        BY <1>1, <2>6, <3>2 DEF Send, SessionInv
      <4>. QED BY <1>3, <2>1, <3>1, <4>1
    <3>3. CASE page = "chat" /\ current = NoSession
      <4>1. inFlight' = (inFlight \ {m}) \cup {n} /\ n.kind = "selected" /\ ~raced /\ ~Changing
        BY <2>6, <3>3 DEF Send, OfSession
      <4>2. \A k \in inFlight : k.kind \notin Changes
        BY <4>1 DEF Changing, Changes
      <4>3. \A k \in inFlight' : k.kind \in Changes => k = n
        BY <4>1, <4>2
      <4>4. Changing'
        BY <4>1 DEF Changing
      <4>. QED BY <3>1, <3>3, <4>1, <4>3, <4>4 DEF SessionInv, OneSession, Changes
    <3>. QED BY <3>2, <3>3
  <2>7. CASE StartCompact(m)
    <3> DEFINE n == OfSession("summarize", selected)
    <3>1. /\ m.kind = "compact"
          /\ inFlight' = inFlight \ {m} \/ inFlight' = (inFlight \ {m}) \cup {n}
          /\ UNCHANGED <<page, selected, current, editor, shown, raced>>
      BY <2>7 DEF StartCompact
    <3>2. n.kind = "summarize"
      BY DEF OfSession
    <3>3. \A k : k.kind \in Changes => (k \in inFlight <=> k \in inFlight')
      BY <3>1, <3>2 DEF Changes
    <3>4. Changing' <=> Changing
      BY <3>3 DEF Changing, Changes
    <3>. QED BY <1>1, <3>1, <3>3, <3>4 DEF SessionInv, OneSession, Changes
  <2>8. CASE Summarize(m)
    <3>1. /\ m.kind \notin Changes /\ inFlight' = inFlight \ {m}
          /\ UNCHANGED <<page, selected, current, editor, shown, raced>>
      BY <2>8 DEF Summarize, Changes, screen
    <3>. QED BY <1>3, <2>1, <3>1
  <2>. QED BY <2>3, <2>4, <2>5, <2>6, <2>7, <2>8
<1>9. CASE User
  <2>1. UNCHANGED main
    BY <1>9 DEF User, Enter, NewSession, PickSession, Compact, Cancel, MoveToPage, eventVars
  <2>2. ASSUME GoesOn PROVE ~raced /\ \A k \in inFlight : k.kind \notin Changes
    BY <2>2 DEF GoesOn, Changing, Changes
  <2>3. CASE Enter \/ Compact
    <3>1. /\ UNCHANGED <<page, selected, current, editor, shown, raced>>
          /\ inFlight' = inFlight \cup {Bare("send")} \/ inFlight' = inFlight \cup {Bare("compact")}
      BY <2>3 DEF Enter, Compact, screen, ghosts
    <3>2. Bare("send").kind \notin Changes /\ Bare("compact").kind \notin Changes
      BY DEF Bare, OfSession, Changes
    <3>. QED BY <1>3, <2>1, <3>1, <3>2
  <2>4. CASE Cancel
    BY <1>2, <2>1, <2>4 DEF Cancel, screen, ghosts
  <2>5. ASSUME GoesOn, page = "chat", page' = page, NEW n, n.kind \in Changes,
               inFlight' = inFlight \cup {n}, n.kind = "cleared" => current' = NoSession
        PROVE  SessionInv'
    <3>1. \A k \in inFlight' : k.kind \in Changes => k = n
      BY <2>2, <2>5
    <3>2. Changing'
      BY <2>5 DEF Changing, Changes
    <3>. QED BY <2>5, <3>1, <3>2 DEF SessionInv, OneSession, Changes
  <2>6. CASE NewSession
    <3>1. Bare("cleared").kind = "cleared"
      BY DEF Bare, OfSession
    <3>. QED BY <2>5, <2>6, <3>1 DEF NewSession, Changes
  <2>7. ASSUME NEW s \in Sessions, PickSession(s) PROVE SessionInv'
    <3>1. OfSession("picked", s).kind = "picked"
      BY DEF OfSession
    <3>. QED BY <2>5, <2>7, <3>1 DEF PickSession, Changes, screen
  <2>8. ASSUME NEW p \in {"chat", "logs"}, MoveToPage(p) PROVE SessionInv'
    <3>1. /\ GoesOn /\ UNCHANGED <<inFlight, selected, current, editor, shown>>
      BY <2>8 DEF MoveToPage
    <3>2. ~Changing' /\ ~raced /\ \A k \in inFlight' : k.kind \notin Changes
      BY <2>2, <3>1 DEF Changing, Changes
    <3>. QED BY <1>1, <2>1, <2>2, <3>1, <3>2 DEF SessionInv, OneSession, Changes, Changing
  <2>. QED BY <1>9, <2>3, <2>4, <2>6, <2>7, <2>8 DEF User
<1>. QED BY <1>4, <1>5, <1>6, <1>7, <1>8, <1>9 DEF Next

\* What the user sees is what the next message goes to, unless the user went on
\* while a change of session was under way, for any sessions, events and sizes.
THEOREM SameSession == Spec => []OneSession
<1>1. Init => SessionInv
  BY DEF Init, SessionInv, OneSession
<1>2. SessionInv => OneSession
  BY DEF SessionInv, OneSession
<1>. QED BY <1>1, <1>2, NextSession, PTL DEF Spec

---------------------------------------------------------------------------
(* Tui: types *)

Kinds == {"selected", "picked", "cleared", "send", "compact", "summarize"}

\* The UI's own messages, when there are n sessions; some are about one of them.
AboutOne   == {"selected", "picked", "summarize"}
Fitting(n) == {m \in [kind : Kinds, session : 0 .. n] : m.kind \in AboutOne => m.session # NoSession}

\* What the database, the agent and the screen hold.
SessionsTyped ==
  /\ created \in 0 .. MaxSessions
  /\ stored \in [Sessions -> Seq(Nat \ {0})]
  /\ running \in [Sessions -> Nat] /\ summarizing \in [Sessions -> Nat]
  /\ inFlight \subseteq Fitting(created)
  /\ {selected, current, editor, shown} \subseteq 0 .. created

FlagsTyped ==
  /\ active \subseteq Sessions \X Requests
  /\ page \in {"chat", "logs"}
  /\ inputs \in 0 .. MaxInputs
  /\ {compacting, unloaded, unseen, raced, refused} \subseteq BOOLEAN

\* What is announced of messages, and listed.
Messages == [session : Sessions, index : Nat \ {0}, version : Nat \ {0}]
Listings == [index : Nat, version : Nat]

MessagesTyped ==
  /\ publishing["message"] \subseteq Messages
  /\ \A x \in Way("message") : x.event \in Messages
  /\ list \in Seq(Listings)

ChatTyped == OrderInv /\ SessionsTyped /\ FlagsTyped /\ MessagesTyped

\* Where only the flags and the list change the rest keeps its types.
LEMMA SessionsUntouched ==
  SessionsTyped /\ UNCHANGED <<created, stored, running, summarizing, inFlight, selected, current, editor, shown>>
    => SessionsTyped'
BY DEF SessionsTyped

\* The state of every session keeps its type.
LEMMA NextSessions ==
  ASSUME ChatTyped, [Next]_vars
  PROVE  SessionsTyped'
<1> USE TopicsAssumption
<1>1. CASE UNCHANGED vars \/ Transmit
  BY <1>1, SessionsUntouched DEF ChatTyped, vars, Transmit, agentVars, screen
<1>2. CASE Agent
  <2> PICK s \in Sessions : CreateMessage(s) \/ UpdateMessage(s) \/ RunEnds(s) \/ SummaryEnds(s)
    BY <1>2 DEF Agent
  <2>1. stored[s] \in Seq(Nat \ {0}) /\ running[s] \in Nat /\ summarizing[s] \in Nat
    BY DEF ChatTyped, SessionsTyped
  <2>2. UNCHANGED <<created, inFlight, selected, current, editor, shown>>
    BY DEF CreateMessage, UpdateMessage, RunEnds, SummaryEnds, screen
  <2>3. CASE CreateMessage(s)
    <3>1. stored' = [stored EXCEPT ![s] = Append(@, 1)] /\ UNCHANGED <<running, summarizing>>
      BY <2>3 DEF CreateMessage
    <3>2. stored' \in [Sessions -> Seq(Nat \ {0})]
      <4>1. Append(stored[s], 1) \in Seq(Nat \ {0})
        BY <2>1
      <4>. QED BY <3>1, <4>1 DEF ChatTyped, SessionsTyped
    <3>. QED BY <2>2, <3>1, <3>2 DEF ChatTyped, SessionsTyped
  <2>4. CASE UpdateMessage(s)
    <3> DEFINE last == Len(stored[s])
               new == [stored[s] EXCEPT ![last] = stored[s][last] + 1]
    <3>1. stored' = [stored EXCEPT ![s] = new] /\ stored[s] # <<>> /\ UNCHANGED <<running, summarizing>>
      BY <2>4 DEF UpdateMessage
    <3>2. stored' \in [Sessions -> Seq(Nat \ {0})]
      <4>1. last \in DOMAIN stored[s] /\ stored[s][last] \in Nat
        BY <2>1, <3>1
      <4>2. new \in Seq(Nat \ {0})
        BY <2>1, <4>1
      <4> HIDE DEF new
      <4>. QED BY <3>1, <4>2 DEF ChatTyped, SessionsTyped
    <3>. QED BY <2>2, <3>1, <3>2 DEF ChatTyped, SessionsTyped
  <2>5. CASE RunEnds(s)
    <3>1. running' = [running EXCEPT ![s] = @ - 1] /\ running[s] > 0 /\ UNCHANGED <<stored, summarizing>>
      BY <2>5 DEF RunEnds
    <3>2. running' \in [Sessions -> Nat]
      BY <2>1, <3>1 DEF ChatTyped, SessionsTyped
    <3>. QED BY <2>2, <3>1, <3>2 DEF ChatTyped, SessionsTyped
  <2>6. CASE SummaryEnds(s)
    <3>1. summarizing' = [summarizing EXCEPT ![s] = @ - 1] /\ summarizing[s] > 0 /\ UNCHANGED <<stored, running>>
      BY <2>6 DEF SummaryEnds
    <3>2. summarizing' \in [Sessions -> Nat]
      BY <2>1, <3>1 DEF ChatTyped, SessionsTyped
    <3>. QED BY <2>2, <3>1, <3>2 DEF ChatTyped, SessionsTyped
  <2>. QED BY <2>3, <2>4, <2>5, <2>6
<1>3. \A k \in Kinds \ AboutOne : Bare(k) \in Fitting(created)
  BY DEF Bare, OfSession, NoSession, ChatTyped, SessionsTyped, Fitting
<1>4. \A k \in Kinds : \A s \in 0 .. created : s # NoSession => OfSession(k, s) \in Fitting(created)
  BY DEF OfSession, Fitting
<1>5. ASSUME UNCHANGED <<created, stored, running, summarizing>>,
             inFlight' \subseteq Fitting(created),
             {selected', current', editor', shown'} \subseteq 0 .. created
      PROVE  SessionsTyped'
  BY <1>5 DEF ChatTyped, SessionsTyped
<1>6. /\ inFlight \subseteq Fitting(created)
      /\ {selected, current, editor, shown} \subseteq 0 .. created /\ NoSession \in 0 .. created
  BY DEF ChatTyped, SessionsTyped, NoSession
<1>7. CASE Receive
  <2>1. UNCHANGED <<created, stored, running, summarizing, selected, current, editor, shown>>
    BY <1>7 DEF Receive, agentVars
  <2>2. UNCHANGED inFlight \/ inFlight' = inFlight \cup {Bare("compact")}
    BY <1>7 DEF Receive, MessageEvent, AgentEvent
  <2>3. inFlight' \subseteq Fitting(created)
    BY <1>3, <1>6, <2>2 DEF Kinds, AboutOne
  <2>. QED BY <1>5, <1>6, <2>1, <2>3
<1>8. CASE Command
  <2> PICK m \in inFlight : \/ SessionSelected(m) \/ SessionPicked(m) \/ SessionCleared(m)
                            \/ Send(m) \/ StartCompact(m) \/ Summarize(m)
    BY <1>8 DEF Command
  <2>1. m.session \in 0 .. created
    BY <1>6 DEF Fitting
  <2>2. CASE SessionSelected(m)
    <3>1. /\ inFlight' = inFlight \ {m} /\ UNCHANGED <<created, stored, running, summarizing>>
          /\ {selected', current', editor', shown'} \subseteq {m.session, selected, current, editor, shown}
      BY <2>2 DEF SessionSelected, agentVars
    <3>. QED BY <1>5, <1>6, <2>1, <3>1
  <2>3. CASE SessionPicked(m)
    <3>1. /\ inFlight' \subseteq inFlight \cup {OfSession("selected", m.session)}
          /\ UNCHANGED <<created, stored, running, summarizing, selected, current, editor, shown>>
      BY <2>3 DEF SessionPicked, agentVars, screen
    <3>2. OfSession("selected", m.session) \in Fitting(created)
      <4>1. m.session # NoSession
        BY <1>6, <2>3 DEF SessionPicked, Fitting, AboutOne
      <4>. QED BY <1>4, <2>1, <4>1 DEF Kinds
    <3>. QED BY <1>5, <1>6, <3>1, <3>2
  <2>4. CASE SessionCleared(m)
    <3>1. /\ inFlight' = inFlight \ {m} /\ UNCHANGED <<created, stored, running, summarizing>>
          /\ {selected', current', editor', shown'} \subseteq {NoSession, selected, current, editor, shown}
      BY <2>4 DEF SessionCleared, agentVars
    <3>. QED BY <1>5, <1>6, <3>1
  <2>5. CASE Send(m)
    <3> DEFINE s == IF current = NoSession THEN created + 1 ELSE current
               n == OfSession("selected", s)
    <3>1. /\ s \in Sessions /\ (UNCHANGED running \/ running' = [running EXCEPT ![s] = @ + 1])
          /\ UNCHANGED <<stored, summarizing, selected, editor, shown>>
          /\ created' \in {created, s} /\ current' \in {current, s}
          /\ inFlight' \subseteq inFlight \cup {n}
      BY <2>5 DEF Send, Run
    <3>2. created \in 0 .. MaxSessions /\ current \in 0 .. created
      BY DEF ChatTyped, SessionsTyped
    <3>3. /\ created' \in 0 .. MaxSessions /\ created' >= created
          /\ (page = "chat" => s \in 0 .. created' /\ s # NoSession)
          /\ (page # "chat" => inFlight' \subseteq inFlight /\ UNCHANGED current)
      <4>1. CASE page # "chat"
        BY <2>5, <3>2, <4>1 DEF Send
      <4>2. CASE page = "chat"
        <5>1. created' = IF current = NoSession THEN s ELSE created
          BY <2>5, <4>2 DEF Send
        <5>. QED BY <3>1, <3>2, <4>2, <5>1 DEF Sessions, NoSession
      <4>. QED BY <4>1, <4>2
    <3>4. running' \in [Sessions -> Nat]
      <4>1. running \in [Sessions -> Nat]
        BY DEF ChatTyped, SessionsTyped
      <4> HIDE DEF s
      <4>. QED BY <3>1, <4>1
    <3>5. 0 .. created \subseteq 0 .. created'
      BY <3>2, <3>3
    <3>6. {selected', current', editor', shown'} \subseteq 0 .. created'
      BY <1>6, <3>1, <3>3, <3>5
    <3>7. inFlight' \subseteq Fitting(created')
      <4>1. inFlight \subseteq Fitting(created')
        BY <1>6, <3>5 DEF Fitting
      <4>2. page = "chat" => n \in Fitting(created')
        BY <3>3 DEF OfSession, Kinds, Fitting
      <4>. QED BY <3>1, <3>3, <4>1, <4>2
    <3>. QED BY <3>1, <3>3, <3>4, <3>6, <3>7 DEF ChatTyped, SessionsTyped
  <2>6. CASE StartCompact(m)
    <3>1. /\ inFlight' \subseteq inFlight \cup {OfSession("summarize", s) : s \in {selected} \ {NoSession}}
          /\ UNCHANGED <<created, stored, running, summarizing, selected, current, editor, shown>>
      BY <2>6 DEF StartCompact, agentVars
    <3>2. selected # NoSession => OfSession("summarize", selected) \in Fitting(created)
      BY <1>4, <1>6 DEF Kinds
    <3>. QED BY <1>5, <1>6, <3>1, <3>2
  <2>7. CASE Summarize(m)
    <3>1. /\ inFlight' = inFlight \ {m}
          /\ UNCHANGED <<created, stored, running, selected, current, editor, shown>>
          /\ UNCHANGED summarizing \/ summarizing' = [summarizing EXCEPT ![m.session] = @ + 1]
      BY <2>7 DEF Summarize, screen
    <3>2. summarizing' \in [Sessions -> Nat]
      <4>1. summarizing \in [Sessions -> Nat]
        BY DEF ChatTyped, SessionsTyped
      <4>. QED BY <3>1, <4>1
    <3>. QED BY <1>6, <3>1, <3>2 DEF ChatTyped, SessionsTyped
  <2>. QED BY <2>2, <2>3, <2>4, <2>5, <2>6, <2>7
<1>9. CASE User
  <2>1. UNCHANGED <<created, stored, running, summarizing, selected, editor, shown>>
        /\ current' \in {current, NoSession}
    BY <1>9 DEF User, Enter, NewSession, PickSession, Compact, Cancel, MoveToPage, agentVars, screen
  <2>2. \/ UNCHANGED inFlight
        \/ \E k \in {"send", "compact", "cleared"} : inFlight' = inFlight \cup {Bare(k)}
        \/ \E s \in Sessions : s <= created /\ inFlight' = inFlight \cup {OfSession("picked", s)}
    BY <1>9 DEF User, Enter, NewSession, PickSession, Compact, Cancel, MoveToPage, Kinds
  <2>3. inFlight' \subseteq Fitting(created)
    <3>1. \A s \in Sessions : s <= created => OfSession("picked", s) \in Fitting(created)
      <4>1. created \in Nat
        BY DEF ChatTyped, SessionsTyped
      <4>2. \A s \in Sessions : s \in Nat /\ s # NoSession
        BY DEF Sessions, NoSession
      <4>3. ASSUME NEW s \in Sessions, s <= created PROVE s \in 0 .. created /\ s # NoSession
        BY <4>1, <4>2, <4>3, SMT
      <4>. QED BY <1>4, <4>3 DEF Kinds
    <3>2. \A k \in {"send", "compact", "cleared"} : Bare(k) \in Fitting(created)
      BY <1>3 DEF Kinds, AboutOne
    <3>. QED BY <1>6, <2>2, <3>1, <3>2
  <2>. QED BY <1>5, <1>6, <2>1, <2>3
<1>. QED BY <1>1, <1>2, <1>7, <1>8, <1>9 DEF Next

\* So do the dialog, the command under way and the flags.
LEMMA NextFlags ==
  ASSUME ChatTyped, [Next]_vars
  PROVE  FlagsTyped'
<1>0. /\ active \subseteq Sessions \X Requests /\ page \in {"chat", "logs"} /\ inputs \in 0 .. MaxInputs
      /\ compacting \in BOOLEAN /\ unseen \in BOOLEAN /\ raced \in BOOLEAN /\ refused \in BOOLEAN
  BY DEF ChatTyped, FlagsTyped
<1>1. active' \subseteq Sessions \X Requests
  <2>1. CASE UNCHANGED active
    BY <1>0, <2>1
  <2>2. CASE \E s \in Sessions, r \in Requests : active' = active \cup {<<s, r>>}
    BY <1>0, <2>2
  <2>3. CASE active' \subseteq active
    BY <1>0, <2>3
  <2>4. CASE Command
    <3> PICK m \in inFlight : \/ SessionSelected(m) \/ SessionPicked(m) \/ SessionCleared(m)
                              \/ Send(m) \/ StartCompact(m) \/ Summarize(m)
      BY <2>4 DEF Command
    <3>1. CASE Send(m)
      <4>1. UNCHANGED active \/ \E s \in Sessions : active' = active \cup {<<s, "run">>}
        BY <3>1 DEF Send, Run
      <4>. QED BY <2>1, <2>2, <4>1 DEF Requests
    <3>2. CASE Summarize(m)
      <4>1. UNCHANGED active \/ active' = active \cup {<<m.session, "summary">>}
        BY <3>2 DEF Summarize
      <4>2. m.session \in Sessions
        <5>1. m.session \in 0 .. created /\ m.session # NoSession /\ created \in 0 .. MaxSessions
          BY <3>2 DEF Summarize, ChatTyped, SessionsTyped, Fitting, AboutOne
        <5>. QED BY <5>1, TopicsAssumption DEF NoSession, Sessions
      <4>. QED BY <2>1, <2>2, <4>1, <4>2 DEF Requests
    <3>. QED BY <2>1, <3>1, <3>2 DEF SessionSelected, SessionPicked, SessionCleared, StartCompact, agentVars
  <2>5. CASE ~Command
    BY <2>1, <2>3, <2>5 DEF Next, vars, Agent, CreateMessage, UpdateMessage, RunEnds, SummaryEnds, Receive,
       User, Enter, NewSession, PickSession, Compact, Cancel, MoveToPage, Transmit, agentVars
  <2>. QED BY <2>4, <2>5
<1>2. page' \in {"chat", "logs"}
  <2>1. UNCHANGED page \/ page' \in {"chat", "logs"}
    BY DEF Next, vars, Agent, CreateMessage, UpdateMessage, RunEnds, SummaryEnds, Receive,
       Command, SessionSelected, SessionPicked, SessionCleared, Send, StartCompact, Summarize,
       User, Enter, NewSession, PickSession, Compact, Cancel, MoveToPage, Transmit, screen
  <2>. QED BY <1>0, <2>1
<1>3. inputs' \in 0 .. MaxInputs
  <2>1. UNCHANGED inputs \/ (inputs < MaxInputs /\ inputs' = inputs + 1)
    BY DEF Next, vars, Agent, CreateMessage, UpdateMessage, RunEnds, SummaryEnds, Receive,
       Command, SessionSelected, SessionPicked, SessionCleared, Send, StartCompact, Summarize,
       User, Enter, NewSession, PickSession, Compact, Cancel, MoveToPage, Transmit, Input
  <2>. QED BY <1>0, <2>1, TopicsAssumption
<1>4. unseen' \in BOOLEAN
  <2>1. UNCHANGED unseen \/ unseen' = TRUE
    BY DEF Next, vars, ghosts, Agent, CreateMessage, UpdateMessage, RunEnds, SummaryEnds, Receive,
       MessageEvent, AgentEvent,
       Command, SessionSelected, SessionPicked, SessionCleared, Send, StartCompact, Summarize,
       User, Enter, NewSession, PickSession, Compact, Cancel, MoveToPage, Transmit
  <2>. QED BY <1>0, <2>1
<1>5. raced' \in BOOLEAN
  <2>1. raced' = raced \/ raced' \in BOOLEAN
    BY DEF Next, vars, ghosts, Agent, CreateMessage, UpdateMessage, RunEnds, SummaryEnds, Receive,
       Command, SessionSelected, SessionPicked, SessionCleared, Send, StartCompact, Summarize,
       User, Enter, NewSession, PickSession, Compact, Cancel, MoveToPage, Transmit, GoesOn
  <2>. QED BY <1>0, <2>1
<1>6. compacting' \in BOOLEAN /\ refused' \in BOOLEAN
  <2>1. CASE Receive
    <3>1. UNCHANGED <<compacting, refused>> \/ (compacting' = FALSE /\ refused' = FALSE)
      BY <2>1 DEF Receive, MessageEvent, AgentEvent
    <3>. QED BY <1>0, <3>1
  <2>2. CASE Command
    <3> PICK m \in inFlight : \/ SessionSelected(m) \/ SessionPicked(m) \/ SessionCleared(m)
                              \/ Send(m) \/ StartCompact(m) \/ Summarize(m)
      BY <2>2 DEF Command
    <3>1. CASE StartCompact(m)
      <4>1. compacting' = (selected # NoSession) /\ refused' = (refused /\ selected # NoSession)
        BY <3>1 DEF StartCompact
      <4>. QED BY <4>1
    <3>2. CASE Summarize(m)
      <4>1. UNCHANGED compacting /\ (UNCHANGED refused \/ refused' = compacting)
        BY <3>2 DEF Summarize, screen
      <4>. QED BY <1>0, <4>1
    <3>3. CASE ~StartCompact(m) /\ ~Summarize(m)
      <4>1. UNCHANGED <<compacting, refused>>
        BY <3>3 DEF SessionSelected, SessionPicked, SessionCleared, Send, ghosts, screen
      <4>. QED BY <1>0, <4>1
    <3>. QED BY <3>1, <3>2, <3>3
  <2>3. CASE ~Receive /\ ~Command
    <3>1. UNCHANGED <<compacting, refused>>
      BY <2>3 DEF Next, vars, ghosts, screen, Agent, CreateMessage, UpdateMessage, RunEnds, SummaryEnds,
         User, Enter, NewSession, PickSession, Compact, Cancel, MoveToPage, Transmit
    <3>. QED BY <1>0, <3>1
  <2>. QED BY <2>1, <2>2, <2>3
<1>7. unloaded' \in BOOLEAN
  <2>0. unloaded \in BOOLEAN
    BY DEF ChatTyped, FlagsTyped
  <2>1. UNCHANGED unloaded \/ unloaded' = TRUE \/ unloaded' = FALSE
    BY DEF Next, vars, screen, Agent, CreateMessage, UpdateMessage, RunEnds, SummaryEnds, Receive,
       Command, SessionSelected, SessionPicked, SessionCleared, Send, StartCompact, Summarize,
       User, Enter, NewSession, PickSession, Compact, Cancel, MoveToPage, Transmit
  <2>. QED BY <2>0, <2>1
<1>. QED BY <1>1, <1>2, <1>3, <1>4, <1>5, <1>6, <1>7 DEF FlagsTyped

\* What Publish does to the way of a topic.
LEMMA Published ==
  ASSUME OrderInv, NEW u \in Topics, NEW e, Publish(u, e), NEW t \in Topics
  PROVE  /\ Way(t)' = Way(t)
         /\ t # u => publishing'[t] = publishing[t]
         /\ \/ publishing'[u] = publishing[u] \cup {e}
            \/ publishing'[u] = publishing[u] /\ u \in dropped'
<1>1. publishing \in [Topics -> SUBSET Payloads]
  BY DEF OrderInv, EventsTypeOK
<1>. QED BY <1>1, WayUntouched DEF Publish, Dropped

\* And what the brokers and the forwarding goroutines do to it.
LEMMA Transmitted ==
  ASSUME OrderInv, Transmit, NEW t \in Topics
  PROVE  \/ publishing'[t] = publishing[t] /\ Way(t)' = Way(t)
         \/ \E e \in publishing[t] :
              /\ publishing'[t] = publishing[t] \ {e}
              /\ Way(t)' = Way(t) \cup {[number |-> offered[t] + 1, event |-> e]}
         \/ t \in dropped' /\ publishing'[t] \subseteq publishing[t] /\ Way(t)' \subseteq Way(t)
<1>1. publishing \in [Topics -> SUBSET Payloads] /\ held \in [Topics -> Numbered \cup {Nothing}]
  BY DEF OrderInv, EventsTypeOK
<1>2. CASE Teardown
  BY <1>2, WayUntouched DEF Teardown, Exit, CancelSubscriptions, CloseOutput, Join
<1>3. ASSUME NEW u \in Topics, Transport(u) PROVE
        /\ UNCHANGED publishing
        /\ Way(t)' = Way(t) \/ (t \in dropped' /\ Way(t)' \subseteq Way(t))
  <2>1. CASE Unsubscribe(u) \/ Subscribe(u)
    BY <2>1, WayUntouched DEF Unsubscribe, Subscribe
  <2>2. CASE Take(u)
    BY <2>2, WayTaken DEF Take
  <2>3. CASE Forward(u)
    BY <2>3, WayForwarded DEF Forward
  <2>4. CASE DropSlow(u) \/ StopForwarding(u)
    <3>1. UNCHANGED <<publishing, queue, output>> /\ held' = [held EXCEPT ![u] = Nothing] /\ u \in dropped'
      BY <2>4 DEF DropSlow, StopForwarding, Dropped
    <3>2. Buffered(t)' = Buffered(t) /\ Forwarded(t)' = Forwarded(t)
      BY <3>1 DEF Buffered, Forwarded
    <3>3. t # u => held'[t] = held[t]
      BY <1>1, <3>1
    <3>4. t = u => held'[t] = Nothing
      BY <1>1, <3>1
    <3>. QED BY <3>1, <3>2, <3>3, <3>4 DEF Way
  <2>. QED BY <1>3, <2>1, <2>2, <2>3, <2>4 DEF Transport
<1>4. ASSUME NEW u \in Topics, NEW e \in publishing[u], Offer(u, e), u # t
      PROVE  publishing'[t] = publishing[t] /\ Way(t)' = Way(t)
  <2>1. publishing'[t] = publishing[t] /\ UNCHANGED <<held, output>> /\ queue'[t] = queue[t]
    <3>1. queue \in [Topics -> Seq(Numbered)]
      BY DEF OrderInv, EventsTypeOK
    <3>. QED BY <1>1, <1>4, <3>1 DEF Offer
  <2>. QED BY <2>1 DEF Way, Buffered, Forwarded
<1>5. ASSUME NEW e \in publishing[t], Offer(t, e)
      PROVE  /\ publishing'[t] = publishing[t] \ {e}
             /\ \/ Way(t)' = Way(t) \cup {[number |-> offered[t] + 1, event |-> e]}
                \/ t \in dropped' /\ Way(t)' = Way(t)
  <2>1. publishing'[t] = publishing[t] \ {e}
    BY <1>1, <1>5 DEF Offer
  <2>2. CASE t \in dropped' /\ UNCHANGED queue
    BY <1>5, <2>1, <2>2, WayUntouched DEF Offer
  <2>3. CASE queue' = [queue EXCEPT ![t] = Append(@, [number |-> offered[t] + 1, event |-> e])]
    BY <1>5, <2>1, <2>3, WayAppended DEF Offer
  <2>. QED BY <1>5, <2>2, <2>3 DEF Offer, Dropped
<1>. QED BY <1>2, <1>3, <1>4, <1>5 DEF Transmit

\* A message event, listed, leaves a list.
LEMMA ListedTyped ==
  ASSUME list \in Seq(Listings), NEW e \in Messages
  PROVE  Listed(e) \in Seq(Listings)
<1> DEFINE m == [index |-> e.index, version |-> e.version]
           at == {i \in DOMAIN list : list[i].index = e.index}
<1>1. m \in Listings
  BY DEF Messages, Listings
<1>2. Append(list, m) \in Seq(Listings)
  BY <1>1
<1>3. [i \in DOMAIN list |-> IF i \in at THEN m ELSE list[i]] \in Seq(Listings)
  <2> HIDE DEF m, at
  <2>1. DOMAIN list = 1 .. Len(list) /\ Len(list) \in Nat
    OBVIOUS
  <2>2. \A i \in 1 .. Len(list) : (IF i \in at THEN m ELSE list[i]) \in Listings
    BY <1>1, <2>1
  <2>. QED BY <2>1, <2>2
<1>. QED BY <1>2, <1>3 DEF Listed

\* What the list is made of a stored session.
LEMMA LoadedTyped ==
  ASSUME NEW f \in Seq(Nat \ {0})
  PROVE  [i \in DOMAIN f |-> [index |-> i, version |-> f[i]]] \in Seq(Listings)
<1>1. DOMAIN f = 1 .. Len(f) /\ Len(f) \in Nat
  OBVIOUS
<1>2. \A i \in 1 .. Len(f) : [index |-> i, version |-> f[i]] \in Listings
  BY DEF Listings
<1>. QED BY <1>1, <1>2

\* The messages under way keep their types.
LEMMA NextMessages ==
  ASSUME ChatTyped, [Next]_vars
  PROVE  MessagesTyped'
<1>0. /\ OrderInv /\ SessionsTyped /\ "message" \in Topics /\ "agent" \in Topics
      /\ publishing["message"] \subseteq Messages
      /\ \A x \in Way("message") : x.event \in Messages
      /\ list \in Seq(Listings)
  BY TopicsAssumption DEF ChatTyped, MessagesTyped
<1>1. ASSUME UNCHANGED <<publishing, queue, held, output>>, list' \in Seq(Listings)
      PROVE  MessagesTyped'
  BY <1>0, <1>1, WayUntouched DEF MessagesTyped
<1>2. ASSUME UNCHANGED eventVars, list' \in Seq(Listings) PROVE MessagesTyped'
  BY <1>1, <1>2 DEF eventVars
<1>3. CASE UNCHANGED vars
  BY <1>0, <1>2, <1>3 DEF vars, screen
<1>4. CASE Agent
  <2> PICK s \in Sessions : CreateMessage(s) \/ UpdateMessage(s) \/ RunEnds(s) \/ SummaryEnds(s)
    BY <1>4 DEF Agent
  <2>1. UNCHANGED list
    BY DEF CreateMessage, UpdateMessage, RunEnds, SummaryEnds, screen
  <2>2. \/ \E e \in Messages : Publish("message", e)
        \/ \E e : Publish("agent", e)
    <3>1. stored[s] \in Seq(Nat \ {0})
      BY <1>0 DEF SessionsTyped
    <3>2. CASE CreateMessage(s)
      <4>1. [session |-> s, index |-> Len(stored[s]) + 1, version |-> 1] \in Messages
        BY <3>1 DEF Messages
      <4>. QED BY <3>2, <4>1 DEF CreateMessage
    <3>3. CASE UpdateMessage(s)
      <4> DEFINE e == [session |-> s, index |-> Len(stored[s]), version |-> stored[s][Len(stored[s])] + 1]
      <4>1. stored[s] # <<>> /\ Publish("message", e)
        BY <3>3 DEF UpdateMessage
      <4>2. Len(stored[s]) \in Nat \ {0} /\ stored[s][Len(stored[s])] + 1 \in Nat \ {0}
        BY <3>1, <4>1
      <4>. QED BY <4>1, <4>2 DEF Messages
    <3>. QED BY <3>2, <3>3 DEF RunEnds, SummaryEnds
  <2>3. Way("message")' = Way("message")
    BY <1>0, <2>2, Published
  <2>4. publishing'["message"] \subseteq Messages
    <3>1. CASE \E e \in Messages : Publish("message", e)
      BY <1>0, <3>1, Published
    <3>2. CASE \E e : Publish("agent", e)
      BY <1>0, <3>2, Published
    <3>. QED BY <2>2, <3>1, <3>2
  <2>. QED BY <1>0, <2>1, <2>3, <2>4 DEF MessagesTyped
<1>5. CASE Transmit
  <2>1. UNCHANGED list
    BY <1>5 DEF Transmit, screen
  <2>2. publishing'["message"] \subseteq Messages
    BY <1>0, <1>5, Transmitted
  <2>3. \A x \in Way("message")' : x.event \in Messages
    BY <1>0, <1>5, Transmitted
  <2>. QED BY <1>0, <2>1, <2>2, <2>3 DEF MessagesTyped
<1>6. CASE Receive
  <2>1. Deliver /\ UNCHANGED publishing /\ output # <<>>
    BY <1>6 DEF Receive, Deliver
  <2>2. PICK t : t = Head(output).topic
    OBVIOUS
  <2>3. PICK x : x = Content(Head(output))
    OBVIOUS
  <2>4. /\ x \in Way(t) /\ (t # "message" => Way("message")' = Way("message"))
        /\ (t = "message" => Way("message") = Way("message")' \cup {x})
    BY <1>0, <2>1, <2>2, <2>3, WayDelivered
  <2>5. list' \in Seq(Listings)
    <3>1. CASE main = "running" /\ t = "message"
      <4>1. list' \in {list, Listed(Head(output).event)}
        BY <1>6, <2>2, <3>1 DEF Receive, MessageEvent
      <4>2. Head(output).event \in Messages
        BY <1>0, <2>3, <2>4, <3>1 DEF Content
      <4>. QED BY <1>0, <4>1, <4>2, ListedTyped
    <3>2. CASE ~(main = "running" /\ t = "message")
      <4>1. UNCHANGED list
        BY <1>6, <2>2, <3>2 DEF Receive, AgentEvent
      <4>. QED BY <1>0, <4>1
    <3>. QED BY <3>1, <3>2
  <2>. QED BY <1>0, <2>1, <2>4, <2>5 DEF MessagesTyped
<1>7. CASE Command
  <2> PICK m \in inFlight : \/ SessionSelected(m) \/ SessionPicked(m) \/ SessionCleared(m)
                            \/ Send(m) \/ StartCompact(m) \/ Summarize(m)
    BY <1>7 DEF Command
  <2>1. CASE SessionSelected(m)
    <3>1. stored[m.session] \in Seq(Nat \ {0})
      <4>1. m.session \in 0 .. created /\ m.session # NoSession /\ created \in 0 .. MaxSessions
        BY <1>0, <2>1 DEF SessionSelected, SessionsTyped, Fitting, AboutOne
      <4>2. m.session \in Sessions
        BY <4>1, TopicsAssumption DEF NoSession, Sessions
      <4>. QED BY <1>0, <4>2 DEF SessionsTyped
    <3>2. \/ UNCHANGED list
          \/ list' = [i \in DOMAIN stored[m.session] |-> [index |-> i, version |-> stored[m.session][i]]]
          \/ list' = <<>>
      BY <2>1 DEF SessionSelected
    <3>4. <<>> \in Seq(Listings)
      OBVIOUS
    <3>3. list' \in Seq(Listings)
      BY <1>0, <3>1, <3>2, <3>4, LoadedTyped
    <3>. QED BY <1>2, <2>1, <3>3 DEF SessionSelected
  <2>2. CASE SessionCleared(m)
    <3>1. list' = list \/ list' = <<>>
      BY <2>2 DEF SessionCleared
    <3>2. <<>> \in Seq(Listings)
      OBVIOUS
    <3>3. list' \in Seq(Listings)
      BY <1>0, <3>1, <3>2
    <3>. QED BY <1>2, <2>2, <3>3 DEF SessionCleared
  <2>. QED BY <1>0, <1>2, <2>1, <2>2 DEF SessionPicked, Send, StartCompact, Summarize, screen
<1>8. CASE User
  BY <1>0, <1>2, <1>8 DEF User, Enter, NewSession, PickSession, Compact, Cancel, MoveToPage, screen
<1>. QED BY <1>3, <1>4, <1>5, <1>6, <1>7, <1>8 DEF Next

\* The types are kept.
LEMMA NextTyped == ChatTyped /\ [Next]_vars => ChatTyped'
<1> SUFFICES ASSUME ChatTyped, [Next]_vars PROVE ChatTyped'
  OBVIOUS
<1>1. OrderInv'
  BY NextIsEvents, NextOrder DEF ChatTyped, OrderInv
<1>. QED BY <1>1, NextSessions, NextFlags, NextMessages DEF ChatTyped

\* The types at first.
LEMMA InitTyped == Init => ChatTyped
<1> SUFFICES ASSUME Init PROVE ChatTyped
  OBVIOUS
<1>1. EventsInit /\ OrderInv
  BY InitOrder DEF Init
<1>2. SessionsTyped
  BY TopicsAssumption DEF Init, SessionsTyped, NoSession
<1>3. FlagsTyped
  <2>1. /\ active = {} /\ page = "chat" /\ inputs = 0
        /\ compacting = FALSE /\ unloaded = FALSE /\ unseen = FALSE
        /\ raced = FALSE /\ refused = FALSE
    BY DEF Init
  <2>2. inputs \in 0 .. MaxInputs
    BY <2>1, TopicsAssumption
  <2>. QED BY <2>1, <2>2 DEF FlagsTyped
<1>4. MessagesTyped
  <2>1. Way("message") = {} /\ publishing["message"] = {}
    BY <1>1, TopicsAssumption DEF EventsInit, Way, Buffered, Forwarded
  <2>2. list \in Seq(Listings)
    BY DEF Init
  <2>. QED BY <2>1, <2>2 DEF MessagesTyped
<1>. QED BY <1>1, <1>2, <1>3, <1>4 DEF ChatTyped

\* The variables of the chat have their types, for any sessions, events and sizes.
THEOREM ChatTypeCorrect == Spec => []TypeOK
<1>1. ChatTyped => TypeOK
  <2> SUFFICES ASSUME ChatTyped PROVE TypeOK
    OBVIOUS
  <2>1. \A s \in Sessions : stored[s] \in Seq(Nat) /\ running[s] \in Nat /\ summarizing[s] \in Nat
    <3>1. \A s \in Sessions : stored[s] \in Seq(Nat \ {0})
      BY DEF ChatTyped, SessionsTyped
    <3>2. \A f \in Seq(Nat \ {0}) : f \in Seq(Nat)
      OBVIOUS
    <3>. QED BY <3>1, <3>2 DEF ChatTyped, SessionsTyped
  <2>2. inFlight \subseteq [kind : Kinds, session : 0 .. created]
    BY DEF ChatTyped, SessionsTyped, Fitting
  <2>. QED BY <2>1, <2>2 DEF ChatTyped, OrderInv, SessionsTyped, FlagsTyped, MessagesTyped, Listings, Kinds, TypeOK
<1>. QED BY <1>1, InitTyped, NextTyped, PTL DEF Spec

---------------------------------------------------------------------------
(* Tui: the overlay *)

\* The end of a summary, or the error of a run, is on its way to the UI.
EndUnderWay ==
  \/ \E e \in publishing["agent"] : e.kind \in {"error", "summary"}
  \/ \E x \in Way("agent") : x.event.kind \in {"error", "summary"}

OverlayInv ==
  compacting /\ main = "running" /\ "agent" \notin dropped /\ ~refused =>
    \/ \E m \in inFlight : m.kind = "summarize"
    \/ \E s \in Sessions : summarizing[s] > 0
    \/ EndUnderWay

\* What was dropped stays so.
LEMMA DroppedStays == OrderInv /\ [Next]_vars => dropped \subseteq dropped'
<1> SUFFICES ASSUME OrderInv, [EventsNext]_eventVars PROVE dropped \subseteq dropped'
  BY NextIsEvents DEF OrderInv
<1>. QED BY DEF EventsNext, eventVars, Publish, Offer, Transport, Unsubscribe, Subscribe, Take, Forward,
         DropSlow, StopForwarding, Deliver, Teardown, Exit, CancelSubscriptions, CloseOutput, Join, Dropped

\* The overlay waits for what will take it away.
LEMMA NextOverlay == ChatTyped /\ OverlayInv /\ [Next]_vars => OverlayInv'
<1> SUFFICES ASSUME ChatTyped, OverlayInv, [Next]_vars,
                    compacting', main' = "running", "agent" \notin dropped', ~refused'
             PROVE  (\E m \in inFlight : m.kind = "summarize")' \/ (\E s \in Sessions : summarizing'[s] > 0)
                    \/ EndUnderWay'
  BY DEF OverlayInv
<1>0. /\ OrderInv /\ SessionsTyped /\ main = "running" /\ "agent" \notin dropped
      /\ "agent" \in Topics /\ "message" \in Topics
  BY StaysOver, DroppedStays, TopicsAssumption DEF ChatTyped
<1>1. ASSUME UNCHANGED <<publishing, queue, held, output>> PROVE EndUnderWay => EndUnderWay'
  BY <1>1, WayUntouched DEF EndUnderWay
<1>2. ASSUME UNCHANGED eventVars PROVE EndUnderWay => EndUnderWay'
  BY <1>1, <1>2 DEF eventVars
<1>3. CASE UNCHANGED vars
  BY <1>0, <1>2, <1>3 DEF vars, screen, agentVars, ghosts, OverlayInv
<1>4. CASE Agent
  <2> PICK s \in Sessions : CreateMessage(s) \/ UpdateMessage(s) \/ RunEnds(s) \/ SummaryEnds(s)
    BY <1>4 DEF Agent
  <2>0. UNCHANGED <<compacting, refused, inFlight>>
    BY DEF CreateMessage, UpdateMessage, RunEnds, SummaryEnds, screen, ghosts
  <2>1. CASE SummaryEnds(s)
    <3>1. PICK k \in {"summary", "error"} : Publish("agent", [kind |-> k])
      BY <2>1 DEF SummaryEnds
    <3>2. publishing'["agent"] = publishing["agent"] \cup {[kind |-> k]}
      BY <1>0, <3>1, Published
    <3>3. [kind |-> k].kind \in {"error", "summary"}
      OBVIOUS
    <3>. QED BY <3>2, <3>3 DEF EndUnderWay
  <2>2. CASE ~SummaryEnds(s)
    <3>1. UNCHANGED summarizing /\ \E t \in {"message", "agent"} : \E e : Publish(t, e)
      BY <2>2 DEF CreateMessage, UpdateMessage, RunEnds
    <3>0. PICK t \in {"message", "agent"} : \E e : Publish(t, e)
      BY <3>1
    <3>2. PICK e : Publish(t, e)
      BY <3>0
    <3>3. publishing["agent"] \subseteq publishing'["agent"] /\ Way("agent")' = Way("agent")
      BY <1>0, <3>2, Published
    <3>4. EndUnderWay => EndUnderWay'
      BY <3>3 DEF EndUnderWay
    <3>. QED BY <1>0, <2>0, <3>1, <3>4 DEF OverlayInv
  <2>. QED BY <2>1, <2>2
<1>5. CASE Transmit
  <2>1. UNCHANGED <<compacting, refused, inFlight, summarizing>>
    BY <1>5 DEF Transmit, screen, ghosts, agentVars
  <2>2. EndUnderWay => EndUnderWay'
    <3>1. CASE publishing'["agent"] = publishing["agent"] /\ Way("agent")' = Way("agent")
      BY <3>1 DEF EndUnderWay
    <3>2. CASE \E e \in publishing["agent"] :
                 /\ publishing'["agent"] = publishing["agent"] \ {e}
                 /\ Way("agent")' = Way("agent") \cup {[number |-> offered["agent"] + 1, event |-> e]}
      <4>1. PICK e \in publishing["agent"] :
                 /\ publishing'["agent"] = publishing["agent"] \ {e}
                 /\ Way("agent")' = Way("agent") \cup {[number |-> offered["agent"] + 1, event |-> e]}
        BY <3>2
      <4>2. [number |-> offered["agent"] + 1, event |-> e] \in Way("agent")'
        BY <4>1
      <4>3. e.kind \in {"error", "summary"} => EndUnderWay'
        BY <4>2 DEF EndUnderWay
      <4>4. (\E d \in publishing["agent"] \ {e} : d.kind \in {"error", "summary"}) => EndUnderWay'
        BY <4>1 DEF EndUnderWay
      <4>5. (\E x \in Way("agent") : x.event.kind \in {"error", "summary"}) => EndUnderWay'
        BY <4>1 DEF EndUnderWay
      <4>. QED BY <4>3, <4>4, <4>5 DEF EndUnderWay
    <3>. QED BY <1>0, <1>5, <3>1, <3>2, Transmitted
  <2>. QED BY <1>0, <2>1, <2>2 DEF OverlayInv
<1>6. CASE Receive
  <2>1. Deliver /\ UNCHANGED <<publishing, summarizing>> /\ output # <<>>
    BY <1>6 DEF Receive, Deliver, agentVars
  <2>2. PICK t : t = Head(output).topic
    OBVIOUS
  <2>3. PICK x : x = Content(Head(output))
    OBVIOUS
  <2>4. /\ t # "agent" => Way("agent")' = Way("agent")
        /\ t = "agent" => Way("agent") = Way("agent")' \cup {x}
    BY <1>0, <2>1, <2>2, <2>3, WayDelivered
  <2>5. CASE t # "agent"
    <3>1. UNCHANGED <<inFlight, compacting, refused>>
      BY <1>6, <2>2, <2>5 DEF Receive, MessageEvent
    <3>2. EndUnderWay => EndUnderWay'
      BY <2>1, <2>4, <2>5 DEF EndUnderWay
    <3>. QED BY <1>0, <2>1, <3>1, <3>2 DEF OverlayInv
  <2>6. CASE t = "agent"
    <3>1. AgentEvent(Head(output).event)
      BY <1>0, <1>6, <2>2, <2>6 DEF Receive
    <3>2. /\ Head(output).event.kind \notin {"error", "summary"} /\ UNCHANGED <<compacting, refused>>
          /\ inFlight \subseteq inFlight'
      BY <3>1 DEF AgentEvent
    <3>3. x.event.kind \notin {"error", "summary"}
      BY <2>3, <3>2 DEF Content
    <3>4. EndUnderWay => EndUnderWay'
      BY <2>1, <2>4, <2>6, <3>3 DEF EndUnderWay
    <3>. QED BY <1>0, <2>1, <3>2, <3>4 DEF OverlayInv
  <2>. QED BY <2>5, <2>6
<1>7. CASE Command
  <2> PICK m \in inFlight : \/ SessionSelected(m) \/ SessionPicked(m) \/ SessionCleared(m)
                            \/ Send(m) \/ StartCompact(m) \/ Summarize(m)
    BY <1>7 DEF Command
  <2>1. UNCHANGED eventVars
    BY DEF SessionSelected, SessionPicked, SessionCleared, Send, StartCompact, Summarize
  <2>2. CASE StartCompact(m)
    <3>1. selected # NoSession /\ OfSession("summarize", selected) \in inFlight'
      BY <2>2 DEF StartCompact
    <3>. QED BY <3>1 DEF OfSession
  <2>3. CASE Summarize(m)
    <3>1. m.session \in Sessions
      <4>1. m.session \in 0 .. created /\ m.session # NoSession /\ created \in 0 .. MaxSessions
        BY <1>0, <2>3 DEF Summarize, SessionsTyped, Fitting, AboutOne
      <4>. QED BY <4>1, TopicsAssumption DEF NoSession, Sessions
    <3>2. compacting /\ (UNCHANGED refused \/ refused' = compacting)
      BY <2>3 DEF Summarize, screen
    <3>3. summarizing' = [summarizing EXCEPT ![m.session] = @ + 1]
      BY <2>3, <3>2 DEF Summarize
    <3>4. summarizing'[m.session] > 0
      <4>1. summarizing \in [Sessions -> Nat]
        BY <1>0 DEF SessionsTyped
      <4>. QED BY <3>1, <3>3, <4>1
    <3>. QED BY <3>1, <3>4
  <2>4. CASE ~StartCompact(m) /\ ~Summarize(m)
    <3>1. /\ UNCHANGED <<compacting, refused, summarizing>>
          /\ \A n \in inFlight : n.kind = "summarize" => n \in inFlight'
      BY <2>4 DEF SessionSelected, SessionPicked, SessionCleared, Send, agentVars, screen, ghosts
    <3>. QED BY <1>0, <1>2, <2>1, <3>1 DEF OverlayInv
  <2>. QED BY <2>2, <2>3, <2>4
<1>8. CASE User
  <2>1. UNCHANGED <<compacting, refused, summarizing>> /\ inFlight \subseteq inFlight' /\ UNCHANGED eventVars
    BY <1>8 DEF User, Enter, NewSession, PickSession, Compact, Cancel, MoveToPage, agentVars, screen, ghosts
  <2>. QED BY <1>0, <1>2, <2>1 DEF OverlayInv
<1>. QED BY <1>3, <1>4, <1>5, <1>6, <1>7, <1>8 DEF Next

\* The overlay is up only as long as what takes it away is to come, for any
\* sessions, events and sizes.
THEOREM OverlayGoes == Spec => []OverlayEnds
<1>1. Init => OverlayInv
  BY DEF Init, OverlayInv
<1>2. ChatTyped /\ OverlayInv => OverlayEnds
  <2> SUFFICES ASSUME ChatTyped, OverlayInv PROVE OverlayEnds
    OBVIOUS
  <2>1. (\E x \in Way("agent") : x.event.kind \in {"error", "summary"}) => InTransit("agent") > 0
    BY WayEmpty, TopicsAssumption DEF ChatTyped, OrderInv
  <2>. QED BY <2>1 DEF OverlayInv, OverlayEnds, EndUnderWay
<1>. QED BY <1>1, <1>2, InitTyped, NextTyped, NextOverlay, PTL DEF Spec

---------------------------------------------------------------------------
(* Tui: the list of messages *)

Pending == {x.event : x \in Way("message")} \cup publishing["message"]

About(e, s, i) == e.session = s /\ e.index = i

\* What is announced of a message was stored of it ...
AnnouncedStored ==
  \A e \in Pending : e.index \in DOMAIN stored[e.session] /\ e.version <= stored[e.session][e.index]

\* ... what is being published is the last of it, after all that was offered, which
\* is in the order of its versions ...
InVersions ==
  /\ \A e \in publishing["message"] : e.version = stored[e.session][e.index]
  /\ \A x \in Way("message") : \A e \in publishing["message"] :
       About(e, x.event.session, x.event.index) => x.event.version < e.version
  /\ \A x, y \in Way("message") :
       About(y.event, x.event.session, x.event.index) /\ x.number < y.number =>
         x.event.version < y.event.version

\* ... and if anything of it is on the way then the last.
LastOnWay ==
  \A x \in Way("message") : \E e \in Pending :
    About(e, x.event.session, x.event.index) /\ e.version = stored[e.session][e.index]

\* The list has each message once, as it was or is, ...
ListSound ==
  /\ \A i, j \in DOMAIN list : list[i].index = list[j].index => i = j
  /\ \A i \in DOMAIN list :
       /\ list[i].index \in DOMAIN stored[shown]
       /\ list[i].version \in 1 .. stored[shown][list[i].index]

\* ... and but for what is on its way it has them all, as they are.
ListFollows ==
  /\ \A i \in DOMAIN stored[shown] :
       \/ \E k \in DOMAIN list : list[k].index = i
       \/ \E e \in Pending : About(e, shown, i) /\ e.version = 1
  /\ \A k \in DOMAIN list :
       \/ list[k].version = stored[shown][list[k].index]
       \/ \E e \in Pending : About(e, shown, list[k].index)

EventsInv == AnnouncedStored /\ InVersions /\ LastOnWay
ListInv   == shown # NoSession /\ ~unloaded => ListSound /\ ListFollows
ScreenInv == main # "running" \/ unseen \/ "message" \in dropped \/ (EventsInv /\ ListInv)

\* Of every message pending the session, index and version are known.
LEMMA PendingTyped ==
  ASSUME ChatTyped
  PROVE  /\ Pending \subseteq Messages /\ publishing["message"] \subseteq Pending
         /\ \A x \in Way("message") : x.event \in Pending /\ x.number \in Nat
         /\ \A e \in Pending : e.session \in Sessions /\ e.index \in Nat \ {0} /\ e.version \in Nat \ {0}
         /\ \A s \in Sessions : stored[s] \in Seq(Nat \ {0})
<1>1. Pending \subseteq Messages /\ publishing["message"] \subseteq Pending
      /\ \A x \in Way("message") : x.event \in Pending
  BY DEF Pending, ChatTyped, MessagesTyped
<1>2. \A x \in Way("message") : x.number \in Nat
  BY WayNumbered, TopicsAssumption DEF ChatTyped
<1>3. \A e \in Pending : e.session \in Sessions /\ e.index \in Nat \ {0} /\ e.version \in Nat \ {0}
  BY <1>1 DEF Messages
<1>. QED BY <1>1, <1>2, <1>3 DEF ChatTyped, SessionsTyped

\* Nothing is stored, offered or received.
LEMMA EventsQuiet ==
  ASSUME EventsInv, UNCHANGED stored, publishing'["message"] = publishing["message"],
         Way("message")' = Way("message")
  PROVE  EventsInv' /\ Pending' = Pending
<1>1. Pending' = Pending
  BY DEF Pending
<1>2. AnnouncedStored' /\ LastOnWay'
  BY <1>1 DEF EventsInv, AnnouncedStored, LastOnWay, About
<1>3. InVersions'
  BY DEF EventsInv, InVersions, About
<1>. QED BY <1>1, <1>2, <1>3 DEF EventsInv

\* Nothing that is shown, stored or pending changes: the list stays what it was.
LEMMA ListQuiet ==
  ASSUME ListInv, UNCHANGED <<shown, list, unloaded>>, shown # NoSession => stored'[shown] = stored[shown],
         Pending' = Pending
  PROVE  ListInv'
BY DEF ListInv, ListSound, ListFollows, About

\* A version of a message is stored, and its Publish begins.
LEMMA Stored ==
  ASSUME ChatTyped, EventsInv, ListInv, UNCHANGED <<shown, list, unloaded>>,
         NEW e \in Messages, publishing'["message"] = publishing["message"] \cup {e},
         Way("message")' = Way("message"),
         NEW f, stored' = [stored EXCEPT ![e.session] = f],
         \A i \in DOMAIN stored[e.session] : i \in DOMAIN f /\ (i # e.index => f[i] = stored[e.session][i]),
         \A i \in DOMAIN f : i \in DOMAIN stored[e.session] \/ i = e.index,
         e.index \in DOMAIN f, f[e.index] = e.version,
         IF e.index \in DOMAIN stored[e.session] THEN e.version = stored[e.session][e.index] + 1
         ELSE e.version = 1,
         \A d \in publishing["message"] : d.session = e.session => d.index # e.index
  PROVE  EventsInv' /\ ListInv'
<1>0. /\ e.session \in Sessions /\ e.index \in Nat \ {0} /\ e.version \in Nat \ {0}
      /\ stored \in [Sessions -> Seq(Nat \ {0})]
      /\ shown # NoSession => shown \in Sessions
  <2>1. shown \in 0 .. created /\ created \in 0 .. MaxSessions
    BY DEF ChatTyped, SessionsTyped
  <2>2. shown # NoSession => shown \in Sessions
    BY <2>1, TopicsAssumption DEF NoSession, Sessions
  <2>. QED BY <2>2 DEF ChatTyped, SessionsTyped, Messages
<1>1. stored'[e.session] = f /\ \A s \in Sessions \ {e.session} : stored'[s] = stored[s]
  BY <1>0
<1>2. Pending' = Pending \cup {e} /\ e \in Pending'
  BY DEF Pending
<1>3. \A s \in Sessions : \A i \in DOMAIN stored[s] :
        /\ i \in DOMAIN stored'[s] /\ stored[s][i] \in Nat \ {0} /\ stored'[s][i] \in Nat
        /\ stored[s][i] <= stored'[s][i]
        /\ s # e.session \/ i # e.index => stored'[s][i] = stored[s][i]
        /\ s = e.session /\ i = e.index => stored[s][i] < e.version
  <2> SUFFICES ASSUME NEW s \in Sessions, NEW i \in DOMAIN stored[s]
               PROVE  /\ i \in DOMAIN stored'[s] /\ stored[s][i] \in Nat \ {0} /\ stored'[s][i] \in Nat
                      /\ stored[s][i] <= stored'[s][i]
                      /\ s # e.session \/ i # e.index => stored'[s][i] = stored[s][i]
                      /\ s = e.session /\ i = e.index => stored[s][i] < e.version
    OBVIOUS
  <2>1. stored[s][i] \in Nat \ {0}
    <3>1. stored[s] \in Seq(Nat \ {0})
      BY <1>0
    <3>. QED BY <3>1
  <2>2. CASE s # e.session
    BY <1>1, <2>1, <2>2
  <2>3. CASE s = e.session /\ i # e.index
    BY <1>1, <2>1, <2>3
  <2>4. CASE s = e.session /\ i = e.index
    BY <1>0, <1>1, <2>1, <2>4
  <2>. QED BY <2>2, <2>3, <2>4
<1>4. AnnouncedStored'
  <2>1. e.index \in DOMAIN stored'[e.session] /\ e.version <= stored'[e.session][e.index]
    BY <1>0, <1>1
  <2>2. ASSUME NEW d \in Pending
        PROVE  d.index \in DOMAIN stored'[d.session] /\ d.version <= stored'[d.session][d.index]
    <3>1. d.index \in DOMAIN stored[d.session] /\ d.version <= stored[d.session][d.index]
      BY DEF EventsInv, AnnouncedStored
    <3>2. d.session \in Sessions /\ d.version \in Nat
      BY PendingTyped
    <3>. QED BY <1>3, <3>1, <3>2
  <2>. QED BY <1>2, <2>1, <2>2 DEF AnnouncedStored
<1>5. InVersions'
  <2>1. ASSUME NEW d \in publishing'["message"] PROVE d.version = stored'[d.session][d.index]
    <3>1. CASE d = e
      BY <1>1, <3>1
    <3>2. CASE d \in publishing["message"]
      <4>1. /\ d.session \in Sessions /\ d.version = stored[d.session][d.index]
            /\ d.index \in DOMAIN stored[d.session]
        BY <3>2, PendingTyped DEF EventsInv, InVersions, AnnouncedStored
      <4>. QED BY <1>3, <3>2, <4>1
    <3>. QED BY <3>1, <3>2
  <2>2. ASSUME NEW x \in Way("message"), About(e, x.event.session, x.event.index)
        PROVE  x.event.version < e.version
    <3>1. /\ x.event.index \in DOMAIN stored[x.event.session] /\ x.event.session \in Sessions
          /\ x.event.version <= stored[x.event.session][x.event.index] /\ x.event.version \in Nat
      BY PendingTyped DEF EventsInv, AnnouncedStored
    <3>2. stored[x.event.session][x.event.index] < e.version
      BY <1>3, <2>2, <3>1 DEF About
    <3>3. stored[x.event.session][x.event.index] \in Nat
      BY <1>3, <3>1
    <3>4. \A a, b, c \in Nat : a <= b /\ b < c => a < c
      OBVIOUS
    <3>. QED BY <1>0, <3>1, <3>2, <3>3, <3>4
  <2>. QED BY <2>1, <2>2 DEF EventsInv, InVersions, About
<1>6. LastOnWay'
  <2> SUFFICES ASSUME NEW x \in Way("message")
               PROVE  \E d \in Pending' :
                        About(d, x.event.session, x.event.index) /\ d.version = stored'[d.session][d.index]
    BY DEF LastOnWay, About
  <2>1. CASE About(e, x.event.session, x.event.index)
    BY <1>1, <1>2, <2>1
  <2>2. CASE ~About(e, x.event.session, x.event.index)
    <3>1. PICK d \in Pending : About(d, x.event.session, x.event.index) /\ d.version = stored[d.session][d.index]
      BY DEF EventsInv, LastOnWay
    <3>2. /\ d.session \in Sessions /\ d.index \in DOMAIN stored[d.session]
          /\ d.session # e.session \/ d.index # e.index
      BY <2>2, <3>1, PendingTyped DEF About, EventsInv, AnnouncedStored
    <3>. QED BY <1>2, <1>3, <3>1, <3>2
  <2>. QED BY <2>1, <2>2
<1>7. ASSUME shown # NoSession, ~unloaded PROVE ListSound' /\ ListFollows'
  <2>0. shown \in Sessions /\ ListSound /\ ListFollows
    BY <1>0, <1>7 DEF ListInv
  <2>1. ListSound'
    <3>1. ASSUME NEW i \in DOMAIN list
          PROVE  list[i].index \in DOMAIN stored'[shown] /\ list[i].version \in 1 .. stored'[shown][list[i].index]
      <4>1. list[i].index \in DOMAIN stored[shown] /\ list[i].version \in 1 .. stored[shown][list[i].index]
        BY <2>0 DEF ListSound
      <4>. QED BY <1>3, <2>0, <4>1
    <3>. QED BY <2>0, <3>1 DEF ListSound
  <2>2. ASSUME NEW i \in DOMAIN stored'[shown], \A k \in DOMAIN list : list[k].index # i
        PROVE  \E d \in Pending' : About(d, shown, i) /\ d.version = 1
    <3>1. CASE i \in DOMAIN stored[shown]
      BY <1>2, <2>0, <2>2, <3>1 DEF ListFollows
    <3>2. CASE i \notin DOMAIN stored[shown]
      <4>1. shown = e.session /\ i = e.index /\ e.version = 1
        BY <1>1, <2>0, <3>2
      <4>. QED BY <1>2, <4>1 DEF About
    <3>. QED BY <3>1, <3>2
  <2>3. ASSUME NEW k \in DOMAIN list, list[k].version # stored'[shown][list[k].index]
        PROVE  \E d \in Pending' : About(d, shown, list[k].index)
    <3>1. list[k].index \in DOMAIN stored[shown]
      BY <2>0 DEF ListSound
    <3>2. CASE shown = e.session /\ list[k].index = e.index
      BY <1>2, <3>2 DEF About
    <3>3. CASE ~(shown = e.session /\ list[k].index = e.index)
      <4>1. list[k].version # stored[shown][list[k].index]
        BY <1>3, <2>0, <2>3, <3>1, <3>3
      <4>. QED BY <1>2, <2>0, <4>1 DEF ListFollows
    <3>. QED BY <3>2, <3>3
  <2>4. ListFollows'
    BY <2>2, <2>3 DEF ListFollows, About
  <2>. QED BY <2>1, <2>4
<1>. QED BY <1>4, <1>5, <1>6, <1>7 DEF EventsInv, ListInv

\* What is being published is offered.
LEMMA OfferedEvents ==
  ASSUME ChatTyped, EventsInv, UNCHANGED stored, NEW e \in publishing["message"],
         publishing'["message"] = publishing["message"] \ {e},
         Way("message")' = Way("message") \cup {[number |-> offered["message"] + 1, event |-> e]}
  PROVE  EventsInv' /\ Pending' = Pending
<1> DEFINE new == [number |-> offered["message"] + 1, event |-> e]
<1>0. new.event = e /\ new.number = offered["message"] + 1 /\ e \in Pending
  BY DEF Pending
<1>1. Pending' = Pending
  BY <1>0 DEF Pending
<1>2. /\ \A x \in Way("message") : x.number \in Nat /\ x.number <= offered["message"]
      /\ offered["message"] \in Nat
  <2>1. offered["message"] \in Nat
    BY TopicsAssumption DEF ChatTyped, OrderInv, EventsTypeOK
  <2>. QED BY <2>1, WayNumbered, TopicsAssumption DEF ChatTyped
<1> HIDE DEF new
<1>3. AnnouncedStored'
  BY <1>1 DEF EventsInv, AnnouncedStored
<1>4. ASSUME NEW d \in publishing["message"], About(d, e.session, e.index) PROVE d = e
  <2>1. d.version = stored[d.session][d.index] /\ e.version = stored[e.session][e.index]
    BY DEF EventsInv, InVersions
  <2>2. d \in Messages /\ e \in Messages
    BY PendingTyped
  <2>. QED BY <1>4, <2>1, <2>2 DEF Messages, About
<1>5. InVersions'
  <2>1. \A d \in publishing'["message"] : d.version = stored'[d.session][d.index]
    BY DEF EventsInv, InVersions
  <2>2. ASSUME NEW x \in Way("message")', NEW d \in publishing'["message"],
               About(d, x.event.session, x.event.index)
        PROVE  x.event.version < d.version
    <3>1. CASE x \in Way("message")
      BY <2>2, <3>1 DEF EventsInv, InVersions
    <3>2. CASE x = new
      BY <1>0, <1>4, <2>2, <3>2
    <3>. QED BY <3>1, <3>2 DEF new
  <2>3. ASSUME NEW x \in Way("message")', NEW y \in Way("message")',
               About(y.event, x.event.session, x.event.index), x.number < y.number
        PROVE  x.event.version < y.event.version
    <3>1. CASE x \in Way("message") /\ y \in Way("message")
      BY <2>3, <3>1 DEF EventsInv, InVersions
    <3>2. CASE x \in Way("message") /\ y = new
      BY <1>0, <2>3, <3>2 DEF EventsInv, InVersions
    <3>3. CASE x = new
      <4>1. y.number \in Nat /\ y.number <= offered["message"] + 1
        BY <1>0, <1>2 DEF new
      <4>. QED BY <1>0, <1>2, <2>3, <3>3, <4>1
    <3>. QED BY <3>1, <3>2, <3>3 DEF new
  <2>. QED BY <2>1, <2>2, <2>3 DEF InVersions, About
<1>6. LastOnWay'
  <2> SUFFICES ASSUME NEW x \in Way("message")'
               PROVE  \E d \in Pending :
                        About(d, x.event.session, x.event.index) /\ d.version = stored[d.session][d.index]
    BY <1>1 DEF LastOnWay, About
  <2>1. CASE x \in Way("message")
    BY <2>1 DEF EventsInv, LastOnWay
  <2>2. CASE x = new
    BY <1>0, <2>2 DEF EventsInv, InVersions, About
  <2>. QED BY <2>1, <2>2 DEF new
<1>. QED BY <1>1, <1>3, <1>5, <1>6 DEF EventsInv

\* The oldest event of a message comes in: the last is still to come, or it was this.
LEMMA ReceivedEvents ==
  ASSUME ChatTyped, EventsInv, UNCHANGED stored, publishing'["message"] = publishing["message"],
         NEW x \in Way("message"), Way("message") = Way("message")' \cup {x},
         \A y \in Way("message")' : x.number < y.number
  PROVE  /\ EventsInv' /\ Pending = Pending' \cup {x.event}
         /\ \A d \in Pending' : About(d, x.event.session, x.event.index) => x.event.version < d.version
         /\ \/ x.event.version = stored[x.event.session][x.event.index]
            \/ \E d \in Pending' : About(d, x.event.session, x.event.index)
<1>1. Pending = Pending' \cup {x.event}
  BY DEF Pending
<1>2. \A d \in Pending' : About(d, x.event.session, x.event.index) => x.event.version < d.version
  <2> SUFFICES ASSUME NEW d \in Pending', About(d, x.event.session, x.event.index)
               PROVE  x.event.version < d.version
    OBVIOUS
  <2>1. CASE d \in publishing["message"]
    BY <2>1 DEF EventsInv, InVersions
  <2>2. CASE \E y \in Way("message")' : d = y.event
    BY <2>2 DEF EventsInv, InVersions
  <2>. QED BY <2>1, <2>2 DEF Pending
<1>3. AnnouncedStored'
  BY <1>1 DEF EventsInv, AnnouncedStored
<1>4. InVersions'
  BY DEF EventsInv, InVersions, About
<1>5. LastOnWay'
  <2> SUFFICES ASSUME NEW y \in Way("message")'
               PROVE  \E d \in Pending' :
                        About(d, y.event.session, y.event.index) /\ d.version = stored[d.session][d.index]
    BY DEF LastOnWay, About
  <2>1. PICK d \in Pending :
          About(d, y.event.session, y.event.index) /\ d.version = stored[d.session][d.index]
    BY DEF EventsInv, LastOnWay
  <2>2. CASE d \in Pending'
    BY <2>1, <2>2
  <2>3. CASE d = x.event
    <3>1. y.event \in Pending' /\ About(y.event, x.event.session, x.event.index)
      BY <2>1, <2>3 DEF Pending, About
    <3>2. x.event.version < y.event.version
      BY <1>2, <3>1
    <3>3. y.event.version <= stored[x.event.session][x.event.index]
      BY <1>1, <3>1 DEF EventsInv, AnnouncedStored, About
    <3>4. x.event.version = stored[x.event.session][x.event.index]
      BY <2>1, <2>3 DEF About
    <3>5. x.event.version \in Nat /\ y.event.version \in Nat
      BY <1>1, <3>1, PendingTyped
    <3>. QED BY <3>2, <3>3, <3>4, <3>5
  <2>. QED BY <1>1, <2>1, <2>2, <2>3
<1>6. \/ x.event.version = stored[x.event.session][x.event.index]
      \/ \E d \in Pending' : About(d, x.event.session, x.event.index)
  <2>1. PICK d \in Pending :
          About(d, x.event.session, x.event.index) /\ d.version = stored[d.session][d.index]
    BY DEF EventsInv, LastOnWay
  <2>. QED BY <1>1, <2>1 DEF About
<1>. QED BY <1>1, <1>2, <1>3, <1>4, <1>5, <1>6 DEF EventsInv

\* And the list makes of it what keeps it following.
LEMMA ReceivedList ==
  ASSUME ChatTyped, EventsInv, ListInv, UNCHANGED <<shown, stored, unloaded>>,
         NEW e \in Messages, Pending = Pending' \cup {e}, list' = Listed(e),
         \A d \in Pending' : About(d, e.session, e.index) => e.version < d.version,
         \/ e.version = stored[e.session][e.index]
         \/ \E d \in Pending' : About(d, e.session, e.index)
  PROVE  ListInv'
<1> SUFFICES ASSUME shown # NoSession, ~unloaded PROVE ListSound' /\ ListFollows'
  BY DEF ListInv
<1> DEFINE m  == [index |-> e.index, version |-> e.version]
           at == {i \in DOMAIN list : list[i].index = e.index}
<1>0. /\ ListSound /\ ListFollows /\ list \in Seq(Listings) /\ shown \in Sessions
      /\ e.session \in Sessions /\ e.index \in Nat \ {0} /\ e.version \in Nat \ {0}
      /\ e \in Pending /\ e.index \in DOMAIN stored[e.session]
      /\ e.version <= stored[e.session][e.index]
  <2>1. shown \in Sessions
    <3>1. shown \in 0 .. created /\ created \in 0 .. MaxSessions
      BY DEF ChatTyped, SessionsTyped
    <3>. QED BY <3>1, TopicsAssumption DEF NoSession, Sessions
  <2>2. e \in Pending
    OBVIOUS
  <2>. QED BY <2>1, <2>2 DEF ChatTyped, MessagesTyped, ListInv, Messages, EventsInv, AnnouncedStored
<1>1. stored[shown] \in Seq(Nat \ {0}) /\ \A i \in DOMAIN stored[shown] : stored[shown][i] \in Nat \ {0}
  <2>1. stored[shown] \in Seq(Nat \ {0})
    BY <1>0 DEF ChatTyped, SessionsTyped
  <2>. QED BY <2>1
<1>2. CASE e.session # shown
  <2>1. list' = list
    BY <1>2 DEF Listed
  <2>2. \A i : \A d \in Pending : About(d, shown, i) => d \in Pending'
    BY <1>2 DEF About
  <2>. QED BY <1>0, <2>1, <2>2 DEF ListSound, ListFollows, About
<1>3. CASE e.session = shown /\ at = {} /\ e.version = 1
  <2>1. list' = Append(list, m)
    BY <1>3 DEF Listed
  <2>2. /\ Len(list) \in Nat /\ DOMAIN list = 1 .. Len(list) /\ DOMAIN list' = 1 .. Len(list) + 1
        /\ list'[Len(list) + 1] = m /\ \A i \in 1 .. Len(list) : list'[i] = list[i]
    BY <1>0, <2>1
  <2>3. ASSUME NEW i \in DOMAIN list' PROVE (i \in DOMAIN list /\ list'[i] = list[i] /\ list[i].index # e.index)
                                            \/ (i = Len(list) + 1 /\ list'[i] = m)
    <3>1. i \in 1 .. Len(list) \/ i = Len(list) + 1
      BY <2>2
    <3>. QED BY <1>3, <2>2, <3>1
  <2>4. ListSound'
    <3>1. \A i, j \in DOMAIN list' : list'[i].index = list'[j].index => i = j
      BY <1>0, <2>3 DEF ListSound
    <3>2. m.index \in DOMAIN stored[shown] /\ m.version \in 1 .. stored[shown][m.index]
      BY <1>0, <1>1, <1>3
    <3>3. \A i \in DOMAIN list' : list'[i].index \in DOMAIN stored[shown]
                                 /\ list'[i].version \in 1 .. stored[shown][list'[i].index]
      BY <1>0, <2>3, <3>2 DEF ListSound
    <3>. QED BY <3>1, <3>3 DEF ListSound
  <2>5. Len(list) + 1 \in DOMAIN list' /\ \A i \in DOMAIN list : i \in DOMAIN list'
    BY <2>2
  <2>6. \A i \in DOMAIN stored[shown] : \/ \E k \in DOMAIN list' : list'[k].index = i
                                       \/ \E d \in Pending' : About(d, shown, i) /\ d.version = 1
    <3> TAKE i \in DOMAIN stored[shown]
    <3>1. CASE i = e.index
      BY <2>2, <2>5, <3>1
    <3>2. CASE i # e.index /\ \E k \in DOMAIN list : list[k].index = i
      BY <2>2, <2>5, <3>2
    <3>3. CASE i # e.index /\ \E d \in Pending : About(d, shown, i) /\ d.version = 1
      BY <3>3 DEF About
    <3>. QED BY <1>0, <3>1, <3>2, <3>3 DEF ListFollows
  <2>7. \A k \in DOMAIN list' : \/ list'[k].version = stored[shown][list'[k].index]
                               \/ \E d \in Pending' : About(d, shown, list'[k].index)
    <3> TAKE k \in DOMAIN list'
    <3>1. CASE k = Len(list) + 1 /\ list'[k] = m
      BY <1>3, <3>1
    <3>2. CASE k \in DOMAIN list /\ list'[k] = list[k] /\ list[k].index # e.index
      BY <1>0, <3>2 DEF ListFollows, About
    <3>. QED BY <2>3, <3>1, <3>2
  <2>. QED BY <2>4, <2>6, <2>7 DEF ListFollows, About
<1>4. CASE e.session = shown /\ at # {} /\ e.version > 1
  <2>1. list' = [i \in DOMAIN list |-> IF i \in at THEN m ELSE list[i]]
    BY <1>3, <1>4 DEF Listed
  <2>2. /\ DOMAIN list' = DOMAIN list /\ \A i \in DOMAIN list : list'[i].index = list[i].index
        /\ \A i \in DOMAIN list : i \in at => list'[i].version = e.version
        /\ \A i \in DOMAIN list : i \notin at => list'[i] = list[i]
    BY <2>1
  <2>3. ListSound'
    <3>1. \A i \in at : list'[i].version \in 1 .. stored[shown][list'[i].index]
      BY <1>0, <1>1, <1>4, <2>2
    <3>. QED BY <1>0, <2>2, <3>1 DEF ListSound
  <2>4. ListFollows'
    <3>1. ASSUME NEW i \in DOMAIN stored[shown]
          PROVE  \/ \E k \in DOMAIN list' : list'[k].index = i
                 \/ \E d \in Pending' : About(d, shown, i) /\ d.version = 1
      <4>1. CASE \E k \in DOMAIN list : list[k].index = i
        BY <2>2, <4>1
      <4>2. CASE \E d \in Pending : About(d, shown, i) /\ d.version = 1
        BY <1>0, <1>4, <4>2
      <4>. QED BY <1>0, <4>1, <4>2 DEF ListFollows
    <3>2. ASSUME NEW k \in DOMAIN list'
          PROVE  \/ list'[k].version = stored[shown][list'[k].index]
                 \/ \E d \in Pending' : About(d, shown, list'[k].index)
      <4>1. CASE k \in at
        BY <1>4, <2>2, <4>1
      <4>2. CASE k \notin at
        BY <1>0, <2>2, <4>2 DEF ListFollows, About
      <4>. QED BY <4>1, <4>2
    <3>. QED BY <3>1, <3>2 DEF ListFollows, About
  <2>. QED BY <2>3, <2>4
<1>5. CASE e.session = shown /\ at # {} /\ ~(e.version > 1)
  <2>1. list' = list /\ e.version = 1
    BY <1>0, <1>5 DEF Listed
  <2>2. ListFollows'
    <3>1. \A i \in DOMAIN stored[shown] : \/ \E k \in DOMAIN list : list[k].index = i
                                         \/ \E d \in Pending' : About(d, shown, i) /\ d.version = 1
      <4> TAKE i \in DOMAIN stored[shown]
      <4>1. CASE i = e.index
        BY <1>5, <4>1
      <4>2. CASE i # e.index
        BY <1>0, <4>2 DEF ListFollows, About
      <4>. QED BY <4>1, <4>2
    <3>2. \A k \in DOMAIN list : \/ list[k].version = stored[shown][list[k].index]
                                \/ \E d \in Pending' : About(d, shown, list[k].index)
      <4> TAKE k \in DOMAIN list
      <4>1. CASE list[k].index # e.index
        BY <1>0, <4>1 DEF ListFollows, About
      <4>2. CASE list[k].index = e.index
        <5>1. CASE \E d \in Pending' : About(d, e.session, e.index)
          BY <1>5, <4>2, <5>1
        <5>2. CASE 1 = stored[shown][e.index]
          <6>1. list[k].version \in 1 .. stored[shown][e.index]
            BY <1>0, <4>2 DEF ListSound
          <6>. QED BY <4>2, <5>2, <6>1
        <5>. QED BY <1>5, <2>1, <5>1, <5>2
      <4>. QED BY <4>1, <4>2
    <3>. QED BY <2>1, <3>1, <3>2 DEF ListFollows, About
  <2>. QED BY <1>0, <2>1, <2>2 DEF ListSound
<1>6. CASE e.session = shown /\ at = {} /\ e.version # 1
  <2>1. PICK d \in Pending : About(d, shown, e.index) /\ d.version = 1
    BY <1>0, <1>6 DEF ListFollows
  <2>2. d # e
    BY <1>6, <2>1
  <2>3. e.version < d.version
    BY <1>6, <2>1, <2>2
  <2>. QED BY <1>0, <2>1, <2>3
<1>. QED BY <1>2, <1>3, <1>4, <1>5, <1>6

\* A session is selected: its list is loaded, unless it is shown.
LEMMA LoadedList ==
  ASSUME ChatTyped, ListInv, UNCHANGED stored, Pending' = Pending, NEW s \in Sessions, shown' = s,
         \/ s = shown /\ UNCHANGED <<list, unloaded>>
         \/ s # shown /\ list' = [i \in DOMAIN stored[s] |-> [index |-> i, version |-> stored[s][i]]]
         \/ s # shown /\ unloaded' = TRUE
  PROVE  ListInv'
<1>1. CASE s = shown
  <2>1. shown # NoSession
    BY <1>1 DEF Sessions, NoSession
  <2>. QED BY <1>1, <2>1, ListQuiet
<1>3. CASE unloaded' = TRUE
  BY <1>3 DEF ListInv
<1>2. CASE s # shown /\ list' = [i \in DOMAIN stored[s] |-> [index |-> i, version |-> stored[s][i]]]
  <2>1. stored[s] \in Seq(Nat \ {0})
    BY DEF ChatTyped, SessionsTyped
  <2>2. \A i \in DOMAIN stored[s] : stored[s][i] \in 1 .. stored[s][i]
    BY <2>1
  <2>3. DOMAIN list' = DOMAIN stored[s] /\ \A i \in DOMAIN stored[s] :
          list'[i].index = i /\ list'[i].version = stored[s][i]
    BY <1>2
  <2>4. stored' = stored /\ shown' = s
    OBVIOUS
  <2>5. ASSUME NEW i \in DOMAIN list', NEW j \in DOMAIN list', list'[i].index = list'[j].index
        PROVE  i = j
    <3>1. list'[i].index = i
      BY <2>3, Zenon
    <3>2. list'[j].index = j
      BY <2>3, Zenon
    <3>. QED BY <2>5, <3>1, <3>2
  <2>6. ASSUME NEW i \in DOMAIN list'
        PROVE  /\ list'[i].index \in DOMAIN stored'[shown']
               /\ list'[i].version = stored'[shown'][list'[i].index]
               /\ list'[i].version \in 1 .. stored'[shown'][list'[i].index]
    <3>1. i \in DOMAIN stored[s] /\ list'[i].index = i /\ list'[i].version = stored[s][i]
      BY <2>3, Zenon
    <3>2. stored[s][i] \in 1 .. stored[s][i]
      BY <2>2, <3>1, Zenon
    <3>. QED BY <2>4, <3>1, <3>2, Zenon
  <2>7. ASSUME NEW i \in DOMAIN stored'[shown'] PROVE \E k \in DOMAIN list' : list'[k].index = i
    <3>1. i \in DOMAIN stored[s]
      BY <2>4, Zenon
    <3>. QED BY <2>3, <3>1, Zenon
  <2>. QED BY <2>4, <2>5, <2>6, <2>7, Zenon DEF ListInv, ListSound, ListFollows
<1>. QED BY <1>1, <1>2, <1>3

\* The screen follows what is stored.
LEMMA NextScreen == ChatTyped /\ ScreenInv /\ [Next]_vars => ScreenInv'
<1> SUFFICES ASSUME ChatTyped, ScreenInv, [Next]_vars,
                    main' = "running", ~unseen', "message" \notin dropped'
             PROVE  EventsInv' /\ ListInv'
  BY DEF ScreenInv
<1>1. UNCHANGED unseen \/ unseen' = TRUE
  BY DEF Next, vars, ghosts, Agent, CreateMessage, UpdateMessage, RunEnds, SummaryEnds, Receive,
     MessageEvent, AgentEvent,
     Command, SessionSelected, SessionPicked, SessionCleared, Send, StartCompact, Summarize,
     User, Enter, NewSession, PickSession, Compact, Cancel, MoveToPage, Transmit
<1>2. /\ OrderInv /\ main = "running" /\ "message" \in Topics /\ "agent" \in Topics
      /\ EventsInv /\ ListInv
  BY <1>1, StaysOver, DroppedStays, TopicsAssumption DEF ChatTyped, ScreenInv
<1>3. ASSUME UNCHANGED <<stored, shown, list, unloaded>>, publishing'["message"] = publishing["message"],
             Way("message")' = Way("message")
      PROVE  EventsInv' /\ ListInv'
  BY <1>2, <1>3, EventsQuiet, ListQuiet
<1>4. ASSUME UNCHANGED eventVars
      PROVE  publishing'["message"] = publishing["message"] /\ Way("message")' = Way("message")
  BY <1>4, WayUntouched DEF eventVars
<1>5. CASE UNCHANGED vars
  BY <1>3, <1>4, <1>5 DEF vars, agentVars, screen
<1>6. CASE Agent
  <2> PICK s \in Sessions : CreateMessage(s) \/ UpdateMessage(s) \/ RunEnds(s) \/ SummaryEnds(s)
    BY <1>6 DEF Agent
  <2>0. UNCHANGED <<shown, list, unloaded>> /\ stored[s] \in Seq(Nat \ {0})
    BY DEF CreateMessage, UpdateMessage, RunEnds, SummaryEnds, screen, ChatTyped, SessionsTyped
  <2>1. CASE RunEnds(s) \/ SummaryEnds(s)
    <3>1. UNCHANGED stored /\ \E e : Publish("agent", e)
      BY <2>1 DEF RunEnds, SummaryEnds
    <3>. QED BY <1>2, <1>3, <2>0, <3>1, Published
  <2>2. CASE CreateMessage(s)
    <3> DEFINE e == [session |-> s, index |-> Len(stored[s]) + 1, version |-> 1]
               f == Append(stored[s], 1)
    <3>1. Publish("message", e) /\ stored' = [stored EXCEPT ![s] = f]
      BY <2>2 DEF CreateMessage
    <3>2. publishing'["message"] = publishing["message"] \cup {e} /\ Way("message")' = Way("message")
      BY <1>2, <3>1, Published
    <3>3. /\ e \in Messages /\ e.session = s /\ e.index = Len(stored[s]) + 1 /\ e.version = 1
          /\ e.index \notin DOMAIN stored[s]
      BY <2>0 DEF Messages
    <3>4. /\ \A i \in DOMAIN stored[s] : i \in DOMAIN f /\ f[i] = stored[s][i]
          /\ \A i \in DOMAIN f : i \in DOMAIN stored[s] \/ i = e.index
          /\ e.index \in DOMAIN f /\ f[e.index] = 1
      BY <2>0
    <3>5. \A d \in publishing["message"] : d.session = s => d.index # e.index
      BY <1>2, <3>3, PendingTyped DEF EventsInv, AnnouncedStored
    <3> HIDE DEF e, f
    <3>6. stored' = [stored EXCEPT ![e.session] = f]
      BY <3>1, <3>3
    <3>7. /\ \A i \in DOMAIN stored[e.session] :
                i \in DOMAIN f /\ (i # e.index => f[i] = stored[e.session][i])
          /\ \A i \in DOMAIN f : i \in DOMAIN stored[e.session] \/ i = e.index
          /\ e.index \in DOMAIN f /\ f[e.index] = e.version
      BY <3>3, <3>4
    <3>8. \A d \in publishing["message"] : d.session = e.session => d.index # e.index
      BY <3>3, <3>5
    <3>9. IF e.index \in DOMAIN stored[e.session] THEN e.version = stored[e.session][e.index] + 1
          ELSE e.version = 1
      BY <3>3
    <3>. QED BY <1>2, <2>0, <3>2, <3>3, <3>6, <3>7, <3>8, <3>9, Stored
  <2>3. CASE UpdateMessage(s)
    <3> DEFINE last == Len(stored[s])
               e == [session |-> s, index |-> last, version |-> stored[s][last] + 1]
               f == [stored[s] EXCEPT ![last] = stored[s][last] + 1]
    <3>1. /\ Publish("message", e) /\ stored' = [stored EXCEPT ![s] = f] /\ stored[s] # <<>>
          /\ \A d \in publishing["message"] : d.session = s => d.index # last
      BY <2>3 DEF UpdateMessage
    <3>2. publishing'["message"] = publishing["message"] \cup {e} /\ Way("message")' = Way("message")
      BY <1>2, <3>1, Published
    <3>3. last \in DOMAIN stored[s] /\ last \in Nat \ {0} /\ stored[s][last] \in Nat
      BY <2>0, <3>1
    <3>4. e \in Messages /\ e.session = s /\ e.index = last /\ e.version = stored[s][last] + 1
      BY <3>3 DEF Messages
    <3>5. /\ \A i \in DOMAIN stored[s] : i \in DOMAIN f /\ (i # last => f[i] = stored[s][i])
          /\ \A i \in DOMAIN f : i \in DOMAIN stored[s]
          /\ last \in DOMAIN f /\ f[last] = stored[s][last] + 1
      BY <2>0, <3>3
    <3> HIDE DEF e, f, last
    <3>. QED BY <1>2, <2>0, <3>1, <3>2, <3>3, <3>4, <3>5, Stored
  <2>. QED BY <2>1, <2>2, <2>3
<1>7. CASE Transmit
  <2>1. UNCHANGED <<stored, shown, list, unloaded>>
    BY <1>7 DEF Transmit, agentVars, screen
  <2>2. CASE \E e \in publishing["message"] :
               /\ publishing'["message"] = publishing["message"] \ {e}
               /\ Way("message")' = Way("message") \cup {[number |-> offered["message"] + 1, event |-> e]}
    BY <1>2, <2>1, <2>2, OfferedEvents, ListQuiet
  <2>. QED BY <1>2, <1>3, <1>7, <2>1, <2>2, Transmitted
<1>8. CASE Receive
  <2>1. Deliver /\ UNCHANGED <<publishing, stored, shown, unloaded>>
    BY <1>8 DEF Receive, Deliver, agentVars
  <2>2. PICK t : t = Head(output).topic
    OBVIOUS
  <2>3. PICK x : x = Content(Head(output))
    OBVIOUS
  <2>4. CASE t # "message"
    <3>1. UNCHANGED list
      BY <1>8, <2>2, <2>4 DEF Receive, AgentEvent
    <3>2. Way("message")' = Way("message")
      BY <1>2, <2>1, <2>2, <2>3, <2>4, WayDelivered
    <3>. QED BY <1>3, <2>1, <3>1, <3>2
  <2>5. CASE t = "message"
    <3>1. /\ x \in Way("message") /\ Way("message") = Way("message")' \cup {x}
          /\ \A y \in Way("message")' : x.number < y.number
      BY <1>2, <2>1, <2>2, <2>3, <2>5, WayDelivered
    <3>2. x.event = Head(output).event /\ x.event \in Messages
      BY <2>3, <3>1 DEF Content, ChatTyped, MessagesTyped
    <3>3. list' = Listed(x.event)
      BY <1>2, <1>8, <2>2, <2>5, <3>2 DEF Receive, MessageEvent
    <3>4. /\ EventsInv' /\ Pending = Pending' \cup {x.event}
          /\ \A d \in Pending' : About(d, x.event.session, x.event.index) => x.event.version < d.version
          /\ \/ x.event.version = stored[x.event.session][x.event.index]
             \/ \E d \in Pending' : About(d, x.event.session, x.event.index)
      BY <1>2, <2>1, <3>1, ReceivedEvents
    <3>. QED BY <1>2, <2>1, <3>2, <3>3, <3>4, ReceivedList
  <2>. QED BY <2>4, <2>5
<1>9. CASE Command
  <2> PICK m \in inFlight : \/ SessionSelected(m) \/ SessionPicked(m) \/ SessionCleared(m)
                            \/ Send(m) \/ StartCompact(m) \/ Summarize(m)
    BY <1>9 DEF Command
  <2>1. UNCHANGED eventVars /\ UNCHANGED stored
    BY DEF SessionSelected, SessionPicked, SessionCleared, Send, StartCompact, Summarize, agentVars
  <2>2. EventsInv' /\ Pending' = Pending
    BY <1>2, <1>4, <2>1, EventsQuiet
  <2>3. CASE UNCHANGED <<shown, list, unloaded>>
    BY <1>2, <2>1, <2>2, <2>3, ListQuiet
  <2>4. CASE SessionSelected(m) /\ page = "chat"
    <3>1. m.session \in Sessions
      <4>1. m.session \in 0 .. created /\ m.session # NoSession /\ created \in 0 .. MaxSessions
        BY <2>4 DEF SessionSelected, ChatTyped, SessionsTyped, Fitting, AboutOne
      <4>. QED BY <4>1, TopicsAssumption DEF NoSession, Sessions
    <3>2. /\ shown' = m.session
          /\ \/ m.session = shown /\ UNCHANGED <<list, unloaded>>
             \/ m.session # shown /\ list' = [i \in DOMAIN stored[m.session] |->
                                               [index |-> i, version |-> stored[m.session][i]]]
             \/ m.session # shown /\ unloaded' = TRUE
      BY <2>4 DEF SessionSelected
    <3>. QED BY <1>2, <2>1, <2>2, <3>1, <3>2, LoadedList
  <2>5. CASE SessionCleared(m) /\ page = "chat"
    BY <2>2, <2>5 DEF SessionCleared, ListInv
  <2>. QED BY <2>3, <2>4, <2>5 DEF SessionSelected, SessionPicked, SessionCleared, Send, StartCompact, Summarize, screen
<1>10. CASE User
  <2>1. UNCHANGED eventVars /\ UNCHANGED <<stored, shown, list, unloaded>>
    BY <1>10 DEF User, Enter, NewSession, PickSession, Compact, Cancel, MoveToPage, agentVars, screen
  <2>. QED BY <1>3, <1>4, <2>1
<1>. QED BY <1>5, <1>6, <1>7, <1>8, <1>9, <1>10 DEF Next

\* Once all message events have come in, the list shows the session as it is
\* stored, whenever it was opened or left, for any sessions, events and sizes; but
\* for events that were lost and a session whose messages could not be loaded.
THEOREM ScreenShowsStored == Spec => []ScreenIsStored
<1>1. Init => ScreenInv
  <2> SUFFICES ASSUME Init PROVE EventsInv /\ ListInv
    BY DEF ScreenInv
  <2>1. Way("message") = {} /\ publishing["message"] = {}
    BY TopicsAssumption DEF Init, EventsInit, Way, Buffered, Forwarded
  <2>2. Pending = {} /\ shown = NoSession
    BY <2>1 DEF Pending, Init
  <2>. QED BY <2>1, <2>2 DEF EventsInv, AnnouncedStored, InVersions, LastOnWay, ListInv
<1>2. ChatTyped /\ ScreenInv => ScreenIsStored
  <2> SUFFICES ASSUME ChatTyped, ScreenInv, main = "running", shown # NoSession, ~unloaded, ~unseen,
                      "message" \notin dropped, publishing["message"] = {}, ~(InTransit("message") > 0)
               PROVE  {list[i] : i \in DOMAIN list} =
                        {[index |-> i, version |-> stored[shown][i]] : i \in DOMAIN stored[shown]}
    BY DEF ScreenIsStored
  <2>1. Pending = {}
    <3>1. Way("message") = {}
      BY WayEmpty, TopicsAssumption DEF ChatTyped, OrderInv
    <3>. QED BY <3>1 DEF Pending
  <2>2. ListSound /\ ListFollows
    BY DEF ScreenInv, ListInv
  <2>3. \A k \in DOMAIN list :
          /\ list[k].index \in DOMAIN stored[shown]
          /\ list[k] = [index |-> list[k].index, version |-> stored[shown][list[k].index]]
    <3> TAKE k \in DOMAIN list
    <3>1. list[k] \in Listings
      BY DEF ChatTyped, MessagesTyped
    <3>2. list[k].version = stored[shown][list[k].index] /\ list[k].index \in DOMAIN stored[shown]
      BY <2>1, <2>2 DEF ListSound, ListFollows
    <3>. QED BY <3>1, <3>2 DEF Listings
  <2>4. \A i \in DOMAIN stored[shown] : \E k \in DOMAIN list : list[k].index = i
    BY <2>1, <2>2 DEF ListFollows
  <2>. QED BY <2>3, <2>4
<1>. QED BY <1>1, <1>2, InitTyped, NextTyped, NextScreen, PTL DEF Spec

=============================================================================
