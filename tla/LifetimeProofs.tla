--------------------------- MODULE LifetimeProofs ---------------------------
(***************************************************************************)
(* Proofs about Lifetime, for any finite set of clients, any waiting time  *)
(* and any number of connections: g_ref is the number of clients whose     *)
(* events say they are connected, and the process keeps the promise of     *)
(* ServerLife.                                                             *)
(***************************************************************************)
EXTENDS Lifetime, TLAPS, FiniteSetTheorems, SequenceTheorems

\* The checker sleeps no more than Seconds times.
CheckerInv == checker = "sleep" => i < Seconds

\* The events of a client that are due alternate, and the last one says how
\* the client is now.
Alternate(c) ==
    /\ \A n \in 1 .. Len(events[c]) - 1 : events[c][n] # events[c][n + 1]
    /\ events[c] # <<>> => (events[c][Len(events[c])] = 0 <=> c \in linked)

\* While the process runs, g_ref counts the clients that are Counted.
CountInv ==
    ~Gone => /\ \A c \in Client : Alternate(c)
             /\ ref = Cardinality(Counted)

\* While no client has left, the process is not asked to end on behalf of one
\* that has, and once it is asked to the checker has had its say.
KeptInv ==
    left = {} =>
        /\ lastOne = {}
        /\ asked => checker = "done"
        /\ early # {} => ~asked /\ checker # "ask" /\ ref > 0

\* The main thread leaves its loop only when it is asked to.
LeaveInv == main # "loop" => asked

LifeInv == TypeOK /\ CheckerInv /\ CountInv /\ KeptInv /\ LeaveInv

-----------------------------------------------------------------------------
\* What taking the first of a client's events does.
LEMMA TailEvents ==
    ASSUME NEW e \in Seq({0, 1}), e # <<>>
    PROVE  /\ Head(e) \in {0, 1} /\ Head(e) = e[1]
           /\ Tail(e) \in Seq({0, 1})
           /\ Len(e) \in Nat \ {0}
           /\ Len(Tail(e)) = Len(e) - 1
           /\ \A n \in 1 .. Len(Tail(e)) : Tail(e)[n] = e[n + 1]
           /\ Tail(e) = <<>> <=> Len(e) = 1
<1>1. /\ Head(e) \in {0, 1} /\ Head(e) = e[1]
      /\ Tail(e) \in Seq({0, 1})
      /\ Len(Tail(e)) = Len(e) - 1
      /\ \A n \in 1 .. Len(Tail(e)) : Tail(e)[n] = e[n + 1]
  BY HeadTailProperties
<1>2. Len(e) \in Nat \ {0}
  BY EmptySeq
<1> QED
  BY <1>1, <1>2, EmptySeq

\* What a new event at the end does.
LEMMA AppendEvent ==
    ASSUME NEW e \in Seq({0, 1}), NEW x \in {0, 1}
    PROVE  /\ Append(e, x) \in Seq({0, 1}) /\ Append(e, x) # <<>>
           /\ Len(e) \in Nat
           /\ Len(Append(e, x)) = Len(e) + 1
           /\ Append(e, x)[Len(e) + 1] = x
           /\ \A n \in 1 .. Len(e) : Append(e, x)[n] = e[n]
           /\ Head(Append(e, x)) = IF e = <<>> THEN x ELSE Head(e)
<1>1. /\ Append(e, x) \in Seq({0, 1}) /\ Append(e, x) # <<>>
      /\ Len(Append(e, x)) = Len(e) + 1
      /\ Append(e, x)[Len(e) + 1] = x
      /\ \A n \in 1 .. Len(e) : Append(e, x)[n] = e[n]
  BY AppendProperties
<1>2. Len(e) \in Nat /\ (e = <<>> <=> Len(e) = 0)
  BY EmptySeq
<1>3. Head(Append(e, x)) = Append(e, x)[1]
  BY <1>1
<1>4. CASE e = <<>>
  BY <1>1, <1>2, <1>3, <1>4
<1>5. CASE e # <<>>
  <2>1. Len(e) \in Nat \ {0} /\ 1 \in 1 .. Len(e)
    BY <1>2, <1>5
  <2>2. Head(e) = e[1]
    BY <1>5
  <2> QED
    BY <1>1, <1>2, <1>3, <1>5, <2>1, <2>2
<1> QED
  BY <1>4, <1>5

\* The clients that are counted are finitely many.
LEMMA CountedFinite == IsFiniteSet(Counted) /\ Cardinality(Counted) \in Nat
<1>1. Counted \subseteq Client
  BY DEF Counted
<1>2. IsFiniteSet(Counted)
  BY <1>1, FS_Subset, LifetimeAssumption
<1> QED
  BY <1>2, FS_CardinalityType

LEMMA InitLife == Init => LifeInv
<1> SUFFICES ASSUME Init PROVE LifeInv
  OBVIOUS
<1> USE DEF Init
<1>1. TypeOK
  <2>1. <<>> \in Seq({0, 1})
    OBVIOUS
  <2>2. events \in [Client -> Seq({0, 1})]
    BY <2>1
  <2>3. i \in 0 .. Seconds /\ connects \in 0 .. MaxConnects /\ ref \in Nat
    BY LifetimeAssumption
  <2> QED
    BY <2>2, <2>3 DEF TypeOK
<1>2. CheckerInv /\ KeptInv /\ LeaveInv
  BY DEF CheckerInv, KeptInv, LeaveInv
<1>3. Counted = {}
  BY DEF Counted, IsCounted
<1>4. \A c \in Client : Alternate(c)
  BY DEF Alternate
<1>5. CountInv
  BY <1>3, <1>4, FS_EmptySet DEF CountInv
<1> QED
  BY <1>1, <1>2, <1>5 DEF LifeInv

-----------------------------------------------------------------------------
(* The steps of a client leave the counted clients as they are.            *)

LEMMA ConnectCounted ==
    ASSUME LifeInv, NEW c \in Client, Connect(c)
    PROVE  /\ Counted' = Counted
           /\ \A d \in Client : Alternate(d)'
<1> USE DEF Connect, LifeInv, TypeOK
<1>1. events[c] \in Seq({0, 1}) /\ ~Gone /\ Alternate(c)
  BY DEF Gone, CountInv
<1>2. events'[c] = Append(events[c], 0)
  OBVIOUS
<1> DEFINE e == events[c]
           f == events'[c]
<1>3. /\ f # <<>>
      /\ Len(e) \in Nat /\ Len(f) = Len(e) + 1 /\ f[Len(f)] = 0
      /\ \A n \in 1 .. Len(e) : f[n] = e[n]
      /\ Head(f) = IF e = <<>> THEN 0 ELSE Head(e)
  BY <1>1, <1>2, AppendEvent
<1>4. e # <<>> => Len(e) \in 1 .. Len(e) /\ e[Len(e)] = 1
  <2> SUFFICES ASSUME e # <<>> PROVE Len(e) \in 1 .. Len(e) /\ e[Len(e)] = 1
    OBVIOUS
  <2>1. Len(e) \in 1 .. Len(e)
    BY <1>1, <1>3, EmptySeq
  <2>2. e[Len(e)] \in {0, 1} /\ e[Len(e)] # 0
    BY <1>1, <2>1 DEF Alternate
  <2> QED
    BY <2>1, <2>2
<1>5. Alternate(c)'
  <2> SUFFICES ASSUME NEW n \in 1 .. Len(f) - 1 PROVE f[n] # f[n + 1]
    BY <1>3 DEF Alternate
  <2>1. CASE n = Len(e)
    <3>1. e # <<>>
      BY <1>1, <1>3, <2>1, EmptySeq
    <3> QED
      BY <1>3, <1>4, <2>1, <3>1
  <2>2. CASE n # Len(e)
    <3>1. n \in 1 .. Len(e) - 1 /\ n \in 1 .. Len(e) /\ n + 1 \in 1 .. Len(e)
      BY <1>3, <2>2
    <3> QED
      BY <1>1, <1>3, <3>1 DEF Alternate
  <2> QED
    BY <2>1, <2>2
<1>6. ASSUME NEW d \in Client, d # c
      PROVE  events'[d] = events[d] /\ (d \in linked' <=> d \in linked)
  BY <1>6
<1>7. \A d \in Client : Alternate(d)'
  BY <1>1, <1>5, <1>6 DEF Alternate, CountInv
<1>8. IsCounted(c)' <=> IsCounted(c)
  BY <1>3 DEF IsCounted
<1>9. \A d \in Client : IsCounted(d)' <=> IsCounted(d)
  BY <1>6, <1>8 DEF IsCounted
<1>10. Counted' = Counted
  BY <1>9 DEF Counted
<1> QED
  BY <1>7, <1>10

LEMMA DisconnectCounted ==
    ASSUME LifeInv, NEW c \in Client, Disconnect(c), ~Gone
    PROVE  /\ Counted' = Counted
           /\ \A d \in Client : Alternate(d)'
<1> USE DEF Disconnect, LifeInv, TypeOK
<1>1. events[c] \in Seq({0, 1}) /\ Alternate(c)
  BY DEF CountInv
<1>2. events'[c] = Append(events[c], 1)
  OBVIOUS
<1> DEFINE e == events[c]
           f == events'[c]
<1>3. /\ f # <<>>
      /\ Len(e) \in Nat /\ Len(f) = Len(e) + 1 /\ f[Len(f)] = 1
      /\ \A n \in 1 .. Len(e) : f[n] = e[n]
      /\ Head(f) = IF e = <<>> THEN 1 ELSE Head(e)
  BY <1>1, <1>2, AppendEvent
<1>4. e # <<>> => Len(e) \in 1 .. Len(e) /\ e[Len(e)] = 0
  BY <1>1, <1>3, EmptySeq DEF Alternate
<1>5. Alternate(c)'
  <2>1. ASSUME NEW n \in 1 .. Len(f) - 1 PROVE f[n] # f[n + 1]
    <3>1. CASE n = Len(e)
      <4>1. e # <<>>
        BY <1>1, <1>3, <3>1, EmptySeq
      <4> QED
        BY <1>3, <1>4, <3>1, <4>1
    <3>2. CASE n # Len(e)
      <4>1. n \in 1 .. Len(e) - 1 /\ n \in 1 .. Len(e) /\ n + 1 \in 1 .. Len(e)
        BY <1>3, <2>1, <3>2
      <4> QED
        BY <1>1, <1>3, <4>1 DEF Alternate
    <3> QED
      BY <3>1, <3>2
  <2>2. f[Len(f)] # 0 /\ c \notin linked'
    BY <1>3
  <2> QED
    BY <2>1, <2>2 DEF Alternate
<1>6. ASSUME NEW d \in Client, d # c
      PROVE  events'[d] = events[d] /\ (d \in linked' <=> d \in linked)
  BY <1>6
<1>7. \A d \in Client : Alternate(d)'
  BY <1>1, <1>5, <1>6 DEF Alternate, CountInv
<1>8. IsCounted(c)' <=> IsCounted(c)
  BY <1>3 DEF IsCounted
<1>9. \A d \in Client : IsCounted(d)' <=> IsCounted(d)
  BY <1>6, <1>8 DEF IsCounted
<1>10. Counted' = Counted
  BY <1>9 DEF Counted
<1> QED
  BY <1>7, <1>10

-----------------------------------------------------------------------------
(* An event that is handled counts its client in or out.                   *)

\* Taking the first event of c turns c from counted into not, or back.
LEMMA TakeEvent ==
    ASSUME LifeInv, ~Gone, NEW c \in Client, events[c] # <<>>,
           linked' = linked, events' = [events EXCEPT ![c] = Tail(@)]
    PROVE  /\ \A d \in Client : Alternate(d)'
           /\ IsCounted(c) <=> Head(events[c]) = 1
           /\ IsCounted(c)' <=> Head(events[c]) = 0
           /\ \A d \in Client \ {c} : IsCounted(d)' <=> IsCounted(d)
<1> USE DEF LifeInv, TypeOK
<1>1. events[c] \in Seq({0, 1}) /\ Alternate(c)
  BY DEF CountInv
<1>2. events'[c] = Tail(events[c])
  OBVIOUS
<1> DEFINE e == events[c]
           f == events'[c]
<1>3. /\ Head(e) \in {0, 1} /\ Head(e) = e[1]
      /\ f \in Seq({0, 1})
      /\ Len(e) \in Nat \ {0} /\ Len(f) = Len(e) - 1
      /\ \A n \in 1 .. Len(f) : f[n] = e[n + 1]
      /\ f = <<>> <=> Len(e) = 1
  BY <1>1, <1>2, TailEvents
<1>4. IsCounted(c) <=> Head(e) = 1
  BY DEF IsCounted
<1>5. Alternate(c)'
  <2>1. ASSUME NEW n \in 1 .. Len(f) - 1 PROVE f[n] # f[n + 1]
    <3>1. /\ n \in 1 .. Len(f) /\ n + 1 \in 1 .. Len(f)
          /\ n + 1 \in 1 .. Len(e) - 1
      BY <1>3, <2>1
    <3> QED
      BY <1>1, <1>3, <3>1 DEF Alternate
  <2>2. ASSUME f # <<>> PROVE f[Len(f)] = 0 <=> c \in linked'
    <3>1. Len(f) \in 1 .. Len(f) /\ Len(f) + 1 = Len(e)
      BY <1>3, <2>2
    <3>2. f[Len(f)] = e[Len(e)]
      BY <1>3, <3>1
    <3> QED
      BY <1>1, <3>2 DEF Alternate
  <2> QED
    BY <2>1, <2>2 DEF Alternate
<1>6. IsCounted(c)' <=> Head(e) = 0
  <2>1. CASE f = <<>>
    <3>1. e[Len(e)] = Head(e)
      BY <1>3, <2>1
    <3>2. IsCounted(c)' <=> c \in linked
      BY <2>1 DEF IsCounted
    <3> QED
      BY <1>1, <3>1, <3>2 DEF Alternate
  <2>2. CASE f # <<>>
    <3>1. 1 \in 1 .. Len(f) /\ 1 \in 1 .. Len(e) - 1 /\ 2 \in 1 .. Len(e)
      BY <1>3, <2>2
    <3>2. Head(f) = e[2]
      BY <1>3, <2>2, <3>1
    <3>3. e[2] \in {0, 1} /\ e[2] # e[1]
      BY <1>1, <3>1 DEF Alternate
    <3>4. IsCounted(c)' <=> Head(f) = 1
      BY <2>2 DEF IsCounted
    <3> QED
      BY <1>3, <3>2, <3>3, <3>4
  <2> QED
    BY <2>1, <2>2
<1>7. ASSUME NEW d \in Client, d # c PROVE events'[d] = events[d]
  BY <1>7
<1>8. \A d \in Client : Alternate(d)'
  BY <1>5, <1>7 DEF Alternate, CountInv
<1>9. \A d \in Client \ {c} : IsCounted(d)' <=> IsCounted(d)
  BY <1>7 DEF IsCounted
<1> QED
  BY <1>4, <1>6, <1>8, <1>9

LEMMA CountInCounted ==
    ASSUME LifeInv, NEW c \in Client, CountIn(c)
    PROVE  /\ ~Gone /\ c \notin Counted
           /\ Counted' = Counted \cup {c}
           /\ \A d \in Client : Alternate(d)'
           /\ Cardinality(Counted') = Cardinality(Counted) + 1
<1>1. ~Gone
  BY DEF CountIn, Gone
<1>2. /\ \A d \in Client : Alternate(d)'
      /\ ~IsCounted(c) /\ IsCounted(c)'
      /\ \A d \in Client \ {c} : IsCounted(d)' <=> IsCounted(d)
  <2>1. /\ events[c] # <<>> /\ Head(events[c]) = 0 /\ linked' = linked
        /\ events' = [events EXCEPT ![c] = Tail(@)]
    BY DEF CountIn
  <2>2. 0 # 1
    OBVIOUS
  <2> QED
    BY <1>1, <2>1, <2>2, TakeEvent
<1>3. c \notin Counted /\ Counted' = Counted \cup {c}
  BY <1>2 DEF Counted
<1>4. Cardinality(Counted') = Cardinality(Counted) + 1
  BY <1>3, CountedFinite, FS_AddElement
<1> QED
  BY <1>1, <1>2, <1>3, <1>4

LEMMA CountOutCounted ==
    ASSUME LifeInv, NEW c \in Client, CountOut(c)
    PROVE  /\ ~Gone /\ c \in Counted
           /\ Counted' = Counted \ {c}
           /\ \A d \in Client : Alternate(d)'
           /\ Cardinality(Counted) \in Nat \ {0}
           /\ Cardinality(Counted') = Cardinality(Counted) - 1
           /\ Cardinality(Counted) = 1 <=> Counted = {c}
<1>1. ~Gone
  BY DEF CountOut, Gone
<1>2. /\ \A d \in Client : Alternate(d)'
      /\ IsCounted(c) /\ ~IsCounted(c)'
      /\ \A d \in Client \ {c} : IsCounted(d)' <=> IsCounted(d)
  <2>1. /\ events[c] # <<>> /\ Head(events[c]) = 1 /\ linked' = linked
        /\ events' = [events EXCEPT ![c] = Tail(@)]
    BY DEF CountOut
  <2>2. 0 # 1
    OBVIOUS
  <2> QED
    BY <1>1, <2>1, <2>2, TakeEvent
<1>3. c \in Counted /\ Counted' = Counted \ {c}
  BY <1>2 DEF Counted
<1>4. Cardinality(Counted') = Cardinality(Counted) - 1
  BY <1>3, CountedFinite, FS_RemoveElement
<1>5. IsFiniteSet(Counted') /\ Cardinality(Counted') \in Nat
  BY <1>3, CountedFinite, FS_RemoveElement, FS_CardinalityType
<1>6. Cardinality(Counted) \in Nat
  BY CountedFinite
<1>7. Cardinality(Counted') = 0 <=> Counted' = {}
  BY <1>5, FS_EmptySet
<1>8. Counted' = {} <=> Counted = {c}
  BY <1>3
<1> QED
  BY <1>1, <1>2, <1>3, <1>4, <1>5, <1>6, <1>7, <1>8

-----------------------------------------------------------------------------
(* Every step keeps the invariant.                                         *)

\* A step that handles no event and leaves the clients alone.
LEMMA CountedSame ==
    ASSUME UNCHANGED <<linked, events>>
    PROVE  /\ Counted' = Counted
           /\ \A c \in Client : Alternate(c) => Alternate(c)'
<1>1. \A c \in Client : IsCounted(c)' <=> IsCounted(c)
  BY DEF IsCounted
<1>2. Counted' = Counted
  BY <1>1 DEF Counted
<1>3. \A c \in Client : Alternate(c) => Alternate(c)'
  BY DEF Alternate
<1> QED
  BY <1>2, <1>3

LEMMA ConnectLife ==
    ASSUME LifeInv, NEW c \in Client, Connect(c) \/ Disconnect(c)
    PROVE  LifeInv'
<1> USE DEF LifeInv
<1>1. TypeOK'
  <2>1. CASE Connect(c)
    <3>1. events' \in [Client -> Seq({0, 1})]
      BY <2>1, AppendEvent DEF Connect, TypeOK
    <3>2. connects' \in 0 .. MaxConnects
      BY <2>1, LifetimeAssumption DEF Connect, TypeOK
    <3> QED
      BY <2>1, <3>1, <3>2 DEF Connect, process, TypeOK
  <2>2. CASE Disconnect(c)
    <3>1. events' \in [Client -> Seq({0, 1})]
      BY <2>2, AppendEvent DEF Disconnect, TypeOK
    <3> QED
      BY <2>2, <3>1 DEF Disconnect, process, TypeOK
  <2> QED
    BY <2>1, <2>2
<1>2. UNCHANGED <<process, main>>
  BY DEF Connect, Disconnect
<1>3. CheckerInv' /\ KeptInv' /\ LeaveInv'
  BY <1>2 DEF process, CheckerInv, KeptInv, LeaveInv
<1>4. ASSUME ~Gone PROVE Counted' = Counted /\ \A d \in Client : Alternate(d)'
  BY <1>4, ConnectCounted, DisconnectCounted
<1>5. CountInv'
  BY <1>2, <1>4 DEF CountInv, Gone, process
<1> QED
  BY <1>1, <1>3, <1>5

LEMMA CountInLife ==
    ASSUME LifeInv, NEW c \in Client, CountIn(c)
    PROVE  LifeInv'
<1> USE DEF LifeInv, CountIn
<1>1. /\ ~Gone /\ \A d \in Client : Alternate(d)'
      /\ Cardinality(Counted') = Cardinality(Counted) + 1
  BY CountInCounted
<1>2. TypeOK'
  <2>1. events' \in [Client -> Seq({0, 1})]
    BY TailEvents DEF TypeOK
  <2> QED
    BY <2>1 DEF TypeOK
<1>3. CheckerInv' /\ LeaveInv'
  BY DEF CheckerInv, LeaveInv
<1>4. CountInv'
  BY <1>1 DEF CountInv
<1>5. KeptInv'
  BY DEF KeptInv, TypeOK
<1> QED
  BY <1>2, <1>3, <1>4, <1>5

LEMMA CountOutLife ==
    ASSUME LifeInv, NEW c \in Client, CountOut(c)
    PROVE  LifeInv'
<1> USE DEF LifeInv, CountOut
<1>1. /\ ~Gone /\ \A d \in Client : Alternate(d)'
      /\ Cardinality(Counted) \in Nat \ {0}
      /\ Cardinality(Counted') = Cardinality(Counted) - 1
  BY CountOutCounted
<1>2. TypeOK'
  <2>1. events' \in [Client -> Seq({0, 1})]
    BY TailEvents DEF TypeOK
  <2>2. ref' \in Nat
    BY <1>1 DEF CountInv
  <2> QED
    BY <2>1, <2>2 DEF TypeOK
<1>3. CheckerInv' /\ LeaveInv'
  BY DEF CheckerInv, LeaveInv
<1>4. CountInv'
  BY <1>1 DEF CountInv
<1>5. KeptInv'
  BY DEF KeptInv
<1> QED
  BY <1>2, <1>3, <1>4, <1>5

\* The steps of the server that handle no event and end no connection.
Decides ==
    \/ \E c \in Client : LastOneAsks(c)
    \/ CheckerTest \/ CheckerSleep \/ CheckerFinal \/ CheckerAsks
    \/ LeaveLoop

LEMMA DecidesLife ==
    ASSUME LifeInv, Decides
    PROVE  LifeInv'
<1> USE DEF LifeInv
<1>1. UNCHANGED <<linked, events, ref, early, left, connects>> /\ ~Gone
  BY DEF Decides, LastOneAsks, CheckerTest, CheckerSleep, CheckerFinal,
         CheckerAsks, LeaveLoop, process, Gone
<1>2. TypeOK' /\ CheckerInv'
  <2>1. ASSUME NEW c \in Client, LastOneAsks(c) PROVE TypeOK' /\ CheckerInv'
    BY <2>1 DEF LastOneAsks, TypeOK, CheckerInv
  <2>2. CASE CheckerTest
    BY <2>2 DEF CheckerTest, TypeOK, CheckerInv
  <2>3. CASE CheckerSleep
    BY <2>3, LifetimeAssumption DEF CheckerSleep, TypeOK, CheckerInv
  <2>4. CASE CheckerFinal \/ CheckerAsks
    BY <2>4 DEF CheckerFinal, CheckerAsks, TypeOK, CheckerInv
  <2>5. CASE LeaveLoop
    BY <2>5 DEF LeaveLoop, process, TypeOK, CheckerInv
  <2> QED
    BY <2>1, <2>2, <2>3, <2>4, <2>5 DEF Decides
<1>3. CountInv'
  BY <1>1, CountedSame DEF CountInv
<1>4. KeptInv'
  <2>1. ASSUME NEW c \in Client, LastOneAsks(c) PROVE KeptInv'
    BY <2>1 DEF LastOneAsks, KeptInv
  <2>2. CASE CheckerTest \/ CheckerSleep
    BY <2>2 DEF CheckerTest, CheckerSleep, KeptInv
  <2>3. CASE CheckerFinal \/ CheckerAsks
    BY <2>3 DEF CheckerFinal, CheckerAsks, KeptInv, TypeOK
  <2>4. CASE LeaveLoop
    BY <2>4 DEF LeaveLoop, process, KeptInv
  <2> QED
    BY <2>1, <2>2, <2>3, <2>4 DEF Decides
<1>5. LeaveInv'
  BY DEF Decides, LastOneAsks, CheckerTest, CheckerSleep, CheckerFinal,
         CheckerAsks, LeaveLoop, process, LeaveInv
<1> QED
  BY <1>2, <1>3, <1>4, <1>5

LEMMA ShutdownLife ==
    ASSUME LifeInv, Shutdown
    PROVE  LifeInv'
<1> USE DEF LifeInv, Shutdown, process
<1>1. TypeOK'
  BY DEF TypeOK
<1>2. CheckerInv' /\ KeptInv' /\ LeaveInv'
  BY DEF CheckerInv, KeptInv, LeaveInv
<1>3. CountInv'
  BY DEF CountInv, Gone
<1> QED
  BY <1>1, <1>2, <1>3

\* What a step does, by the lemma that deals with it.
LEMMA NextCases ==
    ASSUME Next
    PROVE  \/ \E c \in Client : Connect(c) \/ Disconnect(c)
           \/ \E c \in Client : CountIn(c)
           \/ \E c \in Client : CountOut(c)
           \/ Decides
           \/ Shutdown
BY DEF Next, Decides

LEMMA StepLife == LifeInv /\ [Next]_vars => LifeInv'
<1> SUFFICES ASSUME LifeInv, [Next]_vars PROVE LifeInv'
  OBVIOUS
<1>1. CASE Next
  <2>1. ASSUME NEW c \in Client, Connect(c) \/ Disconnect(c) PROVE LifeInv'
    BY <2>1, ConnectLife
  <2>2. ASSUME NEW c \in Client, CountIn(c) PROVE LifeInv'
    BY <2>2, CountInLife
  <2>3. ASSUME NEW c \in Client, CountOut(c) PROVE LifeInv'
    BY <2>3, CountOutLife
  <2>4. CASE Decides
    BY <2>4, DecidesLife
  <2>5. CASE Shutdown
    BY <2>5, ShutdownLife
  <2> QED
    BY <1>1, <2>1, <2>2, <2>3, <2>4, <2>5, NextCases
<1>2. CASE UNCHANGED vars
  <2>1. UNCHANGED <<linked, events, ref, lastOne, i, checker, asked, early, left,
                    main, connects>>
    BY <1>2 DEF vars, process
  <2>2. TypeOK' /\ CheckerInv' /\ KeptInv' /\ LeaveInv'
    BY <2>1 DEF LifeInv, TypeOK, CheckerInv, KeptInv, LeaveInv
  <2>3. CountInv'
    BY <2>1, CountedSame DEF LifeInv, CountInv, Gone
  <2> QED
    BY <2>2, <2>3 DEF LifeInv
<1> QED
  BY <1>1, <1>2

\* The invariant holds in every reachable state: g_ref counts the clients.
THEOREM LifeInvariant == Spec => []LifeInv
<1> QED
  BY InitLife, StepLife, PTL DEF Spec

-----------------------------------------------------------------------------
\* Every variable keeps a value of its kind; g_ref is never negative, although
\* it is decreased by threads that do not wait for each other.
THEOREM TypeCorrect == Spec => []TypeOK
<1>1. LifeInv => TypeOK
  BY DEF LifeInv
<1> QED
  BY <1>1, LifeInvariant, PTL

\* A client that was counted in time keeps the process, as long as no client
\* has left (main.cpp:111-118).
THEOREM KeepsRequester == Spec => []RequesterKept
<1>1. LifeInv => RequesterKept
  BY DEF LifeInv, KeptInv, RequesterKept
<1> QED
  BY <1>1, LifeInvariant, PTL

\* A process without clients always has somebody left who may ask it to end:
\* the checker, or the thread that counted the last client out.
THEOREM SomeoneAsks == Spec => []SomeoneWillAsk
<1>1. Init => SomeoneWillAsk
  BY DEF Init, SomeoneWillAsk
<1>2. LifeInv /\ SomeoneWillAsk /\ [Next]_vars => SomeoneWillAsk'
  <2> SUFFICES ASSUME LifeInv, SomeoneWillAsk, [Next]_vars PROVE SomeoneWillAsk'
    OBVIOUS
  <2> USE DEF SomeoneWillAsk
  <2>0. ref \in Nat
    BY DEF LifeInv, TypeOK
  <2>1. ASSUME NEW c \in Client, Connect(c) \/ Disconnect(c) PROVE SomeoneWillAsk'
    BY <2>1 DEF Connect, Disconnect, process
  <2>2. ASSUME NEW c \in Client, CountIn(c) PROVE SomeoneWillAsk'
    BY <2>0, <2>2 DEF CountIn
  <2>3. ASSUME NEW c \in Client, CountOut(c) PROVE SomeoneWillAsk'
    BY <2>0, <2>3 DEF CountOut
  <2>4. ASSUME NEW c \in Client, LastOneAsks(c) PROVE SomeoneWillAsk'
    BY <2>4 DEF LastOneAsks
  <2>5. CASE CheckerTest \/ CheckerSleep \/ CheckerFinal \/ CheckerAsks
    BY <2>5 DEF CheckerTest, CheckerSleep, CheckerFinal, CheckerAsks
  <2>6. CASE LeaveLoop \/ Shutdown
    BY <2>6 DEF LeaveLoop, Shutdown, process
  <2>7. CASE UNCHANGED vars
    BY <2>7 DEF vars, process
  <2> QED
    BY <2>1, <2>2, <2>3, <2>4, <2>5, <2>6, <2>7 DEF Next
<1> QED
  BY <1>1, <1>2, LifeInvariant, PTL DEF Spec

-----------------------------------------------------------------------------
(* Lifetime implements ServerLife.                                         *)

LEMMA LifeInit == Init => Life!Init
<1> SUFFICES ASSUME Init PROVE Life!Init
  OBVIOUS
<1>1. Counted = {} /\ ~Gone /\ ~Doomed
  BY DEF Init, Counted, IsCounted, Gone, Doomed
<1> QED
  BY <1>1 DEF Life!Init

\* A step that changes neither the members nor the decision is a stutter.
LEMMA LifeStutter ==
    ASSUME Counted' = Counted, Doomed' = Doomed, Gone' = Gone
    PROVE  UNCHANGED Life!vars
BY DEF Life!vars

LEMMA LifeStep == LifeInv /\ [Next]_vars => [Life!Next]_(Life!vars)
<1> SUFFICES ASSUME LifeInv, [Next]_vars PROVE [Life!Next]_(Life!vars)
  OBVIOUS
<1>0. Doomed \in BOOLEAN /\ Gone \in BOOLEAN /\ asked \in BOOLEAN
  BY DEF Doomed, Gone, LifeInv, TypeOK
<1>1. ASSUME NEW c \in Client, Connect(c) \/ Disconnect(c)
      PROVE  UNCHANGED Life!vars
  <2>1. Doomed' = Doomed /\ Gone' = Gone
    BY <1>1 DEF Connect, Disconnect, process, Doomed, Gone
  <2>2. CASE ~Gone
    BY <1>1, <2>1, <2>2, ConnectCounted, DisconnectCounted, LifeStutter
  <2>3. CASE Gone
    BY <2>1, <2>3 DEF Life!vars
  <2> QED
    BY <2>2, <2>3
<1>2. ASSUME NEW c \in Client, CountIn(c) PROVE Life!Enter(c)
  <2>1. ~Gone /\ c \notin Counted /\ Counted' = Counted \cup {c}
    BY <1>2, CountInCounted
  <2>2. Gone' = Gone /\ Doomed' = Doomed
    BY <1>2 DEF CountIn, Gone, Doomed
  <2> QED
    BY <2>1, <2>2 DEF Life!Enter
<1>3. ASSUME NEW c \in Client, CountOut(c) PROVE Life!Leave(c)
  <2>1. /\ ~Gone /\ c \in Counted /\ Counted' = Counted \ {c}
        /\ Cardinality(Counted) = 1 <=> Counted = {c}
    BY <1>3, CountOutCounted
  <2>2. ref = Cardinality(Counted)
    BY <2>1 DEF LifeInv, CountInv
  <2>3. Gone' = Gone /\ asked' = asked /\ checker' = checker
    BY <1>3 DEF CountOut, Gone
  <2>4. lastOne' # {} <=> lastOne # {} \/ ref = 1
    BY <1>3 DEF CountOut
  <2>5. Doomed' = (Doomed \/ Counted = {c})
    BY <2>1, <2>2, <2>3, <2>4 DEF Doomed
  <2> QED
    BY <2>1, <2>3, <2>5 DEF Life!Leave
<1>4. ASSUME Decides PROVE Life!GiveUp \/ UNCHANGED Life!vars
  <2>1. Counted' = Counted
    BY <1>4, CountedSame DEF Decides, LastOneAsks, CheckerTest, CheckerSleep,
                             CheckerFinal, CheckerAsks, LeaveLoop, process
  <2>2. ~Gone /\ ~Gone' /\ Gone' = Gone
    BY <1>4 DEF Decides, LastOneAsks, CheckerTest, CheckerSleep, CheckerFinal,
                CheckerAsks, LeaveLoop, process, Gone
  <2>3. ASSUME NEW c \in Client, LastOneAsks(c) PROVE Doomed' = Doomed
    BY <2>3 DEF LastOneAsks, Doomed
  <2>4. CASE CheckerTest \/ CheckerSleep \/ CheckerAsks \/ LeaveLoop
    <3>1. Doomed' = Doomed
      BY <2>4 DEF CheckerTest, CheckerSleep, CheckerAsks, LeaveLoop, process, Doomed
    <3> QED
      BY <2>1, <2>2, <3>1, LifeStutter
  <2>5. CASE CheckerFinal /\ (ref # 0 \/ Doomed)
    <3>1. Doomed' = Doomed
      BY <2>5 DEF CheckerFinal, Doomed
    <3> QED
      BY <2>1, <2>2, <3>1, LifeStutter
  <2>6. CASE CheckerFinal /\ ref = 0 /\ ~Doomed
    <3>1. Counted = {}
      BY <2>2, <2>6, CountedFinite, FS_EmptySet DEF LifeInv, CountInv
    <3>2. Doomed' = TRUE /\ Gone' = Gone
      BY <2>2, <2>6 DEF CheckerFinal, Doomed, Gone
    <3>3. Life!GiveUp
      BY <2>1, <2>2, <2>6, <3>1, <3>2 DEF Life!GiveUp
    <3> QED
      BY <3>3
  <2> QED
    BY <1>4, <2>1, <2>2, <2>3, <2>4, <2>5, <2>6, LifeStutter DEF Decides
<1>5. ASSUME Shutdown PROVE Life!Exit
  <2>1. ~Gone /\ Gone' = TRUE /\ Doomed' = Doomed
    BY <1>5 DEF Shutdown, Gone, Doomed, process
  <2>2. Doomed
    BY <1>5 DEF Shutdown, LifeInv, LeaveInv, Doomed
  <2>3. Life!Exit
    BY <2>1, <2>2 DEF Life!Exit
  <2> QED
    BY <2>3
<1>6. ASSUME UNCHANGED vars PROVE UNCHANGED Life!vars
  <2>1. UNCHANGED <<linked, events, lastOne, checker, asked, main>>
    BY <1>6 DEF vars, process
  <2> QED
    BY <2>1, CountedSame, LifeStutter DEF Doomed, Gone
<1> QED
  BY <1>1, <1>2, <1>3, <1>4, <1>5, <1>6, NextCases DEF Life!Next

\* Lifetime implements ServerLife: counted in, counted out, given up and ended
\* are the only things that happen to a client of the process, in this order.
THEOREM ImplementsServerLife == Spec => Life!Spec
<1> QED
  BY LifeInit, LifeStep, LifeInvariant, PTL DEF Spec, Life!Spec
=============================================================================
