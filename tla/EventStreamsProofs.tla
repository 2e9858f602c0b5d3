------------------------- MODULE EventStreamsProofs --------------------------
(***************************************************************************)
(* Proofs about the event streams of the console: about the hub, whatever  *)
(* is published while streams come and go, and about the platform's MQTT   *)
(* client, whatever becomes of its connection; for any number of streams,  *)
(* topics, events and connections.  The rules on topics come last.         *)
(***************************************************************************)
EXTENDS EventStreams, TopicRules, FiniteSetTheorems, SequenceTheorems, TLAPS

(***************************************************************************)
(* The invariant of the hub                                                *)
(***************************************************************************)

\* An event is its place in the log, and only the last one is being given out.
PlacesInLog ==
    /\ \A t \in Names : \A n \in DOMAIN recent[t] :
           recent[t][n] <= Len(log) /\ log[recent[t][n]] = t
    /\ \A s \in Streams :
           /\ replay[s] \subseteq DOMAIN log
           /\ \A n \in DOMAIN queue[s] : queue[s][n] <= Len(log)
           /\ \A n \in DOMAIN taken[s] : taken[s][n] <= Len(log)
           /\ since[s] <= Len(log)
    /\ fan # NoFan => fan.event = Len(log) /\ log # <<>>

BeforeOpen == {"new", "counted", "checked", "subscribing", "account", "set", "watched"}

\* The hub knows nothing of a stream that has not subscribed.
NothingBeforeOpen ==
    \A s \in Streams : stream[s].pc \in BeforeOpen =>
        /\ ~listener[s].on
        /\ replay[s] = {} /\ queue[s] = <<>> /\ taken[s] = <<>>
        /\ s \notin fan.to

\* The recent events of a topic are its last ones, in their order.
RecentAreLast ==
    \A t \in Names :
        /\ \A m, n \in DOMAIN recent[t] : m < n => recent[t][m] < recent[t][n]
        /\ \A e \in DOMAIN log : log[e] = t =>
               \/ \E n \in DOMAIN recent[t] : recent[t][n] = e
               \/ (Len(recent[t]) = MaxRecent /\ e < recent[t][1])

HubInv ==
    /\ HubTypeOK /\ PlacesInLog /\ NothingBeforeOpen /\ RecentAreLast
    /\ NothingTwice /\ NothingLost

-----------------------------------------------------------------------------
(* Sequences of events                                                     *)

Elements(q) == {q[n] : n \in DOMAIN q}

Distinct(q) == \A m, n \in DOMAIN q : q[m] = q[n] => m = n

\* The elements of a sequence with one more at its end.
LEMMA AppendElements ==
    ASSUME NEW S, NEW q \in Seq(S), NEW e \in S
    PROVE  /\ Elements(Append(q, e)) = Elements(q) \cup {e}
           /\ Distinct(q) /\ e \notin Elements(q) => Distinct(Append(q, e))
<1>1. /\ Append(q, e) \in Seq(S) /\ Len(Append(q, e)) = Len(q) + 1
      /\ \A n \in 1 .. Len(q) : Append(q, e)[n] = q[n]
      /\ Append(q, e)[Len(q) + 1] = e
    BY AppendProperties
<1>2. /\ Len(q) \in Nat /\ DOMAIN q = 1 .. Len(q)
      /\ DOMAIN Append(q, e) = 1 .. Len(q) + 1
    BY <1>1, LenProperties
<1> DEFINE p == Append(q, e)
<1> HIDE DEF p
<1>3. /\ DOMAIN p = 1 .. Len(q) + 1 /\ p[Len(q) + 1] = e
      /\ \A n \in 1 .. Len(q) : p[n] = q[n]
    BY <1>1, <1>2 DEF p
<1>4. Elements(p) = Elements(q) \cup {e}
    BY <1>2, <1>3 DEF Elements
<1>5. Distinct(q) /\ e \notin Elements(q) => Distinct(p)
    BY <1>2, <1>3 DEF Distinct, Elements
<1> QED
    BY <1>4, <1>5 DEF p

\* A place past the first sequence is one in the second.
LEMMA Beyond ==
    ASSUME NEW a \in Nat, NEW b \in Nat, NEW n \in 1 .. a + b, ~(n <= a)
    PROVE  n - a \in 1 .. b
OBVIOUS

\* Appending to the second of two sequences is appending to both.
LEMMA AppendLast ==
    ASSUME NEW S, NEW p \in Seq(S), NEW q \in Seq(S), NEW e \in S
    PROVE  p \o Append(q, e) = Append(p \o q, e)
<1>1. <<e>> \in Seq(S) /\ p \o q \in Seq(S)
    BY ConcatProperties
<1>2. Append(q, e) = q \o <<e>> /\ Append(p \o q, e) = (p \o q) \o <<e>>
    BY <1>1, AppendIsConcat
<1> QED
    BY <1>1, <1>2, ConcatAssociative

\* Moving an element from the head of one to the end of the other changes
\* nothing of the two together.
LEMMA MoveHead ==
    ASSUME NEW S, NEW p \in Seq(S), NEW q \in Seq(S), q # <<>>
    PROVE  Append(p, Head(q)) \o Tail(q) = p \o q
<1>1. /\ Head(q) \in S /\ Tail(q) \in Seq(S)
      /\ Len(Tail(q)) = Len(q) - 1
      /\ \A n \in 1 .. Len(Tail(q)) : Tail(q)[n] = q[n + 1]
    BY HeadTailProperties
<1>2. Head(q) = q[1] /\ Len(q) \in Nat \ {0} /\ Len(p) \in Nat
    BY EmptySeq, LenProperties
<1> DEFINE a == Append(p, Head(q))
           b == a \o Tail(q)
           c == p \o q
<1>3. /\ a \in Seq(S) /\ Len(a) = Len(p) + 1
      /\ \A n \in 1 .. Len(p) : a[n] = p[n]
      /\ a[Len(p) + 1] = q[1]
    BY <1>1, <1>2, AppendProperties
<1> HIDE DEF a
<1>4. /\ b \in Seq(S) /\ Len(b) = Len(p) + Len(q)
      /\ \A n \in 1 .. Len(p) + Len(q) : b[n] = IF n <= Len(p) + 1 THEN a[n]
                                                ELSE Tail(q)[n - (Len(p) + 1)]
    <2>1. /\ b \in Seq(S) /\ Len(b) = Len(a) + Len(Tail(q))
          /\ \A n \in 1 .. Len(a) + Len(Tail(q)) : b[n] = IF n <= Len(a) THEN a[n]
                                                          ELSE Tail(q)[n - Len(a)]
        BY <1>1, <1>3, ConcatProperties
    <2> HIDE DEF b
    <2> QED
        BY <1>1, <1>2, <1>3, <2>1
<1>5. /\ c \in Seq(S) /\ Len(c) = Len(p) + Len(q)
      /\ \A n \in 1 .. Len(p) + Len(q) : c[n] = IF n <= Len(p) THEN p[n] ELSE q[n - Len(p)]
    BY ConcatProperties
<1> HIDE DEF b, c
<1>6. ASSUME NEW n \in 1 .. Len(b)
      PROVE  b[n] = c[n]
    <2>1. /\ n \in 1 .. Len(p) + Len(q)
          /\ b[n] = IF n <= Len(p) + 1 THEN a[n] ELSE Tail(q)[n - (Len(p) + 1)]
          /\ c[n] = IF n <= Len(p) THEN p[n] ELSE q[n - Len(p)]
        BY <1>4, <1>5
    <2>2. CASE n <= Len(p)
        <3>1. a[n] = p[n]
            BY <1>2, <1>3, <2>1, <2>2
        <3> QED
            BY <1>2, <2>1, <2>2, <3>1
    <2>3. CASE n = Len(p) + 1
        <3>1. n - Len(p) = 1 /\ ~(n <= Len(p))
            BY <1>2, <2>3
        <3> QED
            BY <1>2, <1>3, <2>1, <2>3, <3>1
    <2>4. CASE n > Len(p) + 1
        <3>1. n - (Len(p) + 1) \in 1 .. Len(Tail(q))
            BY <1>1, <1>2, <2>1, <2>4
        <3>2. b[n] = q[n - (Len(p) + 1) + 1]
            BY <1>1, <1>2, <2>1, <2>4, <3>1
        <3> QED
            BY <1>2, <2>1, <2>4, <3>2
    <2> QED
        BY <1>2, <2>1, <2>2, <2>3, <2>4
<1>7. b = c
    BY <1>4, <1>5, <1>6, SeqEqual
<1> QED
    BY <1>7 DEF a, b, c
-----------------------------------------------------------------------------
(* The recent events                                                       *)

\* The deque: what is added is last, and the first goes if there is no room.
LEMMA RememberShifts ==
    ASSUME NEW r \in Seq(Events), Len(r) <= MaxRecent, NEW e \in Events
    PROVE  /\ Remember(r, e) \in Seq(Events)
           /\ Len(Remember(r, e)) <= MaxRecent
           /\ \/ /\ Len(r) < MaxRecent /\ Len(Remember(r, e)) = Len(r) + 1
                 /\ \A n \in 1 .. Len(r) : Remember(r, e)[n] = r[n]
                 /\ Remember(r, e)[Len(r) + 1] = e
              \/ /\ Len(r) = MaxRecent /\ Len(Remember(r, e)) = Len(r)
                 /\ \A n \in 1 .. Len(r) - 1 : Remember(r, e)[n] = r[n + 1]
                 /\ Remember(r, e)[Len(r)] = e
<1> DEFINE all == Append(r, e)
<1>1. /\ all \in Seq(Events) /\ Len(all) = Len(r) + 1
      /\ all # <<>>
      /\ \A n \in 1 .. Len(r) : all[n] = r[n]
      /\ all[Len(r) + 1] = e
    BY AppendProperties
<1>2. Len(r) \in Nat /\ MaxRecent \in Nat \ {0}
    BY LenProperties, EventHubAssumption
<1>3. Remember(r, e) = IF Len(all) > MaxRecent THEN Tail(all) ELSE all
    BY DEF Remember
<1>4. /\ Tail(all) \in Seq(Events) /\ Len(Tail(all)) = Len(all) - 1
      /\ \A n \in 1 .. Len(Tail(all)) : Tail(all)[n] = all[n + 1]
    BY <1>1, HeadTailProperties
<1> HIDE DEF all
<1>5. CASE Len(r) < MaxRecent
    BY <1>1, <1>2, <1>3, <1>5
<1>6. CASE Len(r) = MaxRecent
    <2>1. Remember(r, e) = Tail(all) /\ Len(Tail(all)) = Len(r)
        BY <1>1, <1>2, <1>3, <1>4, <1>6
    <2>2. \A n \in 1 .. Len(r) - 1 : Tail(all)[n] = r[n + 1]
        BY <1>1, <1>2, <1>4, <2>1
    <2>3. Tail(all)[Len(r)] = e
        BY <1>1, <1>2, <1>4, <1>6, <2>1
    <2> QED
        BY <1>4, <1>6, <2>1, <2>2, <2>3
<1> QED
    BY <1>2, <1>5, <1>6

\* RecentAreLast, of one topic.
RecentOf(t) ==
    /\ \A m, n \in DOMAIN recent[t] : m < n => recent[t][m] < recent[t][n]
    /\ \A e \in DOMAIN log : log[e] = t =>
           \/ \E n \in DOMAIN recent[t] : recent[t][n] = e
           \/ (Len(recent[t]) = MaxRecent /\ e < recent[t][1])

\* The last MaxRecent events of a topic are among the recent ones.
LEMMA LastAreRecent ==
    ASSUME HubTypeOK, PlacesInLog, RecentAreLast, NEW e \in DOMAIN log,
           e \in LastOn(log[e], Len(log))
    PROVE  \E n \in DOMAIN recent[log[e]] : recent[log[e]][n] = e
<1> DEFINE t == log[e]
           r == recent[t]
           later == {d \in e + 1 .. Len(log) : log[d] = t}
<1>1. /\ log \in Seq(Names) /\ DOMAIN log = 1 .. Len(log) /\ Len(log) \in Nat
      /\ t \in Names /\ e \in Nat
    BY LenProperties DEF HubTypeOK
<1>2. /\ r \in Seq(Events) /\ DOMAIN r = 1 .. Len(r) /\ Len(r) \in Nat
      /\ \A n \in 1 .. Len(r) : /\ r[n] \in Nat /\ r[n] <= Len(log) /\ log[r[n]] = t
    <2>1. r \in Seq(Events)
        BY <1>1 DEF HubTypeOK
    <2>2. DOMAIN r = 1 .. Len(r) /\ Len(r) \in Nat /\ r \in [1 .. Len(r) -> Events]
        BY <2>1, LenProperties
    <2>3. \A n \in 1 .. Len(r) : r[n] \in Nat /\ r[n] <= Len(log) /\ log[r[n]] = t
        BY <1>1, <2>2, EventHubAssumption DEF PlacesInLog, Events
    <2> QED
        BY <2>1, <2>2, <2>3
<1>3. Cardinality(later) < MaxRecent
    BY <1>1 DEF LastOn
<1>4. /\ \A m, n \in DOMAIN r : m < n => r[m] < r[n]
      /\ (\E n \in DOMAIN r : r[n] = e) \/ (Len(r) = MaxRecent /\ e < r[1])
    BY <1>1 DEF RecentAreLast
<1>5. ASSUME Len(r) = MaxRecent, e < r[1]
      PROVE  FALSE
    <2>1. MaxRecent \in Nat \ {0}
        BY EventHubAssumption
    <2>2. IsFiniteSet(later)
        <3>1. IsFiniteSet(e + 1 .. Len(log))
            BY <1>1, FS_Interval
        <3> QED
            BY <3>1, FS_Subset
    <2>3. ASSUME NEW n \in 1 .. Len(r)
          PROVE  r[n] \in later
        <3>1. r[n] \in Nat /\ r[n] <= Len(log) /\ log[r[n]] = t
            BY <1>2
        <3>2. e < r[n]
            <4>1. 1 \in 1 .. Len(r) /\ (n = 1 \/ 1 < n) /\ DOMAIN r = 1 .. Len(r)
                BY <1>2, <1>5, <2>1
            <4>2. n = 1 \/ r[1] < r[n]
                BY <1>4, <4>1
            <4>3. r[1] \in Nat
                BY <1>2, <4>1
            <4> HIDE DEF r
            <4> QED
                BY <1>1, <1>5, <3>1, <4>2, <4>3
        <3>3. r[n] \in e + 1 .. Len(log)
            BY <1>1, <3>1, <3>2
        <3> QED
            BY <3>1, <3>3
    <2>4. r \in [1 .. Len(r) -> later]
        <3>1. r \in [1 .. Len(r) -> Events]
            BY <1>2, LenProperties
        <3> QED
            BY <2>3, <3>1
    <2> HIDE DEF r, later
    <2>5. IsInjective(r)
        BY <1>2, <1>4 DEF IsInjective
    <2>6. r \in Injection(1 .. Len(r), later)
        BY <2>4, <2>5 DEF Injection
    <2>7. Cardinality(1 .. Len(r)) <= Cardinality(later)
        BY <2>2, <2>6, FS_Injection
    <2>8. Cardinality(1 .. Len(r)) = Len(r)
        BY <1>2, <1>5, <2>1, FS_Interval
    <2>9. Cardinality(later) \in Nat
        BY <2>2, FS_CardinalityType
    <2> QED
        BY <1>3, <1>5, <2>1, <2>7, <2>8, <2>9
<1> QED
    BY <1>4, <1>5
-----------------------------------------------------------------------------
(* What a stream is given                                                  *)

\* NothingTwice, of one stream.
OnceOf(s) ==
    /\ Distinct(Given(s))
    /\ GivenEvents(s) \cap ToCome(s) = {}
    /\ s \in Addressees => fan.event \notin replay[s]

\* NothingTwice, stream by stream.
LEMMA OnceOfAll ==
    /\ NothingTwice <=> \A s \in Streams : OnceOf(s)
    /\ NothingTwice' <=> \A s \in Streams : OnceOf(s)'
BY DEF NothingTwice, OnceOf, Distinct

\* NothingLost, of one stream.
AllOf(s) ==
    listener[s].on =>
        \A e \in DOMAIN log :
            /\ Hears(s, log[e])
            /\ e > since[s] \/ e \in LastOn(log[e], since[s])
            => e \in GivenEvents(s) \cup ToCome(s) \cup dropped[s]

\* NothingLost, stream by stream.
LEMMA AllOfAll ==
    /\ NothingLost <=> \A s \in Streams : AllOf(s)
    /\ NothingLost' <=> \A s \in Streams : AllOf(s)'
BY DEF NothingLost, AllOf

\* What a stream was given, taken or still queued.
LEMMA GivenIsASequence ==
    ASSUME HubTypeOK, NEW s \in Streams
    PROVE  /\ taken[s] \in Seq(Events) /\ queue[s] \in Seq(Events)
           /\ Given(s) \in Seq(Events)
           /\ GivenEvents(s) = Elements(Given(s))
<1>1. taken[s] \in Seq(Events) /\ queue[s] \in Seq(Events)
    BY DEF HubTypeOK
<1> QED
    BY <1>1, ConcatProperties DEF Given, GivenEvents, Elements

\* An event in a queue or sent was published.
LEMMA GivenWasPublished ==
    ASSUME HubTypeOK, PlacesInLog, NEW s \in Streams, NEW e \in GivenEvents(s)
    PROVE  e \in Nat /\ e <= Len(log)
<1>1. taken[s] \in Seq(Events) /\ queue[s] \in Seq(Events) /\ Given(s) \in Seq(Events)
    BY GivenIsASequence
<1>2. PICK n \in DOMAIN Given(s) : e = Given(s)[n]
    BY DEF GivenEvents
<1>3. n \in 1 .. Len(Given(s)) /\ e \in Events
    BY <1>1, <1>2, LenProperties, ElementOfSeq
<1>4. /\ DOMAIN taken[s] = 1 .. Len(taken[s]) /\ DOMAIN queue[s] = 1 .. Len(queue[s])
      /\ Len(taken[s]) \in Nat /\ Len(queue[s]) \in Nat
    BY <1>1, LenProperties
<1>5. /\ Len(Given(s)) = Len(taken[s]) + Len(queue[s])
      /\ e = IF n <= Len(taken[s]) THEN taken[s][n] ELSE queue[s][n - Len(taken[s])]
    BY <1>1, <1>2, <1>3, ConcatProperties DEF Given
<1>6. e <= Len(log)
    <2>1. CASE n <= Len(taken[s])
        <3>1. n \in DOMAIN taken[s]
            BY <1>3, <1>4, <1>5, <2>1
        <3> QED
            BY <1>5, <2>1, <3>1 DEF PlacesInLog
    <2>2. CASE ~(n <= Len(taken[s]))
        <3>1. n \in 1 .. Len(taken[s]) + Len(queue[s])
            BY <1>3, <1>5
        <3>2. n - Len(taken[s]) \in 1 .. Len(queue[s])
            BY <1>4, <2>2, <3>1, Beyond
        <3>3. n - Len(taken[s]) \in DOMAIN queue[s]
            BY <1>4, <3>2
        <3> QED
            BY <1>5, <2>2, <3>3 DEF PlacesInLog
    <2> QED
        BY <2>1, <2>2
<1> QED
    BY <1>3, <1>6, EventHubAssumption DEF Events

\* An event that is offered to a stream is put into its queue or dropped.
LEMMA OfferOutcome ==
    ASSUME HubTypeOK, NEW s \in Streams, NEW e \in Events, Offer(s, e),
           UNCHANGED taken, e \notin GivenEvents(s), Distinct(Given(s))
    PROVE  /\ queue' \in [Streams -> Seq(Events)]
           /\ \A r \in Streams : Len(queue'[r]) <= MaxQueue
           /\ dropped' \in [Streams -> SUBSET Events]
           /\ \A r \in Streams : r # s => /\ queue'[r] = queue[r] /\ dropped'[r] = dropped[r]
                                          /\ Given(r)' = Given(r)
           /\ \A n \in DOMAIN queue'[s] : queue'[s][n] = e \/ \E m \in DOMAIN queue[s] :
                                              queue'[s][n] = queue[s][m]
           /\ Distinct(Given(s)')
           /\ GivenEvents(s)' \subseteq GivenEvents(s) \cup {e}
           /\ GivenEvents(s) \subseteq GivenEvents(s)'
           /\ dropped[s] \subseteq dropped'[s]
           /\ e \in GivenEvents(s)' \cup dropped'[s]
<1>1. /\ taken[s] \in Seq(Events) /\ queue[s] \in Seq(Events) /\ Given(s) \in Seq(Events)
      /\ GivenEvents(s) = Elements(Given(s))
    BY GivenIsASequence
<1>2. /\ queue \in [Streams -> Seq(Events)] /\ dropped \in [Streams -> SUBSET Events]
      /\ \A r \in Streams : Len(queue[r]) <= MaxQueue
    BY DEF HubTypeOK
<1>3. CASE Room(s) /\ queue' = [queue EXCEPT ![s] = Append(@, e)] /\ UNCHANGED dropped
    <2> DEFINE q == Append(queue[s], e)
    <2>1. /\ q \in Seq(Events) /\ Len(q) = Len(queue[s]) + 1
          /\ \A n \in 1 .. Len(queue[s]) : q[n] = queue[s][n]
          /\ q[Len(queue[s]) + 1] = e
        BY <1>1, AppendProperties
    <2>2. /\ Len(queue[s]) \in Nat /\ DOMAIN queue[s] = 1 .. Len(queue[s])
          /\ DOMAIN q = 1 .. Len(q)
        BY <1>1, <2>1, LenProperties
    <2>3. queue' = [queue EXCEPT ![s] = q]
        BY <1>3
    <2>4. taken[s] \o q = Append(Given(s), e)
        <3>1. \A p, r \in Seq(Events) : p \o Append(r, e) = Append(p \o r, e)
            BY AppendLast
        <3> QED
            BY <1>1, <3>1 DEF Given
    <2> HIDE DEF q
    <2>5. /\ queue' \in [Streams -> Seq(Events)] /\ queue'[s] = q
          /\ \A r \in Streams : r # s => queue'[r] = queue[r]
        BY <1>2, <2>1, <2>3
    <2>6. \A r \in Streams : Len(queue'[r]) <= MaxQueue
        BY <1>2, <1>3, <2>1, <2>2, <2>5, EventHubAssumption DEF Room
    <2>7. \A n \in DOMAIN q : q[n] = e \/ \E m \in DOMAIN queue[s] : q[n] = queue[s][m]
        BY <2>1, <2>2
    <2>8. Given(s)' = Append(Given(s), e)
        BY <2>4, <2>5 DEF Given
    <2>9. /\ Distinct(Given(s)')
          /\ GivenEvents(s)' = GivenEvents(s) \cup {e}
        <3>1. GivenEvents(s)' = Elements(Given(s)')
            BY DEF GivenEvents, Elements
        <3> QED
            BY <1>1, <2>8, <3>1, AppendElements
    <2>10. \A r \in Streams : r # s => Given(r)' = Given(r)
        BY <2>5 DEF Given
    <2> QED
        BY <1>2, <1>3, <2>5, <2>6, <2>7, <2>9, <2>10
<1>4. CASE ~Room(s) /\ dropped' = [dropped EXCEPT ![s] = @ \cup {e}] /\ UNCHANGED queue
    <2>1. /\ dropped' \in [Streams -> SUBSET Events]
          /\ \A r \in Streams : r # s => dropped'[r] = dropped[r]
          /\ dropped'[s] = dropped[s] \cup {e}
        <3> DEFINE more == dropped[s] \cup {e}
        <3>1. dropped' = [dropped EXCEPT ![s] = more] /\ more \in SUBSET Events
            BY <1>2, <1>4
        <3> HIDE DEF more
        <3>2. /\ dropped' \in [Streams -> SUBSET Events]
              /\ \A r \in Streams : r # s => dropped'[r] = dropped[r]
              /\ dropped'[s] = more
            BY <1>2, <3>1
        <3> QED
            BY <3>2 DEF more
    <2>2. \A r \in Streams : Given(r)' = Given(r) /\ GivenEvents(r)' = GivenEvents(r)
        BY <1>4 DEF Given, GivenEvents
    <2> QED
        BY <1>2, <1>4, <2>1, <2>2
<1> QED
    BY <1>3, <1>4 DEF Offer
-----------------------------------------------------------------------------
(* The steps of the hub                                                    *)

\* Once an event that was to come to a stream is offered to it, it is there or
\* dropped, and nothing else has changed.
LEMMA OfferKeeps ==
    ASSUME HubInv, NEW s \in Streams, NEW e \in DOMAIN log, Offer(s, e),
           e \in ToCome(s), stream[s].pc \notin BeforeOpen,
           UNCHANGED <<log, recent, listener, taken, since, stream>>,
           replay' \in [Streams -> SUBSET Events],
           \A r \in Streams : replay'[r] \subseteq replay[r],
           fan' \in [event : Events \cup {0}, to : SUBSET Streams, given : SUBSET Streams],
           fan'.event = fan.event, fan'.to = fan.to, fan' # NoFan => fan # NoFan,
           \A r \in Streams : r \in Addressees' => r \in Addressees,
           \A r \in Streams : ToCome(r)' = IF r = s THEN ToCome(r) \ {e} ELSE ToCome(r)
    PROVE  HubInv'
<1>1. /\ HubTypeOK /\ PlacesInLog /\ NothingBeforeOpen /\ RecentAreLast
      /\ \A r \in Streams : OnceOf(r) /\ AllOf(r)
    BY OnceOfAll, AllOfAll DEF HubInv
<1>2. /\ log \in Seq(Names) /\ DOMAIN log = 1 .. Len(log) /\ Len(log) \in Nat
      /\ Len(log) <= MaxEvents /\ e \in Events /\ e <= Len(log)
    BY <1>1, LenProperties, EventHubAssumption DEF HubTypeOK, Events
<1>3. /\ queue' \in [Streams -> Seq(Events)]
      /\ \A r \in Streams : Len(queue'[r]) <= MaxQueue
      /\ dropped' \in [Streams -> SUBSET Events]
      /\ \A r \in Streams : r # s => /\ queue'[r] = queue[r] /\ dropped'[r] = dropped[r]
                                     /\ Given(r)' = Given(r)
      /\ \A n \in DOMAIN queue'[s] : queue'[s][n] = e \/ \E m \in DOMAIN queue[s] :
                                         queue'[s][n] = queue[s][m]
      /\ Distinct(Given(s)')
      /\ GivenEvents(s)' \subseteq GivenEvents(s) \cup {e}
      /\ GivenEvents(s) \subseteq GivenEvents(s)'
      /\ dropped[s] \subseteq dropped'[s]
      /\ e \in GivenEvents(s)' \cup dropped'[s]
    <2>1. e \notin GivenEvents(s) /\ Distinct(Given(s))
        BY <1>1 DEF OnceOf
    <2> QED
        BY <1>1, <1>2, <2>1, OfferOutcome
<1>4. HubTypeOK'
    BY <1>1, <1>3 DEF HubTypeOK
<1>5. PlacesInLog'
    <2>1. ASSUME NEW r \in Streams
          PROVE  /\ replay'[r] \subseteq DOMAIN log
                 /\ \A n \in DOMAIN queue'[r] : queue'[r][n] <= Len(log)
        <3>1. /\ replay[r] \subseteq DOMAIN log
              /\ \A n \in DOMAIN queue[r] : queue[r][n] <= Len(log)
            BY <1>1 DEF PlacesInLog
        <3>2. CASE r = s
            BY <1>2, <1>3, <3>1, <3>2
        <3>3. CASE r # s
            BY <1>3, <3>1, <3>3
        <3> QED
            BY <3>2, <3>3
    <2> QED
        BY <1>1, <2>1 DEF PlacesInLog
<1>6. NothingBeforeOpen'
    BY <1>1, <1>3 DEF NothingBeforeOpen
<1>7. RecentAreLast'
    BY <1>1 DEF RecentAreLast
<1>8. \A r \in Streams : r # s => GivenEvents(r)' = GivenEvents(r)
    BY <1>3 DEF GivenEvents
<1>9. ASSUME NEW r \in Streams
      PROVE  OnceOf(r)'
    <2>1. CASE r = s
        BY <1>1, <1>3, <2>1 DEF OnceOf
    <2>2. CASE r # s
        BY <1>1, <1>3, <1>8, <2>2 DEF OnceOf
    <2> QED
        BY <2>1, <2>2
<1>10. ASSUME NEW r \in Streams
       PROVE  AllOf(r)'
    <2>1. \A t, n : Hears(r, t)' = Hears(r, t) /\ LastOn(t, n)' = LastOn(t, n)
        BY DEF Hears, LastOn
    <2>2. SUFFICES ASSUME listener[r].on, NEW d \in DOMAIN log, Hears(r, log[d]),
                          d > since[r] \/ d \in LastOn(log[d], since[r])
                   PROVE  d \in GivenEvents(r)' \cup ToCome(r)' \cup dropped'[r]
        BY <2>1 DEF AllOf
    <2>3. d \in GivenEvents(r) \cup ToCome(r) \cup dropped[r]
        BY <1>1, <2>2 DEF AllOf
    <2>4. CASE r = s
        BY <1>3, <2>3, <2>4
    <2>5. CASE r # s
        BY <1>3, <1>8, <2>3, <2>5
    <2> QED
        BY <2>4, <2>5
<1> QED
    BY <1>4, <1>5, <1>6, <1>7, <1>9, <1>10, OnceOfAll, AllOfAll DEF HubInv

\* An event that is queued, or that finds the queue full, keeps the
\* invariant.
LEMMA DeliverKeeps ==
    ASSUME HubInv, NEW s \in Streams, Deliver(s), UNCHANGED stream
    PROVE  HubInv'
<1>1. /\ HubTypeOK /\ PlacesInLog /\ NothingBeforeOpen
      /\ \A r \in Streams : OnceOf(r)
    BY OnceOfAll DEF HubInv
<1>2. /\ fan \in [event : Events \cup {0}, to : SUBSET Streams, given : SUBSET Streams]
      /\ fan # NoFan /\ s \in fan.to /\ s \notin fan.given
      /\ Offer(s, fan.event)
      /\ fan' = [fan EXCEPT !.given = @ \cup {s}]
      /\ UNCHANGED <<log, recent, listener, replay, taken, since>>
    BY <1>1 DEF Deliver, HubTypeOK, Addressees
<1>3. fan.event \in DOMAIN log
    BY <1>1, <1>2, LenProperties, EmptySeq DEF PlacesInLog, HubTypeOK
<1>4. /\ fan' \in [event : Events \cup {0}, to : SUBSET Streams, given : SUBSET Streams]
      /\ fan'.event = fan.event /\ fan'.to = fan.to /\ fan'.given = fan.given \cup {s}
    BY <1>2
<1>5. fan' # NoFan
    BY <1>3, <1>4, LenProperties, <1>1 DEF NoFan, HubTypeOK
<1>6. \A r \in Streams : r \in Addressees' <=> r \in Addressees /\ r # s
    BY <1>4 DEF Addressees
<1>7. s \in Addressees /\ fan.event \notin replay[s]
    BY <1>1, <1>2 DEF OnceOf, Addressees
<1>8. \A r \in Streams : ToCome(r)' = IF r = s THEN ToCome(r) \ {fan.event} ELSE ToCome(r)
    BY <1>2, <1>4, <1>5, <1>6, <1>7 DEF ToCome
<1>9. fan.event \in ToCome(s) /\ stream[s].pc \notin BeforeOpen
    BY <1>1, <1>2, <1>7 DEF ToCome, NothingBeforeOpen
<1>10. replay' \in [Streams -> SUBSET Events]
    BY <1>1, <1>2 DEF HubTypeOK
<1> QED
    BY <1>2, <1>3, <1>4, <1>5, <1>6, <1>8, <1>9, <1>10, OfferKeeps

\* So does an event of the replay.
LEMMA ReplayKeeps ==
    ASSUME HubInv, NEW s \in Streams, Replay(s), UNCHANGED stream
    PROVE  HubInv'
<1>1. /\ HubTypeOK /\ PlacesInLog /\ NothingBeforeOpen
      /\ \A r \in Streams : OnceOf(r)
    BY OnceOfAll DEF HubInv
<1>2. PICK e \in replay[s] : Offer(s, e) /\ replay' = [replay EXCEPT ![s] = @ \ {e}]
    BY DEF Replay
<1>3. UNCHANGED <<log, recent, listener, fan, taken, since>>
    BY DEF Replay
<1>4. e \in DOMAIN log
    BY <1>1, <1>2 DEF PlacesInLog
<1>5. /\ replay' \in [Streams -> SUBSET Events]
      /\ \A r \in Streams : replay'[r] = IF r = s THEN replay[r] \ {e} ELSE replay[r]
    BY <1>1, <1>2 DEF HubTypeOK
<1>6. s \in Addressees => fan.event # e
    BY <1>1, <1>2 DEF OnceOf
<1>7. UNCHANGED Addressees
    BY <1>3 DEF Addressees
<1>8. \A r \in Streams : ToCome(r)' = IF r = s THEN ToCome(r) \ {e} ELSE ToCome(r)
    BY <1>3, <1>5, <1>6, <1>7 DEF ToCome
<1>9. e \in ToCome(s) /\ stream[s].pc \notin BeforeOpen
    BY <1>1, <1>2 DEF ToCome, NothingBeforeOpen
<1>10. fan' \in [event : Events \cup {0}, to : SUBSET Streams, given : SUBSET Streams]
    BY <1>1, <1>3 DEF HubTypeOK
<1> QED
    BY <1>2, <1>3, <1>4, <1>5, <1>7, <1>8, <1>9, <1>10, OfferKeeps

\* A step that moves no event to or from a stream.
LEMMA SameGivenKeeps ==
    ASSUME HubInv, UNCHANGED <<log, recent, listener, replay, dropped, since>>,
           HubTypeOK', PlacesInLog', NothingBeforeOpen',
           \A r \in Streams : Given(r)' = Given(r) /\ ToCome(r)' = ToCome(r),
           \A r \in Streams : r \in Addressees' => r \in Addressees /\ fan'.event = fan.event
    PROVE  HubInv'
<1>1. /\ RecentAreLast
      /\ \A r \in Streams : OnceOf(r) /\ AllOf(r)
    BY OnceOfAll, AllOfAll DEF HubInv
<1>2. RecentAreLast'
    BY <1>1 DEF RecentAreLast
<1>3. \A r \in Streams : GivenEvents(r)' = GivenEvents(r)
    BY DEF GivenEvents
<1>4. ASSUME NEW r \in Streams
      PROVE  OnceOf(r)' /\ AllOf(r)'
    <2>1. OnceOf(r)'
        BY <1>1, <1>3 DEF OnceOf
    <2>2. \A t, n : Hears(r, t)' = Hears(r, t) /\ LastOn(t, n)' = LastOn(t, n)
        BY DEF Hears, LastOn
    <2>3. AllOf(r)'
        BY <1>1, <1>3, <2>2 DEF AllOf
    <2> QED
        BY <2>1, <2>3
<1> QED
    BY <1>2, <1>4, OnceOfAll, AllOfAll DEF HubInv

\* And one that the stream takes out of its queue.
LEMMA TakeKeeps ==
    ASSUME HubInv, NEW s \in Streams, Take(s), UNCHANGED stream
    PROVE  HubInv'
<1>1. HubTypeOK /\ PlacesInLog /\ NothingBeforeOpen
    BY DEF HubInv
<1>2. /\ taken[s] \in Seq(Events) /\ queue[s] \in Seq(Events) /\ queue[s] # <<>>
      /\ taken' = [taken EXCEPT ![s] = Append(@, Head(queue[s]))]
      /\ queue' = [queue EXCEPT ![s] = Tail(@)]
      /\ UNCHANGED <<log, recent, listener, replay, fan, dropped, since>>
    BY <1>1 DEF Take, HubTypeOK
<1> DEFINE p == Append(taken[s], Head(queue[s]))
           q == Tail(queue[s])
<1>3. /\ Head(queue[s]) = queue[s][1] /\ Head(queue[s]) \in Events
      /\ q \in Seq(Events) /\ Len(q) = Len(queue[s]) - 1
      /\ \A n \in 1 .. Len(q) : q[n] = queue[s][n + 1]
    BY <1>2, HeadTailProperties
<1>4. /\ p \in Seq(Events) /\ Len(p) = Len(taken[s]) + 1
      /\ \A n \in 1 .. Len(taken[s]) : p[n] = taken[s][n]
      /\ p[Len(taken[s]) + 1] = queue[s][1]
    BY <1>2, <1>3, AppendProperties
<1>5. p \o q = Given(s)
    <2>1. \A a, b \in Seq(Events) : b # <<>> => Append(a, Head(b)) \o Tail(b) = a \o b
        BY MoveHead
    <2> QED
        BY <1>2, <2>1 DEF Given
<1>6. taken' = [taken EXCEPT ![s] = p] /\ queue' = [queue EXCEPT ![s] = q]
    BY <1>2
<1> HIDE DEF p, q
<1>7. /\ taken' \in [Streams -> Seq(Events)] /\ taken'[s] = p
      /\ queue' \in [Streams -> Seq(Events)] /\ queue'[s] = q
      /\ \A r \in Streams : r # s => taken'[r] = taken[r] /\ queue'[r] = queue[r]
    BY <1>1, <1>3, <1>4, <1>6 DEF HubTypeOK
<1>8. /\ DOMAIN p = 1 .. Len(p) /\ DOMAIN q = 1 .. Len(q)
      /\ DOMAIN taken[s] = 1 .. Len(taken[s]) /\ DOMAIN queue[s] = 1 .. Len(queue[s])
      /\ Len(taken[s]) \in Nat /\ Len(queue[s]) \in Nat \ {0}
    BY <1>2, <1>3, <1>4, LenProperties, EmptySeq
<1>9. \A r \in Streams : Len(queue'[r]) <= MaxQueue
    <2>1. \A r \in Streams : Len(queue[r]) <= MaxQueue
        BY <1>1 DEF HubTypeOK
    <2>2. Len(queue[s]) <= MaxQueue /\ MaxQueue \in Nat
        BY <2>1, EventHubAssumption
    <2>3. Len(q) <= MaxQueue
        BY <1>3, <1>8, <2>2
    <2> QED
        BY <1>7, <2>1, <2>3
<1>10. HubTypeOK'
    BY <1>1, <1>2, <1>7, <1>9 DEF HubTypeOK
<1>11. PlacesInLog'
    <2>1. /\ \A n \in DOMAIN queue[s] : queue[s][n] <= Len(log)
          /\ \A n \in DOMAIN taken[s] : taken[s][n] <= Len(log)
        BY <1>1 DEF PlacesInLog
    <2>2. ASSUME NEW n \in DOMAIN q
          PROVE  q[n] <= Len(log)
        <3>1. n \in 1 .. Len(q) /\ n + 1 \in 1 .. Len(queue[s])
            BY <1>3, <1>8, <2>2
        <3>2. q[n] = queue[s][n + 1] /\ n + 1 \in DOMAIN queue[s]
            BY <1>3, <1>8, <3>1
        <3> QED
            BY <2>1, <3>2
    <2>3. ASSUME NEW n \in DOMAIN p
          PROVE  p[n] <= Len(log)
        <3>1. n \in 1 .. Len(taken[s]) \/ n = Len(taken[s]) + 1
            BY <1>4, <1>8, <2>3
        <3>2. CASE n \in 1 .. Len(taken[s])
            <4>1. p[n] = taken[s][n] /\ n \in DOMAIN taken[s]
                BY <1>4, <1>8, <3>2
            <4> QED
                BY <2>1, <4>1
        <3>3. CASE n = Len(taken[s]) + 1
            <4>1. 1 \in DOMAIN queue[s] /\ p[n] = queue[s][1]
                BY <1>4, <1>8, <3>3
            <4> QED
                BY <2>1, <4>1
        <3> QED
            BY <3>1, <3>2, <3>3
    <2>4. ASSUME NEW r \in Streams
          PROVE  /\ \A n \in DOMAIN queue'[r] : queue'[r][n] <= Len(log)
                 /\ \A n \in DOMAIN taken'[r] : taken'[r][n] <= Len(log)
        BY <1>1, <1>7, <2>2, <2>3 DEF PlacesInLog
    <2> QED
        BY <1>1, <1>2, <2>4 DEF PlacesInLog
<1>12. NothingBeforeOpen'
    BY <1>1, <1>2, <1>7 DEF NothingBeforeOpen
<1>13. \A r \in Streams : Given(r)' = Given(r)
    BY <1>5, <1>7 DEF Given
<1>14. \A r \in Streams : ToCome(r)' = ToCome(r)
    BY <1>2 DEF ToCome, Addressees
<1>15. \A r \in Streams : r \in Addressees' => r \in Addressees /\ fan'.event = fan.event
    BY <1>2 DEF Addressees
<1> QED
    BY <1>2, <1>10, <1>11, <1>12, <1>13, <1>14, <1>15, SameGivenKeeps

\* The end of handing out an event keeps it: everybody was asked.
LEMMA PublishedKeeps ==
    ASSUME HubInv, Published, UNCHANGED stream
    PROVE  HubInv'
<1>1. HubTypeOK /\ PlacesInLog /\ NothingBeforeOpen
    BY DEF HubInv
<1>2. /\ Addressees = {} /\ fan' = NoFan
      /\ UNCHANGED <<log, recent, listener, replay, queue, taken, dropped, since>>
    BY DEF Published
<1>3. HubTypeOK'
    BY <1>1, <1>2 DEF HubTypeOK, NoFan
<1>4. PlacesInLog' /\ NothingBeforeOpen'
    BY <1>1, <1>2 DEF PlacesInLog, NothingBeforeOpen, NoFan
<1>5. \A r \in Streams : Given(r)' = Given(r)
    BY <1>2 DEF Given
<1>6. \A r \in Streams : ToCome(r)' = ToCome(r)
    BY <1>2 DEF ToCome
<1>7. Addressees' = {}
    BY <1>2 DEF Addressees, NoFan
<1> QED
    BY <1>2, <1>3, <1>4, <1>5, <1>6, <1>7, SameGivenKeeps

\* What a request does before it listens is nothing to the hub.
LEMMA WatchingKeeps ==
    ASSUME HubInv, UNCHANGED hubVars,
           \A s \in Streams : stream'[s].pc \in BeforeOpen => stream[s].pc \in BeforeOpen
    PROVE  HubInv'
<1>1. HubTypeOK /\ PlacesInLog /\ NothingBeforeOpen
    BY DEF HubInv
<1>2. UNCHANGED <<log, recent, listener, replay, fan, queue, taken, dropped, since>>
    BY DEF hubVars
<1>3. HubTypeOK' /\ PlacesInLog' /\ NothingBeforeOpen'
    <2>1. HubTypeOK'
        BY <1>1, <1>2 DEF HubTypeOK
    <2>2. PlacesInLog'
        BY <1>1, <1>2 DEF PlacesInLog
    <2>3. NothingBeforeOpen'
        BY <1>1, <1>2 DEF NothingBeforeOpen
    <2> QED
        BY <2>1, <2>2, <2>3
<1>4. \A r \in Streams : Given(r)' = Given(r)
    BY <1>2 DEF Given
<1>5. Addressees' = Addressees
    BY <1>2 DEF Addressees
<1>6. \A r \in Streams : ToCome(r)' = ToCome(r)
    BY <1>2, <1>5 DEF ToCome
<1> QED
    BY <1>2, <1>3, <1>4, <1>5, <1>6, SameGivenKeeps

\* A new event keeps it: it is one that nobody was given, and is to come to
\* everybody who hears it.
LEMMA PublishKeeps ==
    ASSUME HubInv, NEW t \in Names, Publish(t), UNCHANGED stream
    PROVE  HubInv'
<1>1. /\ HubTypeOK /\ PlacesInLog /\ NothingBeforeOpen /\ RecentAreLast
      /\ \A r \in Streams : OnceOf(r) /\ AllOf(r)
    BY OnceOfAll, AllOfAll DEF HubInv
<1> DEFINE e == Len(log) + 1
<1>2. /\ log \in Seq(Names) /\ Len(log) \in Nat /\ DOMAIN log = 1 .. Len(log)
      /\ fan = NoFan /\ Len(log) < MaxEvents
      /\ log' = Append(log, t)
      /\ UNCHANGED <<listener, replay, queue, taken, dropped, since>>
    BY <1>1, LenProperties DEF Publish, HubTypeOK
<1>3. /\ log' \in Seq(Names) /\ Len(log') = e /\ DOMAIN log' = 1 .. e
      /\ \A n \in 1 .. Len(log) : log'[n] = log[n]
      /\ log'[e] = t
    <2>1. /\ log' \in Seq(Names) /\ Len(log') = e
          /\ \A n \in 1 .. Len(log) : log'[n] = log[n]
          /\ log'[e] = t
        BY <1>2, AppendProperties
    <2> QED
        BY <2>1, LenProperties
<1>4. /\ recent' = [recent EXCEPT ![t] = Remember(recent[t], e)]
      /\ fan' = [event |-> e, to |-> Listeners(t), given |-> {}]
    BY <1>3 DEF Publish
<1>5. e \in Events /\ e \in Nat /\ Len(log') <= MaxEvents
    BY <1>2, <1>3, EventHubAssumption DEF Events
<1> HIDE DEF e
<1>6. /\ recent[t] \in Seq(Events) /\ Len(recent[t]) <= MaxRecent
      /\ Len(recent[t]) \in Nat /\ DOMAIN recent[t] = 1 .. Len(recent[t])
    <2>1. recent[t] \in Seq(Events) /\ Len(recent[t]) <= MaxRecent
        BY <1>1 DEF HubTypeOK
    <2> QED
        BY <2>1, LenProperties
<1> DEFINE q == Remember(recent[t], e)
<1>7. /\ q \in Seq(Events) /\ Len(q) <= MaxRecent
      /\ \/ /\ Len(recent[t]) < MaxRecent /\ Len(q) = Len(recent[t]) + 1
            /\ \A n \in 1 .. Len(recent[t]) : q[n] = recent[t][n]
            /\ q[Len(recent[t]) + 1] = e
         \/ /\ Len(recent[t]) = MaxRecent /\ Len(q) = Len(recent[t])
            /\ \A n \in 1 .. Len(recent[t]) - 1 : q[n] = recent[t][n + 1]
            /\ q[Len(recent[t])] = e
    <2>1. \A r \in Seq(Events) : Len(r) <= MaxRecent =>
            /\ Remember(r, e) \in Seq(Events)
            /\ Len(Remember(r, e)) <= MaxRecent
            /\ \/ /\ Len(r) < MaxRecent /\ Len(Remember(r, e)) = Len(r) + 1
                  /\ \A n \in 1 .. Len(r) : Remember(r, e)[n] = r[n]
                  /\ Remember(r, e)[Len(r) + 1] = e
               \/ /\ Len(r) = MaxRecent /\ Len(Remember(r, e)) = Len(r)
                  /\ \A n \in 1 .. Len(r) - 1 : Remember(r, e)[n] = r[n + 1]
                  /\ Remember(r, e)[Len(r)] = e
        BY <1>5, RememberShifts
    <2> QED
        BY <1>6, <2>1
<1> HIDE DEF q
<1>8. /\ recent' \in [Names -> Seq(Events)] /\ recent'[t] = q
      /\ \A u \in Names : u # t => recent'[u] = recent[u]
    BY <1>1, <1>4, <1>7 DEF HubTypeOK, q
<1>9. DOMAIN q = 1 .. Len(q)
    BY <1>7, LenProperties
<1>10. MaxRecent \in Nat \ {0}
    BY EventHubAssumption
<1>11. HubTypeOK'
    <2>1. \A u \in Names : Len(recent'[u]) <= MaxRecent
        BY <1>1, <1>7, <1>8 DEF HubTypeOK
    <2>2. fan' \in [event : Events \cup {0}, to : SUBSET Streams, given : SUBSET Streams]
        BY <1>4, <1>5 DEF Listeners
    <2> QED
        BY <1>1, <1>2, <1>3, <1>5, <1>8, <2>1, <2>2 DEF HubTypeOK
\* What was remembered is older, and on the topic.
<1>12. \A n \in 1 .. Len(recent[t]) :
           recent[t][n] \in 1 .. Len(log) /\ log[recent[t][n]] = t
    <2>1. recent[t] \in [1 .. Len(recent[t]) -> Events]
        BY <1>6, LenProperties
    <2>2. \A n \in 1 .. Len(recent[t]) : recent[t][n] <= Len(log) /\ log[recent[t][n]] = t
        BY <1>1, <1>6 DEF PlacesInLog
    <2> QED
        BY <1>2, <2>1, <2>2, EventHubAssumption DEF Events
<1>13. ASSUME NEW n \in 1 .. Len(q)
       PROVE  \/ q[n] = e
              \/ q[n] \in 1 .. Len(log) /\ log[q[n]] = t
    <2>1. CASE Len(q) = Len(recent[t]) + 1 /\ Len(recent[t]) < MaxRecent
        <3>1. n \in 1 .. Len(recent[t]) \/ n = Len(recent[t]) + 1
            BY <1>6, <2>1
        <3> QED
            BY <1>6, <1>7, <1>12, <2>1, <3>1
    <2>2. CASE Len(q) = Len(recent[t]) /\ Len(recent[t]) = MaxRecent
        <3>1. \/ n = Len(recent[t])
              \/ n \in 1 .. Len(recent[t]) - 1 /\ n + 1 \in 1 .. Len(recent[t])
            BY <1>6, <2>2
        <3> QED
            BY <1>6, <1>7, <1>10, <1>12, <2>2, <3>1
    <2> QED
        BY <1>7, <2>1, <2>2
<1>14. PlacesInLog'
    <2>1. \A u \in Names : \A n \in DOMAIN recent'[u] :
              recent'[u][n] <= e /\ log'[recent'[u][n]] = u
        <3>1. ASSUME NEW u \in Names, u # t, NEW n \in DOMAIN recent[u]
              PROVE  recent[u][n] <= e /\ log'[recent[u][n]] = u
            <4>1. recent[u][n] <= Len(log) /\ log[recent[u][n]] = u
                BY <1>1, <3>1 DEF PlacesInLog
            <4>2. recent[u] \in Seq(Events)
                BY <1>1 DEF HubTypeOK
            <4>3. recent[u][n] \in Events
                BY <3>1, <4>2, ElementOfSeq, LenProperties
            <4>4. recent[u][n] \in 1 .. Len(log)
                BY <1>2, <4>1, <4>3, EventHubAssumption DEF Events
            <4> QED
                BY <1>2, <1>3, <4>1, <4>4 DEF e
        <3>2. ASSUME NEW n \in DOMAIN q
              PROVE  q[n] <= e /\ log'[q[n]] = t
            <4>1. q[n] = e \/ (q[n] \in 1 .. Len(log) /\ log[q[n]] = t)
                BY <1>9, <1>13
            <4>2. CASE q[n] = e
                BY <1>3, <1>5, <4>2
            <4>3. CASE q[n] \in 1 .. Len(log) /\ log[q[n]] = t
                <5>1. log'[q[n]] = t
                    BY <1>3, <4>3
                <5>2. q[n] <= e
                    BY <1>2, <4>3 DEF e
                <5> QED
                    BY <5>1, <5>2
            <4> QED
                BY <4>1, <4>2, <4>3
        <3> QED
            BY <1>8, <3>1, <3>2
    <2>2. ASSUME NEW s \in Streams
          PROVE  /\ replay[s] \subseteq DOMAIN log'
                 /\ \A n \in DOMAIN queue[s] : queue[s][n] <= e
                 /\ \A n \in DOMAIN taken[s] : taken[s][n] <= e
                 /\ since[s] <= e
        <3>1. /\ replay[s] \subseteq 1 .. Len(log)
              /\ \A n \in DOMAIN queue[s] : queue[s][n] <= Len(log)
              /\ \A n \in DOMAIN taken[s] : taken[s][n] <= Len(log)
              /\ since[s] <= Len(log)
            BY <1>1, <1>2 DEF PlacesInLog
        <3>2. /\ queue[s] \in Seq(Events) /\ taken[s] \in Seq(Events)
              /\ since[s] \in Nat
            BY <1>1, EventHubAssumption DEF HubTypeOK
        <3>3. /\ \A n \in DOMAIN queue[s] : queue[s][n] \in Nat
              /\ \A n \in DOMAIN taken[s] : taken[s][n] \in Nat
            BY <3>2, ElementOfSeq, LenProperties, EventHubAssumption DEF Events
        <3> QED
            BY <1>2, <1>3, <3>1, <3>2, <3>3 DEF e
    <2>3. fan'.event = Len(log') /\ log' # <<>>
        BY <1>2, <1>3, <1>4, EmptySeq DEF e
    <2> QED
        BY <1>2, <1>3, <2>1, <2>2, <2>3 DEF PlacesInLog
<1>15. NothingBeforeOpen'
    BY <1>1, <1>2, <1>4 DEF NothingBeforeOpen, Listeners
<1>16. RecentAreLast'
    <2>1. ASSUME NEW u \in Names, u # t
          PROVE  RecentOf(u)'
        <3>1. RecentOf(u)
            BY <1>1 DEF RecentAreLast, RecentOf
        <3>2. recent'[u] = recent[u]
            BY <1>8, <2>1
        <3>3. \A d \in DOMAIN log' : log'[d] = u => d \in DOMAIN log /\ log[d] = u
            BY <1>2, <1>3, <2>1 DEF e
        <3> QED
            BY <3>1, <3>2, <3>3 DEF RecentOf
    <2>2. RecentOf(t)'
        <3>1. /\ \A m, n \in 1 .. Len(recent[t]) : m < n => recent[t][m] < recent[t][n]
              /\ \A d \in DOMAIN log : log[d] = t =>
                   \/ \E n \in 1 .. Len(recent[t]) : recent[t][n] = d
                   \/ (Len(recent[t]) = MaxRecent /\ d < recent[t][1])
            BY <1>1, <1>6 DEF RecentAreLast
        <3> DEFINE r == recent[t]
        <3>2. /\ \A n \in 1 .. Len(r) : r[n] \in 1 .. Len(log)
              /\ Len(r) \in Nat
            BY <1>6, <1>12
        <3>3. /\ \A m, n \in 1 .. Len(r) : m < n => r[m] < r[n]
              /\ \A d \in DOMAIN log : log[d] = t =>
                   \/ \E n \in 1 .. Len(r) : r[n] = d
                   \/ (Len(r) = MaxRecent /\ d < r[1])
            BY <3>1
        <3>4. \/ /\ Len(r) < MaxRecent /\ Len(q) = Len(r) + 1
                 /\ \A n \in 1 .. Len(r) : q[n] = r[n]
                 /\ q[Len(r) + 1] = e
              \/ /\ Len(r) = MaxRecent /\ Len(q) = Len(r)
                 /\ \A n \in 1 .. Len(r) - 1 : q[n] = r[n + 1]
                 /\ q[Len(r)] = e
            BY <1>7
        <3> HIDE DEF r
        <3>5. e = Len(log) + 1
            BY DEF e
        <3>6. \A m, n \in 1 .. Len(q) : m < n => q[m] < q[n]
            <4>1. SUFFICES ASSUME NEW m \in 1 .. Len(q), NEW n \in 1 .. Len(q), m < n
                           PROVE  q[m] < q[n]
                OBVIOUS
            <4>2. CASE Len(q) = Len(r) + 1
                <5>1. m \in 1 .. Len(r) /\ q[m] = r[m]
                    BY <3>2, <3>4, <4>1, <4>2
                <5>2. CASE n = Len(r) + 1
                    <6>1. q[n] = e
                        BY <3>2, <3>4, <4>2, <5>2
                    <6> QED
                        BY <1>2, <3>2, <3>5, <5>1, <6>1
                <5>3. CASE n # Len(r) + 1
                    <6>1. n \in 1 .. Len(r) /\ q[n] = r[n]
                        BY <3>2, <3>4, <4>1, <4>2, <5>3
                    <6> QED
                        BY <3>3, <4>1, <5>1, <6>1
                <5> QED
                    BY <5>2, <5>3
            <4>3. CASE Len(q) = Len(r)
                <5>1. m \in 1 .. Len(r) - 1 /\ q[m] = r[m + 1] /\ m + 1 \in 1 .. Len(r)
                    BY <3>2, <3>4, <4>1, <4>3
                <5>2. CASE n = Len(r)
                    BY <1>2, <3>2, <3>4, <3>5, <4>3, <5>1, <5>2
                <5>3. CASE n # Len(r)
                    <6>1. /\ n \in 1 .. Len(r) - 1 /\ q[n] = r[n + 1] /\ n + 1 \in 1 .. Len(r)
                          /\ m + 1 < n + 1
                        BY <3>2, <3>4, <4>1, <4>3, <5>3
                    <6> QED
                        BY <3>3, <5>1, <6>1
                <5> QED
                    BY <5>2, <5>3
            <4> QED
                BY <3>4, <4>2, <4>3
        <3>7. ASSUME NEW d \in 1 .. e, log'[d] = t
              PROVE  \/ \E n \in 1 .. Len(q) : q[n] = d
                     \/ (Len(q) = MaxRecent /\ d < q[1])
            <4>1. CASE d = e
                BY <1>10, <3>2, <3>4, <4>1
            <4>2. CASE d # e
                <5>1. d \in DOMAIN log /\ log[d] = t
                    BY <1>2, <1>3, <3>5, <3>7, <4>2
                <5>2. CASE \E n \in 1 .. Len(r) : r[n] = d
                    <6>1. PICK n \in 1 .. Len(r) : r[n] = d
                        BY <5>2
                    <6>2. CASE Len(q) = Len(r) + 1
                        BY <3>2, <3>4, <6>1, <6>2
                    <6>3. CASE Len(q) = Len(r) /\ n > 1
                        <7>1. n - 1 \in 1 .. Len(r) - 1 /\ n - 1 \in 1 .. Len(q) /\ n - 1 + 1 = n
                            BY <3>2, <6>1, <6>3
                        <7>2. q[n - 1] = r[n]
                            BY <3>2, <3>4, <6>3, <7>1
                        <7> QED
                            BY <6>1, <7>1, <7>2
                    <6>4. CASE Len(q) = Len(r) /\ n = 1
                        <7>1. Len(q) = MaxRecent
                            BY <3>2, <3>4, <6>4
                        <7>2. CASE Len(r) = 1
                            <8>1. q[1] = e /\ d \in 1 .. Len(log)
                                BY <3>2, <3>4, <6>1, <6>4, <7>2
                            <8> QED
                                BY <1>2, <3>5, <7>1, <8>1
                        <7>3. CASE Len(r) # 1
                            <8>1. 1 \in 1 .. Len(r) - 1 /\ q[1] = r[2] /\ 2 \in 1 .. Len(r)
                                BY <3>2, <3>4, <6>1, <6>4, <7>3
                            <8> QED
                                BY <3>3, <6>1, <6>4, <7>1, <8>1
                        <7> QED
                            BY <7>2, <7>3
                    <6> QED
                        BY <3>2, <3>4, <6>1, <6>2, <6>3, <6>4
                <5>3. CASE Len(r) = MaxRecent /\ d < r[1]
                    <6>1. Len(q) = MaxRecent /\ Len(q) = Len(r)
                        BY <3>4, <5>3, <3>2, <1>10
                    <6>2. CASE Len(r) = 1
                        BY <1>2, <1>10, <3>2, <3>4, <3>5, <3>7, <4>2, <5>3, <6>1, <6>2
                    <6>3. CASE Len(r) # 1
                        <7>1. 1 \in 1 .. Len(r) - 1 /\ q[1] = r[2] /\ 2 \in 1 .. Len(r) /\ 1 \in 1 .. Len(r)
                            BY <1>10, <3>2, <3>4, <5>3, <6>1, <6>3
                        <7>2. r[1] < r[2] /\ r[1] \in Nat /\ r[2] \in Nat /\ d \in Nat
                            BY <3>2, <3>3, <3>7, <7>1, <1>2, <1>5
                        <7> QED
                            BY <5>3, <6>1, <7>1, <7>2
                    <6> QED
                        BY <6>2, <6>3
                <5> QED
                    BY <3>3, <5>1, <5>2, <5>3
            <4> QED
                BY <4>1, <4>2
        <3>8. recent'[t] = q /\ DOMAIN q = 1 .. Len(q) /\ DOMAIN log' = 1 .. e
            BY <1>2, <1>3, <1>8, <1>9 DEF e
        <3>9. \A m, n \in DOMAIN recent'[t] : m < n => recent'[t][m] < recent'[t][n]
            BY <3>6, <3>8
        <3>10. \A d \in DOMAIN log' : log'[d] = t =>
                   \/ \E n \in DOMAIN recent'[t] : recent'[t][n] = d
                   \/ (Len(recent'[t]) = MaxRecent /\ d < recent'[t][1])
            BY <3>7, <3>8
        <3> QED
            BY <3>9, <3>10 DEF RecentOf
    <2>3. \A u \in Names : RecentOf(u)'
        BY <2>1, <2>2
    <2> QED
        BY <2>3 DEF RecentAreLast, RecentOf
<1>17. \A r \in Streams : Given(r)' = Given(r) /\ GivenEvents(r)' = GivenEvents(r)
    BY <1>2 DEF Given, GivenEvents
<1>18. \A r \in Streams : e \notin GivenEvents(r) /\ e \notin replay[r]
    <2>1. \A r \in Streams : \A d \in GivenEvents(r) : d \in Nat /\ d <= Len(log)
        BY <1>1, GivenWasPublished
    <2>2. \A r \in Streams : replay[r] \subseteq 1 .. Len(log)
        BY <1>1, <1>2 DEF PlacesInLog
    <2> QED
        BY <1>2, <2>1, <2>2 DEF e
<1>19. \A r \in Streams :
           /\ ToCome(r) = replay[r]
           /\ r \in Addressees' <=> r \in Listeners(t)
           /\ ToCome(r)' = replay[r] \cup (IF r \in Listeners(t) THEN {e} ELSE {})
    <2>1. fan' # NoFan
        BY <1>2, <1>4 DEF NoFan, e
    <2>2. Addressees' = Listeners(t)
        BY <1>4 DEF Addressees
    <2> QED
        BY <1>2, <1>4, <2>1, <2>2 DEF ToCome
<1>20. ASSUME NEW r \in Streams
       PROVE  OnceOf(r)'
    <2>1. fan'.event = e
        BY <1>4
    <2> QED
        BY <1>1, <1>2, <1>17, <1>18, <1>19, <2>1 DEF OnceOf
<1>21. ASSUME NEW r \in Streams
       PROVE  AllOf(r)'
    <2> DEFINE Last(u) == {x \in 1 .. since[r] :
                              /\ log'[x] = u
                              /\ Cardinality({y \in x + 1 .. since[r] : log'[y] = u}) < MaxRecent}
    <2>1. SUFFICES ASSUME listener[r].on, NEW d \in 1 .. e, Hears(r, log'[d]),
                          d > since[r] \/ d \in Last(log'[d])
                   PROVE  d \in GivenEvents(r) \cup ToCome(r)' \cup dropped[r]
        BY <1>2, <1>3, <1>17 DEF AllOf, Hears, LastOn
    <2>3. CASE d = e
        <3>1. r \in Listeners(t)
            BY <1>3, <2>1, <2>3 DEF Listeners
        <3> QED
            BY <1>19, <2>3, <3>1
    <2>4. CASE d # e
        <3>1. d \in DOMAIN log /\ log'[d] = log[d]
            BY <1>2, <1>3, <2>1, <2>4 DEF e
        <3>2. since[r] \in Nat /\ since[r] <= Len(log)
            BY <1>1, EventHubAssumption DEF HubTypeOK, PlacesInLog
        <3>3. d \in Last(log'[d]) => d \in LastOn(log[d], since[r])
            <4>1. {m \in d + 1 .. since[r] : log'[m] = log'[d]} = {m \in d + 1 .. since[r] : log[m] = log[d]}
                <5>1. \A m \in d + 1 .. since[r] : m \in 1 .. Len(log) /\ log'[m] = log[m]
                    BY <1>2, <1>3, <3>1, <3>2
                <5> QED
                    BY <3>1, <5>1
            <4> QED
                BY <3>1, <4>1 DEF LastOn
        <3>4. d > since[r] \/ d \in LastOn(log[d], since[r])
            BY <2>1, <3>1, <3>3
        <3>5. d \in GivenEvents(r) \cup ToCome(r) \cup dropped[r]
            BY <1>1, <2>1, <3>1, <3>4 DEF AllOf
        <3> QED
            BY <1>19, <3>5
    <2> QED
        BY <2>3, <2>4
<1> QED
    BY <1>11, <1>14, <1>15, <1>16, <1>20, <1>21, OnceOfAll, AllOfAll DEF HubInv

\* A stream that begins to listen is to get the recent events, and every
\* later one.
LEMMA ListenKeeps ==
    ASSUME HubInv, stream \in [Streams -> Request], NEW s \in Streams, NEW o \in Orgs,
           Listen(s, o)
    PROVE  HubInv'
<1>1. /\ HubTypeOK /\ PlacesInLog /\ NothingBeforeOpen /\ RecentAreLast
      /\ \A r \in Streams : OnceOf(r) /\ AllOf(r)
    BY OnceOfAll, AllOfAll DEF HubInv
<1> DEFINE f == stream[s].filter
           new == [on |-> TRUE, org |-> o, filter |-> f]
<1>2. /\ stream[s].pc = "watched" /\ f \in Filters
      /\ listener' = [listener EXCEPT ![s] = new]
      /\ replay' = [replay EXCEPT ![s] = Recalled(f, o)]
      /\ since' = [since EXCEPT ![s] = Len(log)]
      /\ UNCHANGED <<log, recent, fan, queue, taken, dropped>>
      /\ stream' = [stream EXCEPT ![s].pc = "open"]
    BY DEF Listen, HubSubscribe, Goto, Request
<1>3. /\ log \in Seq(Names) /\ Len(log) \in Nat /\ DOMAIN log = 1 .. Len(log)
      /\ Len(log) <= MaxEvents /\ MaxEvents \in Nat
    BY <1>1, LenProperties, EventHubAssumption DEF HubTypeOK
<1>4. Recalled(f, o) \subseteq DOMAIN log
    <2>1. ASSUME NEW t \in Names, NEW n \in DOMAIN recent[t]
          PROVE  recent[t][n] \in DOMAIN log
        <3>1. recent[t] \in Seq(Events) /\ recent[t][n] <= Len(log)
            BY <1>1, <2>1 DEF HubTypeOK, PlacesInLog
        <3>2. recent[t][n] \in Events
            BY <2>1, <3>1, ElementOfSeq, LenProperties
        <3> QED
            BY <1>3, <3>1, <3>2 DEF Events
    <2> QED
        BY <2>1 DEF Recalled
<1>5. DOMAIN log \subseteq Events
    BY <1>3 DEF Events
<1>6. new \in [on : BOOLEAN, org : Orgs, filter : Filters \cup {<<>>}]
    BY <1>2
<1>7. /\ listener' \in [Streams -> [on : BOOLEAN, org : Orgs, filter : Filters \cup {<<>>}]]
      /\ listener'[s] = new
      /\ \A r \in Streams : r # s => listener'[r] = listener[r]
    <2> HIDE DEF new
    <2> QED
        BY <1>1, <1>2, <1>6 DEF HubTypeOK
<1>8. /\ replay' \in [Streams -> SUBSET Events] /\ replay'[s] = Recalled(f, o)
      /\ \A r \in Streams : r # s => replay'[r] = replay[r]
    BY <1>1, <1>2, <1>4, <1>5 DEF HubTypeOK
<1>9. /\ since' \in [Streams -> 0 .. MaxEvents] /\ since'[s] = Len(log)
      /\ \A r \in Streams : r # s => since'[r] = since[r]
    BY <1>1, <1>2, <1>3 DEF HubTypeOK
<1>10. HubTypeOK'
    BY <1>1, <1>2, <1>7, <1>8, <1>9 DEF HubTypeOK
<1>11. PlacesInLog'
    <2>1. ASSUME NEW r \in Streams
          PROVE  replay'[r] \subseteq DOMAIN log /\ since'[r] <= Len(log)
        BY SMTT(30), <1>1, <1>3, <1>4, <1>8, <1>9 DEF PlacesInLog
    <2> QED
        BY <1>1, <1>2, <2>1 DEF PlacesInLog
<1>12. /\ stream'[s].pc = "open"
       /\ \A r \in Streams : r # s => stream'[r] = stream[r]
    <2> USE DEF Request
    <2> QED
        BY <1>2
<1>13. NothingBeforeOpen'
    <2>1. ASSUME NEW r \in Streams, stream'[r].pc \in BeforeOpen
          PROVE  /\ ~listener'[r].on
                 /\ replay'[r] = {} /\ queue'[r] = <<>> /\ taken'[r] = <<>>
                 /\ r \notin fan'.to
        <3>1. r # s
            BY <1>12, <2>1 DEF BeforeOpen
        <3> QED
            BY <1>1, <1>2, <1>7, <1>8, <1>12, <2>1, <3>1 DEF NothingBeforeOpen
    <2> QED
        BY <2>1 DEF NothingBeforeOpen
<1>14. RecentAreLast'
    BY <1>1, <1>2 DEF RecentAreLast
<1>15. /\ \A r \in Streams : Given(r)' = Given(r) /\ GivenEvents(r)' = GivenEvents(r)
       /\ Addressees' = Addressees /\ fan' = fan
    BY <1>2 DEF Given, GivenEvents, Addressees
<1>16. /\ queue[s] = <<>> /\ taken[s] = <<>> /\ s \notin Addressees
    BY <1>1, <1>2 DEF NothingBeforeOpen, BeforeOpen, Addressees
<1>17. Given(s) = <<>> /\ GivenEvents(s) = {}
    <2>1. Given(s) = <<>>
        BY <1>16 DEF Given
    <2> QED
        BY <2>1 DEF GivenEvents
<1>18. \A r \in Streams : r # s => ToCome(r)' = ToCome(r)
    BY <1>8, <1>15 DEF ToCome
<1>19. ASSUME NEW r \in Streams
       PROVE  OnceOf(r)'
    <2>1. CASE r = s
        <3>1. GivenEvents(s)' = {} /\ s \notin Addressees' /\ Given(s)' = <<>>
            BY <1>15, <1>16, <1>17
        <3> QED
            BY <2>1, <3>1 DEF OnceOf, Distinct
    <2>2. CASE r # s
        BY <1>1, <1>8, <1>15, <1>18, <2>2 DEF OnceOf
    <2> QED
        BY <2>1, <2>2
<1>20. ASSUME NEW r \in Streams
       PROVE  AllOf(r)'
    <2>1. \A t, n : LastOn(t, n)' = LastOn(t, n)
        BY <1>2 DEF LastOn
    <2>2. CASE r = s
        <3>1. SUFFICES ASSUME NEW d \in DOMAIN log, Hears(s, log[d])',
                              d > Len(log) \/ d \in LastOn(log[d], Len(log))
                       PROVE  d \in Recalled(f, o)
            BY <1>2, <1>8, <1>9, <2>1, <2>2 DEF AllOf, ToCome
        <3>2. Matches(f, log[d]) /\ OrgOf[log[d]] = o /\ log[d] \in Names
            BY <1>2, <1>3, <1>7, <3>1 DEF Hears
        <3>3. d \in LastOn(log[d], Len(log))
            BY <1>3, <3>1
        <3>4. PICK n \in DOMAIN recent[log[d]] : recent[log[d]][n] = d
            BY <1>1, <3>1, <3>3, LastAreRecent
        <3> QED
            BY <3>2, <3>4 DEF Recalled
    <2>3. CASE r # s
        <3>1. \A t : Hears(r, t)' = Hears(r, t)
            BY <1>7, <2>3 DEF Hears
        <3> QED
            BY <1>1, <1>2, <1>7, <1>9, <1>15, <1>18, <2>1, <2>3, <3>1 DEF AllOf
    <2> QED
        BY <2>2, <2>3
<1> QED
    BY <1>10, <1>11, <1>13, <1>14, <1>19, <1>20, OnceOfAll, AllOfAll DEF HubInv

\* A stream that closes is forgotten by the hub.
LEMMA CloseKeeps ==
    ASSUME HubInv, stream \in [Streams -> Request], NEW s \in Streams, Close(s)
    PROVE  HubInv'
<1>1. /\ HubTypeOK /\ PlacesInLog /\ NothingBeforeOpen /\ RecentAreLast
      /\ \A r \in Streams : OnceOf(r) /\ AllOf(r)
    BY OnceOfAll, AllOfAll DEF HubInv
<1>2. /\ stream[s].pc = "open" /\ listener[s].on /\ replay[s] = {}
      /\ listener' = [listener EXCEPT ![s] = Idle]
      /\ queue' = [queue EXCEPT ![s] = <<>>]
      /\ taken' = [taken EXCEPT ![s] = <<>>]
      /\ dropped' = [dropped EXCEPT ![s] = {}]
      /\ since' = [since EXCEPT ![s] = 0]
      /\ UNCHANGED <<log, recent, replay, fan>>
      /\ stream' = [stream EXCEPT ![s].pc = "closed"]
    BY DEF Close, HubUnsubscribe, Goto
<1>3. Idle \in [on : BOOLEAN, org : Orgs, filter : Filters \cup {<<>>}] /\ ~Idle.on
    <2>1. (CHOOSE o \in Orgs : TRUE) \in Orgs
        BY EventHubAssumption
    <2> QED
        BY <2>1 DEF Idle
<1>4. /\ listener' \in [Streams -> [on : BOOLEAN, org : Orgs, filter : Filters \cup {<<>>}]]
      /\ ~listener'[s].on
      /\ \A r \in Streams : r # s => listener'[r] = listener[r]
    <2> HIDE DEF Idle
    <2> QED
        BY <1>1, <1>2, <1>3 DEF HubTypeOK
<1>5. <<>> \in Seq(Events) /\ Len(<<>>) = 0 /\ MaxQueue \in Nat /\ MaxEvents \in Nat
    BY EmptySeq, EventHubAssumption
<1>6. /\ queue' \in [Streams -> Seq(Events)] /\ queue'[s] = <<>>
      /\ taken' \in [Streams -> Seq(Events)] /\ taken'[s] = <<>>
      /\ \A r \in Streams : r # s => queue'[r] = queue[r] /\ taken'[r] = taken[r]
    BY <1>1, <1>2, <1>5 DEF HubTypeOK
<1>7. /\ dropped' \in [Streams -> SUBSET Events]
      /\ \A r \in Streams : r # s => dropped'[r] = dropped[r]
    BY <1>1, <1>2 DEF HubTypeOK
<1>8. /\ since' \in [Streams -> 0 .. MaxEvents] /\ since'[s] = 0
      /\ \A r \in Streams : r # s => since'[r] = since[r]
    BY <1>1, <1>2, <1>5 DEF HubTypeOK
<1>9. \A r \in Streams : Len(queue'[r]) <= MaxQueue
    <2>1. \A r \in Streams : Len(queue[r]) <= MaxQueue
        BY <1>1 DEF HubTypeOK
    <2>2. Len(queue'[s]) <= MaxQueue
        BY <1>5, <1>6
    <2> QED
        BY <1>6, <2>1, <2>2
<1>10. HubTypeOK'
    BY <1>1, <1>2, <1>4, <1>6, <1>7, <1>8, <1>9 DEF HubTypeOK
<1>11. Len(log) \in Nat
    BY <1>1, LenProperties DEF HubTypeOK
<1>12. PlacesInLog'
    <2>1. ASSUME NEW r \in Streams
          PROVE  /\ \A n \in DOMAIN queue'[r] : queue'[r][n] <= Len(log)
                 /\ \A n \in DOMAIN taken'[r] : taken'[r][n] <= Len(log)
                 /\ since'[r] <= Len(log)
        <3>1. CASE r = s
            <4>1. DOMAIN queue'[s] = {} /\ DOMAIN taken'[s] = {}
                BY <1>6
            <4> QED
                BY <1>8, <1>11, <3>1, <4>1
        <3>2. CASE r # s
            BY <1>1, <1>6, <1>8, <3>2 DEF PlacesInLog
        <3> QED
            BY <3>1, <3>2
    <2> QED
        BY <1>1, <1>2, <2>1 DEF PlacesInLog
<1>13. /\ stream'[s].pc = "closed"
       /\ \A r \in Streams : r # s => stream'[r] = stream[r]
    <2> USE DEF Request
    <2> QED
        BY <1>2
<1>14. NothingBeforeOpen'
    <2>1. ASSUME NEW r \in Streams, stream'[r].pc \in BeforeOpen
          PROVE  /\ ~listener'[r].on
                 /\ replay'[r] = {} /\ queue'[r] = <<>> /\ taken'[r] = <<>>
                 /\ r \notin fan'.to
        <3>1. r # s
            BY <1>13, <2>1 DEF BeforeOpen
        <3> QED
            BY <1>1, <1>2, <1>4, <1>6, <1>13, <2>1, <3>1 DEF NothingBeforeOpen
    <2> QED
        BY <2>1 DEF NothingBeforeOpen
<1>15. RecentAreLast'
    BY <1>1, <1>2 DEF RecentAreLast
<1>16. Addressees' = Addressees
    BY <1>2 DEF Addressees
<1>17. \A r \in Streams : ToCome(r)' = ToCome(r)
    BY <1>2, <1>16 DEF ToCome
<1>18. \A r \in Streams : r # s => Given(r)' = Given(r) /\ GivenEvents(r)' = GivenEvents(r)
    BY <1>6 DEF Given, GivenEvents
<1>19. Given(s)' = <<>> /\ GivenEvents(s)' = {}
    <2>1. Given(s)' = <<>>
        BY <1>6 DEF Given
    <2> QED
        BY <2>1 DEF GivenEvents
<1>20. ASSUME NEW r \in Streams
       PROVE  OnceOf(r)'
    <2>1. CASE r = s
        BY <1>1, <1>2, <1>16, <1>19, <2>1 DEF OnceOf, Distinct
    <2>2. CASE r # s
        BY <1>1, <1>2, <1>16, <1>17, <1>18, <2>2 DEF OnceOf
    <2> QED
        BY <2>1, <2>2
<1>21. ASSUME NEW r \in Streams
       PROVE  AllOf(r)'
    <2>1. CASE r = s
        BY <1>4, <2>1 DEF AllOf
    <2>2. CASE r # s
        <3>1. \A t, n : Hears(r, t)' = Hears(r, t) /\ LastOn(t, n)' = LastOn(t, n)
            BY <1>2, <1>4, <2>2 DEF Hears, LastOn
        <3> QED
            BY <1>1, <1>2, <1>4, <1>7, <1>8, <1>17, <1>18, <2>2, <3>1 DEF AllOf
    <2> QED
        BY <2>1, <2>2
<1> QED
    BY <1>10, <1>12, <1>14, <1>15, <1>20, <1>21, OnceOfAll, AllOfAll DEF HubInv

-----------------------------------------------------------------------------
(* The hub as a whole                                                      *)

\* The hub's invariant holds at the start.
LEMMA HubStarts ==
    ASSUME EventStreamsInit
    PROVE  HubInv
<1>1. /\ log = <<>> /\ recent = [t \in Names |-> <<>>] /\ fan = NoFan
      /\ listener = [s \in Streams |-> Idle]
      /\ replay = [s \in Streams |-> {}]
      /\ queue = [s \in Streams |-> <<>>] /\ taken = [s \in Streams |-> <<>>]
      /\ dropped = [s \in Streams |-> {}] /\ since = [s \in Streams |-> 0]
    BY DEF EventStreamsInit, HubInit
<1>2. /\ <<>> \in Seq(Events) /\ <<>> \in Seq(Names) /\ Len(<<>>) = 0
      /\ MaxQueue \in Nat /\ MaxEvents \in Nat /\ MaxRecent \in Nat
    BY EmptySeq, EventHubAssumption
<1>3. Idle \in [on : BOOLEAN, org : Orgs, filter : Filters \cup {<<>>}] /\ ~Idle.on
    <2>1. (CHOOSE o \in Orgs : TRUE) \in Orgs
        BY EventHubAssumption
    <2> QED
        BY <2>1 DEF Idle
<1>4. listener \in [Streams -> [on : BOOLEAN, org : Orgs, filter : Filters \cup {<<>>}]]
    BY <1>1, <1>3
<1>5. \A s \in Streams : ~listener[s].on
    BY <1>1, <1>3
<1>6. fan \in [event : Events \cup {0}, to : SUBSET Streams, given : SUBSET Streams]
    BY <1>1 DEF NoFan
<1>7. HubTypeOK
    BY <1>1, <1>2, <1>4, <1>6 DEF HubTypeOK
<1>8. PlacesInLog
    BY <1>1, <1>2 DEF PlacesInLog
<1>9. NothingBeforeOpen
    BY <1>1, <1>5 DEF NothingBeforeOpen, NoFan
<1>10. RecentAreLast
    BY <1>1 DEF RecentAreLast
<1>11. ASSUME NEW s \in Streams
       PROVE  OnceOf(s) /\ AllOf(s)
    <2>1. Given(s) = <<>>
        BY <1>1 DEF Given
    <2>2. GivenEvents(s) = {} /\ s \notin Addressees
        BY <1>1, <2>1 DEF GivenEvents, Addressees, NoFan
    <2> QED
        BY <1>5, <2>1, <2>2 DEF OnceOf, AllOf, Distinct
<1> QED
    BY <1>7, <1>8, <1>9, <1>10, <1>11, OnceOfAll, AllOfAll DEF HubInv

\* No step of watching takes a stream back to before it subscribed.
LEMMA WatchingIsOneWay ==
    ASSUME stream \in [Streams -> Request], NEW s \in Streams, WatchStep(s),
           NEW r \in Streams, stream'[r].pc \in BeforeOpen
    PROVE  stream[r].pc \in BeforeOpen
<1>1. \A pc : Goto(s, pc) => stream'[r].pc = IF r = s THEN pc ELSE stream[r].pc
    BY DEF Goto, Request
<1>2. CASE Count(s) \/ CheckConnected(s) \/ Expect(s) \/ SendSubscribe(s) \/ SubscribeFails(s)
           \/ SetReady(s)
    <2>1. stream[s].pc \in BeforeOpen
        BY <1>2 DEF Count, CheckConnected, Expect, SendSubscribe, SubscribeFails, SetReady, BeforeOpen
    <2>2. PICK pc : Goto(s, pc)
        <3>1. CASE Count(s)
            BY <3>1 DEF Count
        <3>2. CASE CheckConnected(s)
            BY <3>2 DEF CheckConnected
        <3>3. CASE Expect(s)
            BY <3>3 DEF Expect
        <3>4. CASE SendSubscribe(s)
            BY <3>4 DEF SendSubscribe
        <3>5. CASE SubscribeFails(s)
            BY <3>5 DEF SubscribeFails
        <3>6. CASE SetReady(s)
            BY <3>6 DEF SetReady
        <3> QED
            BY <1>2, <3>1, <3>2, <3>3, <3>4, <3>5, <3>6
    <2> QED
        BY <1>1, <2>1, <2>2
<1>3. CASE Uncount(s) \/ SendUnsubscribe(s)
    <2>1. Goto(s, "leaving") \/ Goto(s, "over")
        BY <1>3 DEF Uncount, SendUnsubscribe
    <2> QED
        BY <1>1, <2>1 DEF BeforeOpen
<1> QED
    BY <1>2, <1>3 DEF WatchStep

\* Every step keeps it, those of the client included.
LEMMA HubStepKeeps ==
    ASSUME HubInv, stream \in [Streams -> Request], [EventStreamsNext]_streamVars
    PROVE  HubInv'
<1>1. CASE LoopStep /\ UNCHANGED hubVars
    <2>1. UNCHANGED stream
        BY <1>1 DEF LoopStep, Connect, Connack, Refused, OnConnect, SubscribeAll, OnSubscribe,
                    OnUnsubscribe, Lose, OnDisconnect, watchVars
    <2> QED
        BY <1>1, <2>1, WatchingKeeps
<1>2. ASSUME NEW s \in Streams, WatchStep(s), UNCHANGED hubVars
      PROVE  HubInv'
    <2>1. \A r \in Streams : stream'[r].pc \in BeforeOpen => stream[r].pc \in BeforeOpen
        BY <1>2, WatchingIsOneWay
    <2> QED
        BY <1>2, <2>1, WatchingKeeps
<1>3. CASE HubStep /\ UNCHANGED mqttVars
    <2>1. UNCHANGED stream
        BY <1>3 DEF mqttVars, watchVars
    <2> QED
        BY <1>3, <2>1, PublishedKeeps, DeliverKeeps, ReplayKeeps, TakeKeeps DEF HubStep
<1>4. ASSUME NEW t \in Names, Receive(t)
      PROVE  HubInv'
    <2>1. UNCHANGED stream /\ Publish(t)
        BY <1>4 DEF Receive, mqttVars, watchVars
    <2> QED
        BY <2>1, PublishKeeps
<1>5. ASSUME NEW s \in Streams, Close(s)
      PROVE  HubInv'
    BY <1>5, CloseKeeps
<1>6. ASSUME NEW s \in Streams, NEW o \in Orgs, Listen(s, o)
      PROVE  HubInv'
    BY <1>6, ListenKeeps
<1>7. CASE UNCHANGED streamVars
    <2>1. UNCHANGED hubVars /\ UNCHANGED stream
        BY <1>7 DEF streamVars, mqttVars, watchVars
    <2> QED
        BY <2>1, WatchingKeeps
<1> QED
    BY <1>1, <1>2, <1>3, <1>4, <1>5, <1>6, <1>7 DEF EventStreamsNext

-----------------------------------------------------------------------------
(***************************************************************************)
(* The invariant of the MQTT client                                        *)
(***************************************************************************)

Past == {"account", "set", "watched", "open", "closed", "leaving", "over"}

PastExpect == {s \in Streams : stream[s].pc \in Past}

\* Each stream counts one SUBACK at most, and on_connect one for each topic.
PendingBounded ==
    pending <= Cardinality(Base) + Cardinality(Streams) + Cardinality(PastExpect)

Uncounted == {"new", "leaving", "over"}

Counted(t) == {s \in Streams : stream[s].filter = t /\ stream[s].pc \notin Uncounted}

\* _watch_counts is the number of streams that watch a topic.
CountsRight == \A t \in Topics : counts[t] = Cardinality(Counted(t))

ExtraWatched ==
    /\ IsFiniteSet(extra) /\ extra \cap Base = {}
    /\ conn # "reset" => extra = {}

SubscribesIn(w) == {n \in DOMAIN w : w[n].kind = "subscribe"}

Accounted == {s \in Streams : stream[s].pc = "account"}

\* A stream that found the client connected still has that connection.
SameConnection ==
    \A s \in Streams :
        /\ stream[s].pc \in {"checked", "account", "set"} => conn \notin {"down", "open"}
        /\ stream[s].pc = "subscribing" => conn \in {"down", "open", "acked"}
        /\ stream[s].pc = "set" => conn = "lost"

\* What is pending is what is under way, or is about to be sent.
PendingExact ==
    /\ conn = "reset" => pending = Cardinality(SubscribesIn(wire)) + Cardinality(Accounted)
                                       + Cardinality(Base) + Cardinality(extra)
    /\ conn = "up" => pending = Cardinality(SubscribesIn(wire)) + Cardinality(Accounted)

ReadyIsHeard ==
    /\ ready => conn \in {"up", "lost"}
    /\ conn = "up" /\ ready => Base \subseteq Answered

\* What holds of a connection that nothing overtook.
NotOvertaken == ~overtaken => SameConnection /\ PendingExact /\ ReadyIsHeard

\* The platform's own topics are subscribed to, or about to be.
BaseAsked ==
    /\ conn = "up" => \A t \in Base : t \in Answered \/ \E n \in DOMAIN wire : wire[n] = Subscribe(t)
    /\ \A n \in DOMAIN wire : wire[n].kind = "unsubscribe" => wire[n].topic \notin Base
    /\ \A s \in Streams : stream[s].pc = "leaving" => stream[s].filter \notin Base
    /\ ~HasSocket => wire = <<>>

\* A topic somebody leaves has no watcher, unless a watch of it crossed.
LeftAlone ==
    ~crossed => \A s \in Streams : stream[s].pc = "leaving" => counts[stream[s].filter] = 0

Sending == {"counted", "checked", "subscribing", "account"}

Sender(t) == \E s \in Streams : stream[s].filter = t /\ stream[s].pc \in Sending

\* A broker with the subscriptions S has that to t once it has handled w.
EndsIn(w, S, t) ==
    \/ \E n \in DOMAIN w : /\ w[n] = Subscribe(t)
                           /\ \A m \in DOMAIN w : m > n => w[m] # Unsubscribe(t)
    \/ t \in S /\ \A m \in DOMAIN w : w[m] # Unsubscribe(t)

\* What somebody watches is subscribed to in the end.
WatchersServed ==
    ~crossed /\ conn \in {"reset", "up"} =>
        \A t \in Topics \ Base :
            counts[t] > 0 => Sender(t) \/ EndsIn(wire, Answered, t) \/ t \in extra

MqttInv ==
    /\ MqttTypeOK /\ PendingBounded /\ CountsRight /\ ExtraWatched /\ NotOvertaken
    /\ BaseAsked /\ LeftAlone /\ WatchersServed

-----------------------------------------------------------------------------
(* Packets on their way                                                    *)

Packets == [kind : {"subscribe", "unsubscribe"}, topic : Topics]

\* The subscriptions among the packets on their way can be counted.
LEMMA SubscribesFinite ==
    ASSUME NEW w \in Seq(Packets)
    PROVE  /\ IsFiniteSet(SubscribesIn(w)) /\ Cardinality(SubscribesIn(w)) \in Nat
           /\ Cardinality(SubscribesIn(w)) = 0 =>
                  \A n \in DOMAIN w : w[n].kind # "subscribe"
           /\ w = <<>> => Cardinality(SubscribesIn(w)) = 0
<1>1. Len(w) \in Nat /\ DOMAIN w = 1 .. Len(w)
    BY LenProperties
<1>2. IsFiniteSet(1 .. Len(w)) /\ SubscribesIn(w) \in SUBSET (1 .. Len(w))
    <2>1. IsFiniteSet(1 .. Len(w))
        BY <1>1, FS_Interval
    <2> QED
        BY <1>1, <2>1 DEF SubscribesIn
<1>3. IsFiniteSet(SubscribesIn(w))
    BY <1>2, FS_Subset
<1>4. Cardinality(SubscribesIn(w)) = 0 <=> SubscribesIn(w) = {}
    BY <1>3, FS_EmptySet
<1>5. w = <<>> => SubscribesIn(w) = {}
    BY DEF SubscribesIn
<1> QED
    BY <1>3, <1>4, <1>5, FS_CardinalityType DEF SubscribesIn

\* One more packet is one more subscription, if it is one.
LEMMA SubscribesAppend ==
    ASSUME NEW w \in Seq(Packets), NEW p \in Packets
    PROVE  Cardinality(SubscribesIn(Append(w, p))) =
               IF p.kind = "subscribe" THEN Cardinality(SubscribesIn(w)) + 1
               ELSE Cardinality(SubscribesIn(w))
<1>1. /\ Append(w, p) \in Seq(Packets) /\ Len(Append(w, p)) = Len(w) + 1
      /\ \A n \in 1 .. Len(w) : Append(w, p)[n] = w[n]
      /\ Append(w, p)[Len(w) + 1] = p
    BY AppendProperties
<1>2. /\ Len(w) \in Nat /\ DOMAIN w = 1 .. Len(w)
      /\ DOMAIN Append(w, p) = 1 .. Len(w) + 1
    BY <1>1, LenProperties
<1> DEFINE q == Append(w, p)
<1>3. /\ DOMAIN q = 1 .. Len(w) + 1 /\ q[Len(w) + 1] = p
      /\ \A n \in 1 .. Len(w) : q[n] = w[n]
    BY <1>1, <1>2
<1> HIDE DEF q
<1>4. SubscribesIn(q) = IF p.kind = "subscribe" THEN SubscribesIn(w) \cup {Len(w) + 1}
                        ELSE SubscribesIn(w)
    BY <1>2, <1>3 DEF SubscribesIn
<1>5. Len(w) + 1 \notin SubscribesIn(w)
    BY <1>2 DEF SubscribesIn
<1>6. IsFiniteSet(SubscribesIn(w))
    BY SubscribesFinite
<1>7. Cardinality(SubscribesIn(w) \cup {Len(w) + 1}) = Cardinality(SubscribesIn(w)) + 1
    BY <1>5, <1>6, FS_AddElement
<1> QED
    BY <1>4, <1>7 DEF q

\* What is left of the wire when its first packet is read.
LEMMA TailParts ==
    ASSUME NEW w \in Seq(Packets), w # <<>>
    PROVE  /\ Tail(w) \in Seq(Packets) /\ Head(w) = w[1] /\ Head(w) \in Packets
           /\ Len(w) \in Nat \ {0} /\ DOMAIN w = 1 .. Len(w)
           /\ DOMAIN Tail(w) = 1 .. Len(w) - 1
           /\ \A n \in 1 .. Len(w) - 1 : Tail(w)[n] = w[n + 1]
<1>1. /\ Head(w) \in Packets /\ Tail(w) \in Seq(Packets)
      /\ Len(Tail(w)) = Len(w) - 1
      /\ \A n \in 1 .. Len(Tail(w)) : Tail(w)[n] = w[n + 1]
    BY HeadTailProperties
<1>2. Len(w) \in Nat \ {0} /\ DOMAIN w = 1 .. Len(w) /\ Head(w) = w[1]
    BY EmptySeq, LenProperties
<1>3. DOMAIN Tail(w) = 1 .. Len(Tail(w))
    BY <1>1, LenProperties
<1> QED
    BY <1>1, <1>2, <1>3

\* A subscription that is read is no longer on its way.
LEMMA SubscribesTail ==
    ASSUME NEW w \in Seq(Packets), w # <<>>
    PROVE  Cardinality(SubscribesIn(Tail(w))) =
               IF Head(w).kind = "subscribe" THEN Cardinality(SubscribesIn(w)) - 1
               ELSE Cardinality(SubscribesIn(w))
<1> DEFINE v == Tail(w)
           rest == SubscribesIn(w) \ {1}
           next == [n \in SubscribesIn(v) |-> n + 1]
<1>1. /\ v \in Seq(Packets) /\ Head(w) = w[1]
      /\ Len(w) \in Nat \ {0} /\ DOMAIN w = 1 .. Len(w)
      /\ DOMAIN v = 1 .. Len(w) - 1
      /\ \A n \in 1 .. Len(w) - 1 : v[n] = w[n + 1]
    BY TailParts
<1>2. IsFiniteSet(SubscribesIn(w)) /\ IsFiniteSet(SubscribesIn(v))
    BY <1>1, SubscribesFinite
<1> HIDE DEF v
<1>3. next \in Bijection(SubscribesIn(v), rest)
    <2>1. \A n \in SubscribesIn(v) : n \in 1 .. Len(w) - 1 /\ n + 1 \in rest
        BY <1>1 DEF SubscribesIn
    <2>2. \A m \in rest : m - 1 \in SubscribesIn(v) /\ m = (m - 1) + 1
        <3>1. SUFFICES ASSUME NEW m \in rest
                       PROVE  m - 1 \in SubscribesIn(v) /\ m = (m - 1) + 1
            OBVIOUS
        <3>2. /\ m \in 1 .. Len(w) /\ m # 1 /\ w[m].kind = "subscribe"
              /\ m - 1 \in 1 .. Len(w) - 1 /\ (m - 1) + 1 = m
            BY <1>1, <3>1 DEF SubscribesIn
        <3>3. v[m - 1] = w[m]
            BY <1>1, <3>2
        <3> QED
            BY <1>1, <3>2, <3>3 DEF SubscribesIn
    <2>3. next \in [SubscribesIn(v) -> rest]
        BY <2>1
    <2>4. next \in Injection(SubscribesIn(v), rest)
        BY <2>1, <2>3 DEF Injection, IsInjective
    <2>5. next \in Surjection(SubscribesIn(v), rest)
        BY <2>2, <2>3 DEF Surjection
    <2> QED
        BY <2>4, <2>5 DEF Bijection
<1>4. Cardinality(rest) = Cardinality(SubscribesIn(v))
    <2>1. ExistsBijection(SubscribesIn(v), rest)
        BY <1>3 DEF ExistsBijection
    <2> QED
        BY <1>2, <2>1, FS_Bijection
<1>5. Cardinality(rest) = IF 1 \in SubscribesIn(w) THEN Cardinality(SubscribesIn(w)) - 1
                          ELSE Cardinality(SubscribesIn(w))
    BY <1>2, FS_RemoveElement
<1>6. 1 \in SubscribesIn(w) <=> Head(w).kind = "subscribe"
    BY <1>1 DEF SubscribesIn
<1> QED
    BY <1>4, <1>5, <1>6 DEF v

-----------------------------------------------------------------------------
(* What SubscribeAll sends                                                 *)

Asked == {Subscribe(t) : t \in Base \cup extra}

\* _on_connect asks for the base topics and for the watched ones besides.
LEMMA AskedCard ==
    ASSUME MqttTypeOK, ExtraWatched, IsFiniteSet(extra)
    PROVE  IsFiniteSet(Asked) /\ Cardinality(Asked) = Cardinality(Base) + Cardinality(extra)
<1> DEFINE all == Base \cup extra
           ask == [t \in all |-> Subscribe(t)]
<1>1. IsFiniteSet(all) /\ Cardinality(all) = Cardinality(Base) + Cardinality(extra)
    <2>1. IsFiniteSet(Base) /\ extra \cap Base = {}
        BY PlatformMqttAssumption DEF ExtraWatched
    <2>2. Cardinality(Base \cap extra) = 0
        BY <2>1, FS_EmptySet
    <2>3. Cardinality(Base) \in Nat /\ Cardinality(extra) \in Nat
        BY <2>1, FS_CardinalityType
    <2>4. /\ IsFiniteSet(all)
          /\ Cardinality(all) = Cardinality(Base) + Cardinality(extra) - Cardinality(Base \cap extra)
        BY <2>1, FS_Union
    <2> QED
        BY <2>2, <2>3, <2>4
<1>2. ask \in Bijection(all, Asked)
    <2>1. ask \in [all -> Asked]
        BY DEF Asked
    <2>2. ask \in Injection(all, Asked)
        BY <2>1 DEF Injection, IsInjective, Subscribe
    <2>3. ask \in Surjection(all, Asked)
        BY <2>1 DEF Surjection, Asked
    <2> QED
        BY <2>2, <2>3 DEF Bijection
<1>3. ExistsBijection(all, Asked)
    BY <1>2 DEF ExistsBijection
<1> HIDE DEF all
<1> QED
    BY <1>1, <1>3, FS_Bijection DEF all

\* It asks for each of them once.
LEMMA AskedOnce ==
    ASSUME MqttTypeOK, ExtraWatched, IsFiniteSet(extra)
    PROVE  /\ Seqs!SetToSeq(Asked) \in Seq(Packets)
           /\ Len(Seqs!SetToSeq(Asked)) = Cardinality(Base) + Cardinality(extra)
           /\ \A n \in 1 .. Len(Seqs!SetToSeq(Asked)) : Seqs!SetToSeq(Asked)[n] \in Asked
           /\ \A t \in Base \cup extra : \E n \in 1 .. Len(Seqs!SetToSeq(Asked)) :
                  Seqs!SetToSeq(Asked)[n] = Subscribe(t)
<1> DEFINE q == Seqs!SetToSeq(Asked)
           k == Cardinality(Asked)
<1>1. IsFiniteSet(Asked) /\ k = Cardinality(Base) + Cardinality(extra) /\ k \in Nat
    BY AskedCard, FS_CardinalityType
<1>2. Asked \subseteq Packets
    <2>1. Base \cup extra \subseteq Topics
        BY DEF MqttTypeOK, Topics
    <2> QED
        BY <2>1 DEF Asked, Packets, Subscribe
<1>3. Seqs!Cardinality(Asked) = k
    BY DEF Seqs!Cardinality, Cardinality, Seqs!IsFiniteSet, IsFiniteSet
<1>4. \E f \in [1 .. k -> Asked] : Seqs!IsInjective(f)
    BY <1>1, FS_CardinalityType DEF Seqs!IsInjective, ExistsBijection, Bijection, Injection, IsInjective
<1>5. q \in [1 .. k -> Asked] /\ Seqs!IsInjective(q)
    <2>1. q = CHOOSE f \in [1 .. k -> Asked] : Seqs!IsInjective(f)
        BY <1>3 DEF Seqs!SetToSeq
    <2> HIDE DEF k, q
    <2> QED
        BY <1>4, <2>1
<1> HIDE DEF q, k
<1>6. q \in Injection(1 .. k, Asked)
    BY <1>5 DEF Injection, IsInjective, Seqs!IsInjective
<1>7. Cardinality(1 .. k) = Cardinality(Asked)
    <2>1. k \in Int /\ 1 \in Int /\ k = Cardinality(Asked)
        BY <1>1 DEF k
    <2>2. Cardinality(1 .. k) = IF 1 > k THEN 0 ELSE k - 1 + 1
        BY <2>1, FS_Interval
    <2> QED
        BY <1>1, <2>1, <2>2
<1>8. q \in Surjection(1 .. k, Asked)
    BY <1>1, <1>6, <1>7, FS_Injection
<1>9. q \in Seq(Asked) /\ Len(q) = k
    BY <1>1, <1>5, IsASeq, LenProperties
<1>10. q \in Seq(Packets)
    BY <1>2, <1>9, SeqMonotonic
<1>11. \A t \in Base \cup extra : \E n \in 1 .. k : q[n] = Subscribe(t)
    BY <1>8 DEF Surjection, Asked
<1> QED
    BY <1>1, <1>5, <1>9, <1>10, <1>11 DEF q

\* Nothing but subscriptions is added, after what is under way already.
LEMMA SubscribesConcat ==
    ASSUME NEW w \in Seq(Packets), NEW q \in Seq(Packets),
           \A n \in 1 .. Len(q) : q[n].kind = "subscribe"
    PROVE  /\ w \o q \in Seq(Packets) /\ DOMAIN (w \o q) = 1 .. Len(w) + Len(q)
           /\ Len(w) \in Nat /\ Len(q) \in Nat /\ DOMAIN w = 1 .. Len(w)
           /\ \A n \in 1 .. Len(w) : (w \o q)[n] = w[n]
           /\ \A n \in 1 .. Len(q) : (w \o q)[Len(w) + n] = q[n]
           /\ Cardinality(SubscribesIn(w \o q)) = Cardinality(SubscribesIn(w)) + Len(q)
<1> DEFINE all == w \o q
           new == Len(w) + 1 .. Len(w) + Len(q)
<1>1. /\ all \in Seq(Packets) /\ Len(all) = Len(w) + Len(q)
      /\ \A n \in 1 .. Len(w) + Len(q) :
             all[n] = IF n <= Len(w) THEN w[n] ELSE q[n - Len(w)]
    BY ConcatProperties
<1>2. /\ Len(w) \in Nat /\ Len(q) \in Nat /\ DOMAIN w = 1 .. Len(w)
      /\ DOMAIN all = 1 .. Len(w) + Len(q)
    BY <1>1, LenProperties
<1> HIDE DEF all
<1>3. \A n \in 1 .. Len(w) : all[n] = w[n]
    BY <1>1, <1>2
<1>4. \A n \in 1 .. Len(q) : all[Len(w) + n] = q[n]
    <2>1. SUFFICES ASSUME NEW n \in 1 .. Len(q)
                   PROVE  all[Len(w) + n] = q[n]
        OBVIOUS
    <2>2. /\ Len(w) + n \in 1 .. Len(w) + Len(q) /\ ~(Len(w) + n <= Len(w))
          /\ (Len(w) + n) - Len(w) = n
        BY <1>2, <2>1
    <2> QED
        BY <1>1, <2>2
<1>5. SubscribesIn(all) = SubscribesIn(w) \cup new
    <2>1. \A n \in new : n - Len(w) \in 1 .. Len(q) /\ n \in DOMAIN all /\ all[n] = q[n - Len(w)]
        BY <1>1, <1>2
    <2>2. \A n \in new : n \in SubscribesIn(all)
        BY <2>1 DEF SubscribesIn
    <2>3. \A n \in DOMAIN all : n \in DOMAIN w \/ n \in new
        BY <1>2
    <2>4. \A n \in DOMAIN w : n \in DOMAIN all /\ all[n] = w[n]
        BY <1>2, <1>3
    <2> HIDE DEF new
    <2> QED
        BY <2>2, <2>3, <2>4 DEF SubscribesIn
<1>6. IsFiniteSet(new) /\ Cardinality(new) = Len(q)
    <2>1. Len(w) + 1 \in Int /\ Len(w) + Len(q) \in Int
        BY <1>2
    <2>2. /\ IsFiniteSet(new)
          /\ Cardinality(new) = IF Len(w) + 1 > Len(w) + Len(q) THEN 0
                                ELSE (Len(w) + Len(q)) - (Len(w) + 1) + 1
        BY <2>1, FS_Interval
    <2> HIDE DEF new
    <2> QED
        BY <1>2, <2>2
<1>7. IsFiniteSet(SubscribesIn(w)) /\ Cardinality(SubscribesIn(w)) \in Nat
    BY SubscribesFinite
<1>8. SubscribesIn(w) \cap new = {}
    BY <1>2 DEF SubscribesIn
<1> HIDE DEF new
<1>9. Cardinality(SubscribesIn(w) \cup new) = Cardinality(SubscribesIn(w)) + Len(q)
    BY SMTT(30), <1>2, <1>6, <1>7, <1>8, FS_Union, FS_EmptySet
<1> QED
    BY <1>1, <1>2, <1>3, <1>4, <1>5, <1>9 DEF all

-----------------------------------------------------------------------------
(* Counting streams                                                        *)

Steps == {"new", "counted", "checked", "subscribing", "account", "set", "watched", "open",
          "closed", "leaving", "over"}

\* Goto moves one request and no other.
LEMMA GotoMoves ==
    ASSUME stream \in [Streams -> Request], NEW s \in Streams, NEW pc \in Steps, Goto(s, pc)
    PROVE  /\ stream' \in [Streams -> Request]
           /\ stream'[s].pc = pc /\ stream'[s].filter = stream[s].filter
           /\ stream[s].pc \in Steps /\ stream[s].filter \in Filters
           /\ \A r \in Streams : r # s => stream'[r] = stream[r]
<1> DEFINE new == [stream[s] EXCEPT !.pc = pc]
<1>1. stream[s] \in Request /\ new \in Request /\ new.pc = pc /\ new.filter = stream[s].filter
    BY DEF Request, Steps
<1>2. stream' = [stream EXCEPT ![s] = new]
    BY DEF Goto
<1>3. stream[s].pc \in Steps /\ stream[s].filter \in Filters
    BY <1>1 DEF Request, Steps
<1> HIDE DEF new
<1> QED
    BY <1>1, <1>2, <1>3

\* Sets of streams can be counted.
LEMMA StreamsFinite ==
    ASSUME NEW S \in SUBSET Streams
    PROVE  IsFiniteSet(S) /\ Cardinality(S) \in Nat /\ Cardinality(S) <= Cardinality(Streams)
           /\ Cardinality(Streams) \in Nat
BY FS_Subset, FS_CardinalityType, PlatformMqttAssumption

\* One stream comes to a set of them, or goes.
LEMMA OneStream ==
    ASSUME NEW S \in SUBSET Streams, NEW T \in SUBSET Streams, NEW s \in Streams,
           \A r \in Streams : r # s => (r \in S <=> r \in T)
    PROVE  /\ s \in S /\ s \notin T => Cardinality(T) = Cardinality(S) - 1 /\ Cardinality(S) > 0
           /\ s \notin S /\ s \in T => Cardinality(T) = Cardinality(S) + 1
           /\ (s \in S <=> s \in T) => T = S
<1>1. IsFiniteSet(S) /\ IsFiniteSet(T) /\ Cardinality(S) \in Nat /\ Cardinality(T) \in Nat
    BY StreamsFinite
<1>2. CASE s \in S /\ s \notin T
    <2>1. S = T \cup {s}
        BY <1>2
    <2>2. Cardinality(S) = Cardinality(T) + 1
        BY <1>1, <1>2, <2>1, FS_AddElement
    <2> QED
        BY <1>1, <1>2, <2>2
<1>3. CASE s \notin S /\ s \in T
    <2>1. T = S \cup {s}
        BY <1>3
    <2>2. Cardinality(T) = Cardinality(S) + 1
        BY <1>1, <1>3, <2>1, FS_AddElement
    <2> QED
        BY <1>3, <2>2
<1>4. CASE s \in S <=> s \in T
    <2>1. S = T
        BY <1>4
    <2> QED
        BY <1>4, <2>1
<1> QED
    BY <1>2, <1>3, <1>4

\* The watchers of a topic change by the one request that moves, if by any.
LEMMA CountedMoves ==
    ASSUME stream \in [Streams -> Request], NEW s \in Streams, NEW pc \in Steps, Goto(s, pc)
    PROVE  /\ \A t : t # stream[s].filter => Counted(t)' = Counted(t)
           /\ stream[s].pc \notin Uncounted /\ pc \in Uncounted =>
                  /\ Cardinality(Counted(stream[s].filter)') = Cardinality(Counted(stream[s].filter)) - 1
                  /\ Cardinality(Counted(stream[s].filter)) > 0
           /\ stream[s].pc \in Uncounted /\ pc \notin Uncounted =>
                  Cardinality(Counted(stream[s].filter)') = Cardinality(Counted(stream[s].filter)) + 1
           /\ (stream[s].pc \in Uncounted <=> pc \in Uncounted) =>
                  Counted(stream[s].filter)' = Counted(stream[s].filter)
<1>1. /\ stream'[s].pc = pc /\ stream'[s].filter = stream[s].filter
      /\ \A r \in Streams : r # s => stream'[r] = stream[r]
    BY GotoMoves
<1> DEFINE f == stream[s].filter
           S == Counted(f)
           T == {r \in Streams : stream'[r].filter = f /\ stream'[r].pc \notin Uncounted}
<1>2. Counted(f)' = T
    BY <1>1 DEF Counted
<1>3. S \in SUBSET Streams /\ T \in SUBSET Streams
    BY DEF Counted
<1>4. \A r \in Streams : r # s => (r \in S <=> r \in T)
    BY <1>1 DEF Counted
<1>5. (s \in S <=> stream[s].pc \notin Uncounted) /\ (s \in T <=> pc \notin Uncounted)
    BY <1>1 DEF Counted
<1>6. \A t : t # f => Counted(t)' = Counted(t)
    BY <1>1 DEF Counted
<1> HIDE DEF S, T
<1>7. /\ s \in S /\ s \notin T => Cardinality(T) = Cardinality(S) - 1 /\ Cardinality(S) > 0
      /\ s \notin S /\ s \in T => Cardinality(T) = Cardinality(S) + 1
      /\ (s \in S <=> s \in T) => T = S
    BY <1>3, <1>4, OneStream
<1>8. Counted(f)' = T /\ Counted(f) = S
    BY <1>2 DEF S
<1> QED
    BY <1>5, <1>6, <1>7, <1>8

\* A request that gave its subscription to the client is past that for good.
LEMMA PastMoves ==
    ASSUME stream \in [Streams -> Request], NEW s \in Streams, NEW pc \in Steps, Goto(s, pc),
           stream[s].pc \in Past => pc \in Past
    PROVE  /\ Cardinality(PastExpect) \in Nat /\ Cardinality(PastExpect') \in Nat
           /\ Cardinality(PastExpect) <= Cardinality(PastExpect')
           /\ Cardinality(PastExpect') <= Cardinality(Streams)
           /\ stream[s].pc \notin Past /\ pc \in Past =>
                  Cardinality(PastExpect') = Cardinality(PastExpect) + 1
<1>1. /\ stream'[s].pc = pc
      /\ \A r \in Streams : r # s => stream'[r] = stream[r]
    BY GotoMoves
<1> DEFINE S == PastExpect
           T == {r \in Streams : stream'[r].pc \in Past}
<1>2. PastExpect' = T
    BY DEF PastExpect
<1>3. S \in SUBSET Streams /\ T \in SUBSET Streams
    BY DEF PastExpect
<1>4. \A r \in Streams : r # s => (r \in S <=> r \in T)
    BY <1>1 DEF PastExpect
<1>5. (s \in S <=> stream[s].pc \in Past) /\ (s \in T <=> pc \in Past)
    BY <1>1 DEF PastExpect
<1> HIDE DEF S, T
<1>6. /\ s \in S /\ s \notin T => Cardinality(T) = Cardinality(S) - 1 /\ Cardinality(S) > 0
      /\ s \notin S /\ s \in T => Cardinality(T) = Cardinality(S) + 1
      /\ (s \in S <=> s \in T) => T = S
    BY <1>3, <1>4, OneStream
<1>7. /\ Cardinality(S) \in Nat /\ Cardinality(T) \in Nat
      /\ Cardinality(T) <= Cardinality(Streams)
    BY <1>3, StreamsFinite
<1>8. PastExpect' = T /\ PastExpect = S
    BY <1>2 DEF S
<1> QED
    BY <1>5, <1>6, <1>7, <1>8

\* The requests whose subscription is to be accounted change by the one that
\* moves.
LEMMA AccountedMoves ==
    ASSUME stream \in [Streams -> Request], NEW s \in Streams, NEW pc \in Steps, Goto(s, pc)
    PROVE  /\ Cardinality(Accounted) \in Nat
           /\ stream[s].pc = "account" /\ pc # "account" =>
                  Cardinality(Accounted') = Cardinality(Accounted) - 1 /\ Cardinality(Accounted) > 0
           /\ stream[s].pc # "account" /\ pc = "account" =>
                  Cardinality(Accounted') = Cardinality(Accounted) + 1
           /\ (stream[s].pc = "account" <=> pc = "account") => Accounted' = Accounted
<1>1. /\ stream'[s].pc = pc
      /\ \A r \in Streams : r # s => stream'[r] = stream[r]
    BY GotoMoves
<1> DEFINE S == Accounted
           T == {r \in Streams : stream'[r].pc = "account"}
<1>2. Accounted' = T
    BY DEF Accounted
<1>3. S \in SUBSET Streams /\ T \in SUBSET Streams
    BY DEF Accounted
<1>4. \A r \in Streams : r # s => (r \in S <=> r \in T)
    BY <1>1 DEF Accounted
<1>5. (s \in S <=> stream[s].pc = "account") /\ (s \in T <=> pc = "account")
    BY <1>1 DEF Accounted
<1> HIDE DEF S, T
<1>6. /\ s \in S /\ s \notin T => Cardinality(T) = Cardinality(S) - 1 /\ Cardinality(S) > 0
      /\ s \notin S /\ s \in T => Cardinality(T) = Cardinality(S) + 1
      /\ (s \in S <=> s \in T) => T = S
    BY <1>3, <1>4, OneStream
<1>7. Cardinality(S) \in Nat
    BY <1>3, StreamsFinite
<1>8. Accounted' = T /\ Accounted = S
    BY <1>2 DEF S
<1> QED
    BY <1>5, <1>6, <1>7, <1>8

-----------------------------------------------------------------------------
(* Types and counts                                                        *)

Shape == MqttTypeOK /\ PendingBounded /\ CountsRight /\ ExtraWatched

\* A stream that is open, for the MQTT client.
Serve(s) ==
    /\ \/ stream[s].pc = "watched" /\ Goto(s, "open")
       \/ stream[s].pc = "open" /\ Goto(s, "closed")
    /\ UNCHANGED <<loopVars, counts, crossed>>

\* So can the base topics.
LEMMA BaseFinite ==
    IsFiniteSet(Base) /\ Cardinality(Base) \in Nat /\ Cardinality(Streams) \in Nat
BY FS_CardinalityType, PlatformMqttAssumption

\* The bound on the pending SUBACKs is within their type.
LEMMA PendingFits ==
    /\ PendingBounded /\ pending \in Nat => pending \in 0 .. Cardinality(Base) + 2 * Cardinality(Streams)
    /\ PendingBounded' /\ pending' \in Nat
           => pending' \in 0 .. Cardinality(Base) + 2 * Cardinality(Streams)
<1>1. Cardinality(PastExpect) \in Nat /\ Cardinality(PastExpect) <= Cardinality(Streams)
    BY StreamsFinite DEF PastExpect
<1>2. Cardinality(PastExpect') \in Nat /\ Cardinality(PastExpect') <= Cardinality(Streams)
    <2>1. PastExpect' \in SUBSET Streams
        BY DEF PastExpect
    <2> QED
        BY <2>1, StreamsFinite
<1>3. /\ PendingBounded <=> pending <= Cardinality(Base) + Cardinality(Streams) + Cardinality(PastExpect)
      /\ PendingBounded' <=> pending' <= Cardinality(Base) + Cardinality(Streams) + Cardinality(PastExpect')
    BY DEF PendingBounded
<1> QED
    BY <1>1, <1>2, <1>3, BaseFinite

MoreCounted(s) == counts' = [counts EXCEPT ![stream[s].filter] = @ + 1]

LessCounted(s) == counts' = [counts EXCEPT ![stream[s].filter] = @ - 1]

\* What a step of a stream does to its count and to what is pending.
LEMMA WatchShapeOf ==
    ASSUME Shape, NEW s \in Streams, NEW pc \in Steps, Goto(s, pc),
           UNCHANGED <<conn, extra, subs, breaks, overtaken, refused>>,
           ready' \in BOOLEAN, crossed' \in BOOLEAN, wire' \in Seq(Packets),
           pending' \in Nat, stream[s].pc \in Past => pc \in Past,
           \/ pending' <= pending
           \/ pending' = pending + 1 /\ stream[s].pc \notin Past /\ pc \in Past,
           (stream[s].pc \in Uncounted <=> pc \in Uncounted) => counts' = counts,
           stream[s].pc \in Uncounted /\ pc \notin Uncounted => MoreCounted(s),
           stream[s].pc \notin Uncounted /\ pc \in Uncounted => LessCounted(s)
    PROVE  Shape'
<1> DEFINE f == stream[s].filter
<1>1. /\ stream \in [Streams -> Request]
      /\ counts \in [Topics -> 0 .. Cardinality(Streams)]
      /\ pending \in 0 .. Cardinality(Base) + 2 * Cardinality(Streams)
    BY DEF Shape, MqttTypeOK
<1>2. stream' \in [Streams -> Request] /\ f \in Topics
    BY <1>1, GotoMoves DEF Topics
<1>3. PendingBounded'
    <2>1. /\ Cardinality(PastExpect) \in Nat /\ Cardinality(PastExpect') \in Nat
          /\ Cardinality(PastExpect) <= Cardinality(PastExpect')
          /\ stream[s].pc \notin Past /\ pc \in Past =>
                 Cardinality(PastExpect') = Cardinality(PastExpect) + 1
        BY <1>1, PastMoves
    <2>2. pending <= Cardinality(Base) + Cardinality(Streams) + Cardinality(PastExpect)
        BY DEF Shape, PendingBounded
    <2>3. pending' <= Cardinality(Base) + Cardinality(Streams) + Cardinality(PastExpect')
        BY <1>1, <2>1, <2>2, BaseFinite
    <2> QED
        BY <2>3 DEF PendingBounded
<1>4. \A t \in Topics : counts[t] = Cardinality(Counted(t))
    BY DEF Shape, CountsRight
<1>5. /\ counts' \in [Topics -> Int]
      /\ \A t \in Topics : counts'[t] = Cardinality(Counted(t)')
    <2>1. ASSUME NEW t \in Topics, t # f
          PROVE  Cardinality(Counted(t)') = counts[t]
        <3>1. Counted(t)' = Counted(t)
            BY <1>1, <2>1, CountedMoves
        <3>2. counts[t] = Cardinality(Counted(t))
            BY <1>4
        <3> QED
            BY <3>1, <3>2
    <2>5. ASSUME counts'[f] = Cardinality(Counted(f)'),
                 \A t \in Topics : t # f => counts'[t] = counts[t],
                 NEW t \in Topics
          PROVE  counts'[t] = Cardinality(Counted(t)')
        <3>2. CASE t = f
            <4>1. stream'[s].filter = t
                BY <1>1, <3>2, GotoMoves
            <4>2. Counted(f)' = Counted(t)'
                BY <4>1 DEF Counted
            <4> QED
                BY <2>5, <3>2, <4>2
        <3>3. CASE t # f
            <4>1. Cardinality(Counted(t)') = counts[t]
                BY <2>1, <3>3
            <4>2. counts'[t] = counts[t]
                BY <2>5, <3>3
            <4> QED
                BY <4>1, <4>2
        <3> QED
            BY <3>2, <3>3
    <2>2. CASE stream[s].pc \in Uncounted <=> pc \in Uncounted
        <3>1. Counted(f)' = Counted(f)
            BY <1>1, <2>2, CountedMoves
        <3>2. counts' = counts
            BY <2>2
        <3>3. counts'[f] = Cardinality(Counted(f)')
            BY <1>2, <1>4, <3>1, <3>2
        <3>4. \A t \in Topics : counts'[t] = counts[t]
            BY <3>2
        <3> QED
            BY <1>1, <2>5, <3>2, <3>3
    <2>3. CASE stream[s].pc \in Uncounted /\ pc \notin Uncounted
        <3>1. Cardinality(Counted(f)') = Cardinality(Counted(f)) + 1
            BY <1>1, <2>3, CountedMoves
        <3>2. counts' = [counts EXCEPT ![f] = counts[f] + 1]
            BY <2>3 DEF MoreCounted
        <3> HIDE DEF f
        <3>3. /\ counts[f] \in Int /\ counts'[f] = counts[f] + 1
              /\ \A t \in Topics : t # f => counts'[t] = counts[t]
              /\ counts' \in [Topics -> Int]
            BY <1>1, <1>2, <3>2
        <3>4. counts'[f] = Cardinality(Counted(f)')
            BY <1>2, <1>4, <3>1, <3>3
        <3> QED
            BY <2>5, <3>3, <3>4
    <2>4. CASE stream[s].pc \notin Uncounted /\ pc \in Uncounted
        <3>1. Cardinality(Counted(f)') = Cardinality(Counted(f)) - 1
            BY <1>1, <2>4, CountedMoves
        <3>2. counts' = [counts EXCEPT ![f] = counts[f] - 1]
            BY <2>4 DEF LessCounted
        <3> HIDE DEF f
        <3>3. /\ counts[f] \in Int /\ counts'[f] = counts[f] - 1
              /\ \A t \in Topics : t # f => counts'[t] = counts[t]
              /\ counts' \in [Topics -> Int]
            BY <1>1, <1>2, <3>2
        <3>4. counts'[f] = Cardinality(Counted(f)')
            BY <1>2, <1>4, <3>1, <3>3
        <3> QED
            BY <2>5, <3>3, <3>4
    <2> QED
        BY <2>2, <2>3, <2>4
<1>6. CountsRight'
    BY <1>5 DEF CountsRight
<1>7. counts' \in [Topics -> 0 .. Cardinality(Streams)]
    <2>1. \A t \in Topics : Counted(t)' \in SUBSET Streams
        BY DEF Counted
    <2>2. \A t \in Topics : counts'[t] \in 0 .. Cardinality(Streams)
        BY <1>5, <2>1, StreamsFinite
    <2> QED
        BY <1>5, <2>2
<1>8. MqttTypeOK'
    <2>1. pending' \in 0 .. Cardinality(Base) + 2 * Cardinality(Streams)
        BY <1>3, PendingFits
    <2> QED
        BY <1>2, <1>7, <2>1 DEF Shape, MqttTypeOK, Packets
<1>9. ExtraWatched'
    BY DEF Shape, ExtraWatched
<1> QED
    BY <1>3, <1>6, <1>8, <1>9 DEF Shape

\* A step of a watcher keeps the types and the counters.
LEMMA WatchShape ==
    ASSUME Shape, NEW s \in Streams, WatchStep(s) \/ Serve(s)
    PROVE  Shape'
<1> DEFINE f == stream[s].filter
<1>1. /\ stream \in [Streams -> Request] /\ ready \in BOOLEAN /\ crossed \in BOOLEAN
      /\ wire \in Seq(Packets) /\ pending \in Nat
    BY BaseFinite DEF Shape, MqttTypeOK, Packets
<1>2. stream[s].pc \in Steps /\ f \in Topics
    BY <1>1 DEF Request, Steps, Topics
<1> USE DEF loopVars
<1>3. CASE Count(s)
    <2>1. PICK pc \in {"counted", "watched"} : Goto(s, pc)
        BY <1>3 DEF Count
    <2>2. crossed' \in BOOLEAN /\ ready' \in BOOLEAN /\ wire' \in Seq(Packets)
        BY <1>1, <1>3 DEF Count
    <2>3. /\ stream[s].pc = "new" /\ MoreCounted(s)
          /\ UNCHANGED <<conn, ready, pending, extra, wire, subs, breaks, overtaken, refused>>
        BY <1>3 DEF Count, MoreCounted
    <2>4. stream[s].pc \in Uncounted /\ pc \notin Uncounted /\ pc \in Steps
          /\ stream[s].pc \notin Past
        BY <2>1, <2>3 DEF Steps, Past, Uncounted
    <2> QED
        BY <1>1, <2>1, <2>2, <2>3, <2>4, WatchShapeOf
<1>4. CASE CheckConnected(s)
    <2>1. PICK pc \in {"checked", "subscribing"} : Goto(s, pc)
        BY <1>4 DEF CheckConnected
    <2> QED
        BY <1>1, <1>4, <2>1, WatchShapeOf DEF CheckConnected, Steps, Past, Uncounted
<1>5. CASE Expect(s)
    BY <1>1, <1>5, WatchShapeOf DEF Expect, Steps, Past, Uncounted
<1>6. CASE SendSubscribe(s)
    <2>1. wire' \in Seq(Packets)
        BY <1>1, <1>2, <1>6, AppendProperties DEF SendSubscribe, Subscribe, Packets
    <2> QED
        BY <1>1, <1>6, <2>1, WatchShapeOf DEF SendSubscribe, Steps, Past, Uncounted
<1>7. CASE SubscribeFails(s)
    <2>1. PICK pc \in {"set", "watched"} : Goto(s, pc)
        BY <1>7 DEF SubscribeFails
    <2>2. pending' \in Nat /\ pending' <= pending
        BY <1>1, <1>7 DEF SubscribeFails, Predecessor
    <2> QED
        BY <1>1, <1>7, <2>1, <2>2, WatchShapeOf DEF SubscribeFails, Steps, Past, Uncounted
<1>8. CASE SetReady(s)
    BY <1>1, <1>8, WatchShapeOf DEF SetReady, Steps, Past, Uncounted
<1>9. CASE Uncount(s)
    <2>1. PICK pc \in {"leaving", "over"} : Goto(s, pc)
        BY <1>9 DEF Uncount
    <2>4. crossed' \in BOOLEAN /\ ready' \in BOOLEAN /\ wire' \in Seq(Packets)
        BY <1>1, <1>9 DEF Uncount
    <2>2. /\ stream[s].pc = "closed" /\ LessCounted(s)
          /\ UNCHANGED <<conn, ready, pending, extra, wire, subs, breaks, overtaken, refused,
                         crossed>>
        BY <1>9 DEF Uncount, LessCounted
    <2>3. stream[s].pc \notin Uncounted /\ pc \in Uncounted /\ pc \in Steps /\ pc \in Past
        BY <2>1, <2>2 DEF Steps, Past, Uncounted
    <2> QED
        BY <1>1, <2>1, <2>2, <2>3, <2>4, WatchShapeOf
<1>10. CASE SendUnsubscribe(s)
    <2>1. wire' \in Seq(Packets)
        BY <1>1, <1>2, <1>10, AppendProperties DEF SendUnsubscribe, Unsubscribe, Packets
    <2> QED
        BY <1>1, <1>10, <2>1, WatchShapeOf DEF SendUnsubscribe, Steps, Past, Uncounted
<1>11. CASE Serve(s)
    <2>1. PICK pc \in {"open", "closed"} : Goto(s, pc)
        BY <1>11 DEF Serve
    <2> QED
        BY <1>1, <1>11, <2>1, WatchShapeOf DEF Serve, Steps, Past, Uncounted
<1> QED
    BY <1>3, <1>4, <1>5, <1>6, <1>7, <1>8, <1>9, <1>10, <1>11 DEF WatchStep

\* The topics somebody watches are as many as the streams, at most.
LEMMA WatchedFew ==
    ASSUME Shape
    PROVE  /\ Watched \ Base \subseteq Filters /\ IsFiniteSet(Watched \ Base)
           /\ Cardinality(Watched \ Base) <= Cardinality(Streams)
           /\ Cardinality(Watched \ Base) \in Nat
<1> DEFINE watch == [s \in Streams |-> stream[s].filter]
           all == {watch[s] : s \in Streams}
<1>1. watch \in Surjection(Streams, all)
    BY DEF Surjection
<1>2. IsFiniteSet(all) /\ Cardinality(all) <= Cardinality(Streams)
    <2> HIDE DEF watch, all
    <2> QED
        BY <1>1, FS_Surjection, PlatformMqttAssumption
<1>3. ASSUME NEW t \in Watched \ Base
      PROVE  t \in all /\ t \in Filters
    <2>1. t \in Topics /\ counts[t] > 0 /\ counts[t] = Cardinality(Counted(t))
        BY <1>3 DEF Watched, Shape, CountsRight
    <2>2. Counted(t) # {}
        BY <2>1, FS_EmptySet
    <2>3. PICK s \in Streams : stream[s].filter = t
        BY <2>2 DEF Counted
    <2> QED
        BY <1>3, <2>1, <2>3 DEF Topics
<1>4. Watched \ Base \in SUBSET all
    BY <1>3
<1> HIDE DEF all
<1>5. /\ IsFiniteSet(Watched \ Base)
      /\ Cardinality(Watched \ Base) <= Cardinality(all)
      /\ Cardinality(Watched \ Base) \in Nat /\ Cardinality(all) \in Nat
    BY <1>2, <1>4, FS_Subset, FS_CardinalityType
<1> QED
    BY <1>2, <1>3, <1>5, BaseFinite

\* So does a step of the client's network thread, or of the broker.
LEMMA LoopShape ==
    ASSUME Shape, LoopStep
    PROVE  Shape'
<1>1. /\ conn \in Connection /\ ready \in BOOLEAN /\ overtaken \in BOOLEAN
      /\ wire \in Seq(Packets) /\ pending \in Nat /\ subs \subseteq Topics
      /\ refused \subseteq Topics
      /\ extra \subseteq Filters /\ breaks \in 0 .. MaxBreaks
      /\ stream \in [Streams -> Request] /\ crossed \in BOOLEAN
      /\ counts \in [Topics -> 0 .. Cardinality(Streams)]
    BY BaseFinite DEF Shape, MqttTypeOK, Packets
<1>2. UNCHANGED <<counts, stream, crossed>>
    BY DEF LoopStep, Connect, Connack, Refused, OnConnect, SubscribeAll, OnSubscribe,
           OnUnsubscribe, Lose, OnDisconnect, watchVars
<1>3. CountsRight' /\ PastExpect' = PastExpect
    <2>1. \A t : Counted(t)' = Counted(t)
        BY <1>2 DEF Counted
    <2> QED
        BY <1>2, <2>1 DEF Shape, CountsRight, PastExpect
<1>4. Cardinality(PastExpect) \in Nat
    BY StreamsFinite DEF PastExpect
\* Every step leaves the rest as it should be.
<1>5. SUFFICES /\ conn' \in Connection /\ ready' \in BOOLEAN /\ overtaken' \in BOOLEAN
               /\ wire' \in Seq(Packets) /\ subs' \subseteq Topics
               /\ refused' \subseteq Topics
               /\ extra' \subseteq Filters /\ breaks' \in 0 .. MaxBreaks
               /\ pending' \in Nat /\ PendingBounded' /\ ExtraWatched'
    BY <1>1, <1>2, <1>3, PendingFits DEF Shape, MqttTypeOK, Packets
<1>6. /\ pending' \in Nat /\ pending' <= pending => PendingBounded'
      /\ pending' = Cardinality(Base) + Cardinality(Watched \ Base)
             => pending' \in Nat /\ PendingBounded'
    <2>1. pending <= Cardinality(Base) + Cardinality(Streams) + Cardinality(PastExpect)
        BY DEF Shape, PendingBounded
    <2>2. /\ Cardinality(Watched \ Base) \in Nat
          /\ Cardinality(Watched \ Base) <= Cardinality(Streams)
        BY WatchedFew
    <2>3. PendingBounded' <=>
              pending' <= Cardinality(Base) + Cardinality(Streams) + Cardinality(PastExpect)
        BY <1>3 DEF PendingBounded
    <2> QED
        BY <1>1, <1>4, <2>1, <2>2, <2>3, BaseFinite
<1>7. /\ IsFiniteSet(extra) /\ extra \cap Base = {} /\ (conn # "reset" => extra = {})
    BY DEF Shape, ExtraWatched
<1>8. /\ IsFiniteSet({}) /\ <<>> \in Seq(Packets)
    BY FS_EmptySet, EmptySeq
<1>9. CASE Connect \/ Connack
    BY <1>1, <1>6, <1>7, <1>9 DEF Connect, Connack, Connection, ExtraWatched
<1>10. CASE Refused
    <2>1. breaks' \in 0 .. MaxBreaks
        BY <1>1, <1>10, PlatformMqttAssumption DEF Refused
    <2>2. ExtraWatched'
        BY <1>7, <1>10 DEF Refused, ExtraWatched
    <2>3. /\ conn' = "down" /\ ready' = FALSE /\ wire' = <<>>
          /\ UNCHANGED <<pending, extra, subs, overtaken, refused>>
        BY <1>10 DEF Refused
    <2>4. overtaken' \in BOOLEAN /\ ready' \in BOOLEAN
        BY <1>1, <1>10 DEF Refused
    <2>5. pending' \in Nat /\ PendingBounded'
        BY <1>1, <1>6, <2>3
    <2> QED
        BY <1>1, <1>8, <2>1, <2>2, <2>3, <2>4, <2>5 DEF Connection
<1>11. CASE OnConnect
    <2>1. /\ Watched \ Base \subseteq Filters /\ IsFiniteSet(Watched \ Base)
        BY WatchedFew
    <2>2. /\ extra' = Watched \ Base
          /\ pending' = Cardinality(Base) + Cardinality(Watched \ Base)
          /\ conn' = "reset" /\ ready' = FALSE
          /\ UNCHANGED <<wire, subs, breaks, refused>>
        BY <1>11 DEF OnConnect, Expected
    <2>3. overtaken' \in BOOLEAN
        BY <1>1, <1>11 DEF OnConnect
    <2>4. ExtraWatched'
        BY <2>1, <2>2 DEF ExtraWatched
    <2> QED
        BY <1>1, <1>6, <2>1, <2>2, <2>3, <2>4 DEF Connection
<1>12. CASE SubscribeAll
    <2>1. wire' = wire \o Seqs!SetToSeq(Asked)
        BY <1>12 DEF SubscribeAll, Asked
    <2>2. Seqs!SetToSeq(Asked) \in Seq(Packets)
        BY <1>7, AskedOnce DEF Shape
    <2>3. wire' \in Seq(Packets)
        <3> DEFINE q == Seqs!SetToSeq(Asked)
        <3>1. wire' = wire \o q /\ q \in Seq(Packets)
            BY <2>1, <2>2
        <3> HIDE DEF q
        <3> QED
            BY <1>1, <3>1, ConcatProperties
    <2> QED
        BY <1>1, <1>6, <1>8, <1>12, <2>3 DEF SubscribeAll, Connection, ExtraWatched
<1>13. CASE OnSubscribe
    <2>1. Tail(wire) \in Seq(Packets) /\ Head(wire) \in Packets
        BY <1>1, <1>13, TailParts DEF OnSubscribe
    <2>2. Head(wire).topic \in Topics
        BY <2>1 DEF Packets
    <2>3. pending' \in Nat /\ pending' <= pending
        BY <1>1, <1>13 DEF OnSubscribe, Predecessor
    <2>4. ready' \in BOOLEAN
        BY <1>1, <1>13 DEF OnSubscribe
    <2>5. ExtraWatched'
        BY <1>7, <1>13 DEF OnSubscribe, ExtraWatched
    <2>6. conn' \in Connection /\ extra' \subseteq Filters /\ breaks' \in 0 .. MaxBreaks
          /\ overtaken' \in BOOLEAN
        BY <1>1, <1>13 DEF OnSubscribe
    <2>7. /\ wire' \in Seq(Packets) /\ subs' \subseteq Topics
          /\ refused' \subseteq Topics
        BY <1>1, <1>13, <2>1, <2>2 DEF OnSubscribe
    <2> QED
        BY <1>6, <2>3, <2>4, <2>5, <2>6, <2>7
<1>14. CASE OnUnsubscribe
    <2>1. Tail(wire) \in Seq(Packets)
        BY <1>1, <1>14, TailParts DEF OnUnsubscribe
    <2> QED
        BY <1>1, <1>6, <1>7, <1>14, <2>1 DEF OnUnsubscribe, ExtraWatched
<1>15. CASE Lose
    <2>1. breaks' \in 0 .. MaxBreaks
        BY <1>1, <1>15, PlatformMqttAssumption DEF Lose
    <2>2. overtaken' \in BOOLEAN
        BY <1>1, <1>15 DEF Lose
    <2>3. conn' \in Connection /\ ExtraWatched'
        BY <1>7, <1>15 DEF Lose, Connection, ExtraWatched
    <2>4. UNCHANGED <<ready, pending, extra>> /\ wire' = <<>> /\ subs' = {} /\ refused' = {}
        BY <1>15 DEF Lose
    <2> QED
        BY <1>1, <1>6, <1>8, <2>1, <2>2, <2>3, <2>4
<1>16. CASE OnDisconnect
    <2>1. overtaken' \in BOOLEAN /\ ready' \in BOOLEAN
        BY <1>1, <1>16 DEF OnDisconnect, ReadyCleared
    <2> QED
        BY <1>1, <1>6, <1>7, <1>16, <2>1 DEF OnDisconnect, Connection, ExtraWatched
<1> QED
    BY <1>9, <1>10, <1>11, <1>12, <1>13, <1>14, <1>15, <1>16 DEF LoopStep

-----------------------------------------------------------------------------
(* The platform's own topics                                               *)

\* The wire with one more packet.
LEMMA AppendParts ==
    ASSUME NEW w \in Seq(Packets), NEW p \in Packets
    PROVE  /\ Append(w, p) \in Seq(Packets)
           /\ Len(w) \in Nat /\ DOMAIN w = 1 .. Len(w)
           /\ DOMAIN Append(w, p) = 1 .. Len(w) + 1
           /\ \A n \in 1 .. Len(w) : Append(w, p)[n] = w[n]
           /\ Append(w, p)[Len(w) + 1] = p
<1>1. /\ Append(w, p) \in Seq(Packets) /\ Len(Append(w, p)) = Len(w) + 1
      /\ \A n \in 1 .. Len(w) : Append(w, p)[n] = w[n]
      /\ Append(w, p)[Len(w) + 1] = p
    BY AppendProperties
<1> QED
    BY <1>1, LenProperties

InWire(p, w) == \E n \in DOMAIN w : w[n] = p

NoBaseUnsubscribed(w) == \A n \in DOMAIN w : w[n].kind = "unsubscribe" => w[n].topic \notin Base

NobodyLeavesBase == \A s \in Streams : stream[s].pc = "leaving" => stream[s].filter \notin Base

\* BaseAsked, conjunct by conjunct.
LEMMA BaseAskedParts ==
    /\ BaseAsked <=> /\ conn = "up" => \A t \in Base : t \in Answered \/ InWire(Subscribe(t), wire)
                     /\ NoBaseUnsubscribed(wire)
                     /\ NobodyLeavesBase
                     /\ ~HasSocket => wire = <<>>
    /\ BaseAsked' <=> /\ conn' = "up" => \A t \in Base : t \in Answered' \/ InWire(Subscribe(t), wire')
                      /\ NoBaseUnsubscribed(wire')
                      /\ NobodyLeavesBase'
                      /\ conn' \in {"down", "lost"} => wire' = <<>>
BY DEF BaseAsked, InWire, NoBaseUnsubscribed, NobodyLeavesBase, HasSocket

\* A packet that is sent goes behind those on their way.
LEMMA AppendWire ==
    ASSUME NEW w \in Seq(Packets), NEW p \in Packets
    PROVE  /\ \A q : InWire(q, w) => InWire(q, Append(w, p))
           /\ InWire(p, Append(w, p))
           /\ NoBaseUnsubscribed(w) /\ (p.kind = "unsubscribe" => p.topic \notin Base)
                  => NoBaseUnsubscribed(Append(w, p))
<1> DEFINE v == Append(w, p)
<1>1. /\ Len(w) \in Nat /\ DOMAIN w = 1 .. Len(w) /\ DOMAIN v = 1 .. Len(w) + 1
      /\ \A n \in 1 .. Len(w) : v[n] = w[n]
      /\ v[Len(w) + 1] = p
    BY AppendParts
<1> HIDE DEF v
<1>2. \A n \in DOMAIN v : n \in DOMAIN w \/ n = Len(w) + 1
    BY <1>1
<1>3. \A n \in DOMAIN w : n \in DOMAIN v /\ v[n] = w[n]
    BY <1>1
<1>4. Len(w) + 1 \in DOMAIN v
    BY <1>1
<1>5. /\ \A q : InWire(q, w) => InWire(q, v)
      /\ InWire(p, v)
    BY <1>1, <1>3, <1>4 DEF InWire
<1>6. NoBaseUnsubscribed(w) /\ (p.kind = "unsubscribe" => p.topic \notin Base)
          => NoBaseUnsubscribed(v)
    BY <1>1, <1>2, <1>3 DEF NoBaseUnsubscribed
<1> QED
    BY <1>5, <1>6 DEF v

\* A packet that is read is the first of them.
LEMMA TailWire ==
    ASSUME NEW w \in Seq(Packets), w # <<>>
    PROVE  /\ \A q : InWire(q, w) => q = Head(w) \/ InWire(q, Tail(w))
           /\ NoBaseUnsubscribed(w) => NoBaseUnsubscribed(Tail(w))
           /\ NoBaseUnsubscribed(w) /\ Head(w).kind = "unsubscribe" => Head(w).topic \notin Base
<1> DEFINE v == Tail(w)
<1>1. /\ Head(w) = w[1] /\ Len(w) \in Nat \ {0} /\ DOMAIN w = 1 .. Len(w)
      /\ DOMAIN v = 1 .. Len(w) - 1
      /\ \A n \in 1 .. Len(w) - 1 : v[n] = w[n + 1]
    BY TailParts
<1> HIDE DEF v
<1>2. \A n \in DOMAIN v : n + 1 \in DOMAIN w /\ v[n] = w[n + 1]
    BY <1>1
<1>3. ASSUME NEW n \in DOMAIN w, n # 1
      PROVE  n - 1 \in DOMAIN v /\ v[n - 1] = w[n]
    <2>1. n - 1 \in 1 .. Len(w) - 1 /\ (n - 1) + 1 = n
        BY <1>1, <1>3
    <2> QED
        BY <1>1, <2>1
<1>4. \A q : InWire(q, w) => q = Head(w) \/ InWire(q, v)
    BY <1>1, <1>3 DEF InWire
<1>5. 1 \in DOMAIN w
    BY <1>1
<1>6. NoBaseUnsubscribed(w) => /\ NoBaseUnsubscribed(v)
                               /\ Head(w).kind = "unsubscribe" => Head(w).topic \notin Base
    BY <1>1, <1>2, <1>5 DEF NoBaseUnsubscribed
<1> QED
    BY <1>4, <1>6 DEF v

\* The wire after the subscriptions of _on_connect.
LEMMA AskedWire ==
    ASSUME Shape
    PROVE  LET v == wire \o Seqs!SetToSeq(Asked) IN
           /\ v \in Seq(Packets)
           /\ Cardinality(SubscribesIn(v)) = Cardinality(SubscribesIn(wire))
                                                 + Cardinality(Base) + Cardinality(extra)
           /\ Len(wire) \in Nat /\ DOMAIN wire = 1 .. Len(wire) /\ DOMAIN wire \subseteq DOMAIN v
           /\ \A n \in DOMAIN wire : v[n] = wire[n]
           /\ \A n \in DOMAIN v : n \notin DOMAIN wire => n > Len(wire) /\ v[n] \in Asked
           /\ \A t \in Base \cup extra : \E n \in DOMAIN v : n > Len(wire) /\ v[n] = Subscribe(t)
<1> DEFINE q == Seqs!SetToSeq(Asked)
           v == wire \o q
<1>1. MqttTypeOK /\ ExtraWatched /\ IsFiniteSet(extra) /\ wire \in Seq(Packets)
    BY DEF Shape, ExtraWatched, MqttTypeOK, Packets
<1>2. /\ q \in Seq(Packets)
      /\ Len(q) = Cardinality(Base) + Cardinality(extra)
      /\ \A n \in 1 .. Len(q) : q[n] \in Asked
      /\ \A t \in Base \cup extra : \E n \in 1 .. Len(q) : q[n] = Subscribe(t)
    BY <1>1, AskedOnce
<1> HIDE DEF q
<1>3. \A n \in 1 .. Len(q) : q[n].kind = "subscribe"
    BY <1>2 DEF Asked, Subscribe
<1>4. /\ v \in Seq(Packets) /\ DOMAIN v = 1 .. Len(wire) + Len(q)
      /\ Len(wire) \in Nat /\ Len(q) \in Nat /\ DOMAIN wire = 1 .. Len(wire)
      /\ \A n \in 1 .. Len(wire) : v[n] = wire[n]
      /\ \A n \in 1 .. Len(q) : v[Len(wire) + n] = q[n]
      /\ Cardinality(SubscribesIn(v)) = Cardinality(SubscribesIn(wire)) + Len(q)
    BY <1>1, <1>2, <1>3, SubscribesConcat
<1> HIDE DEF v
<1>5. ASSUME NEW n \in DOMAIN v, n \notin DOMAIN wire
      PROVE  n > Len(wire) /\ v[n] \in Asked
    <2>1. n - Len(wire) \in 1 .. Len(q) /\ n = Len(wire) + (n - Len(wire)) /\ n > Len(wire)
        BY <1>4, <1>5
    <2> QED
        BY <1>2, <1>4, <2>1
<1>6. ASSUME NEW t \in Base \cup extra
      PROVE  \E n \in DOMAIN v : n > Len(wire) /\ v[n] = Subscribe(t)
    <2>1. PICK n \in 1 .. Len(q) : q[n] = Subscribe(t)
        BY <1>2
    <2>2. Len(wire) + n \in DOMAIN v /\ Len(wire) + n > Len(wire)
        BY <1>4, <2>1
    <2> QED
        BY <1>4, <2>1, <2>2
<1>7. Cardinality(SubscribesIn(v)) = Cardinality(SubscribesIn(wire)) + Cardinality(Base) + Cardinality(extra)
    <2>1. Cardinality(SubscribesIn(wire)) \in Nat /\ Cardinality(Base) \in Nat /\ Cardinality(extra) \in Nat
        BY <1>1, SubscribesFinite, BaseFinite, FS_CardinalityType
    <2> QED
        BY <1>2, <1>4, <2>1
<1>8. DOMAIN wire \subseteq DOMAIN v
    BY <1>4
<1> QED
    BY <1>4, <1>5, <1>6, <1>7, <1>8 DEF v, q

\* What the broker answers, and what is no longer subscribed to.
LEMMA AnswersMove ==
    /\ OnSubscribe => Answered' = Answered \cup {Head(wire).topic}
    /\ OnUnsubscribe => Answered' = Answered \ {Head(wire).topic}
    BY DEF OnSubscribe, OnUnsubscribe, Answered

\* The network thread and the broker keep BaseAsked.
LEMMA LoopBase ==
    ASSUME Shape, BaseAsked, LoopStep
    PROVE  BaseAsked'
<1>1. /\ wire \in Seq(Packets) /\ UNCHANGED stream
    BY DEF Shape, MqttTypeOK, Packets, LoopStep, Connect, Connack, Refused, OnConnect, SubscribeAll,
           OnSubscribe, OnUnsubscribe, Lose, OnDisconnect, watchVars
<1>2. /\ conn = "up" => \A t \in Base : t \in Answered \/ InWire(Subscribe(t), wire)
      /\ NoBaseUnsubscribed(wire)
      /\ NobodyLeavesBase
      /\ ~HasSocket => wire = <<>>
    BY BaseAskedParts
<1>3. NobodyLeavesBase' /\ NoBaseUnsubscribed(<<>>)
    BY <1>1, <1>2 DEF NobodyLeavesBase, NoBaseUnsubscribed
<1>4. SUFFICES /\ conn' = "up" => \A t \in Base : t \in Answered' \/ InWire(Subscribe(t), wire')
               /\ NoBaseUnsubscribed(wire')
               /\ conn' \in {"down", "lost"} => wire' = <<>>
    BY <1>3, BaseAskedParts
<1>5. CASE Connect \/ Connack
    BY <1>2, <1>5 DEF Connect, Connack, Answered
<1>6. CASE Refused
    BY <1>3, <1>6 DEF Refused
<1>7. CASE OnConnect
    BY <1>2, <1>7 DEF OnConnect
<1>8. CASE SubscribeAll
    <2> DEFINE v == wire \o Seqs!SetToSeq(Asked)
    <2>1. wire' = v /\ conn' = "up"
        BY <1>8 DEF SubscribeAll, Asked
    <2>2. /\ \A n \in DOMAIN wire : v[n] = wire[n]
          /\ \A n \in DOMAIN v : n \notin DOMAIN wire => n > Len(wire) /\ v[n] \in Asked
          /\ \A t \in Base \cup extra : \E n \in DOMAIN v : n > Len(wire) /\ v[n] = Subscribe(t)
        BY AskedWire
    <2> HIDE DEF v
    <2>3. NoBaseUnsubscribed(v)
        BY <1>2, <2>2 DEF NoBaseUnsubscribed, Asked, Subscribe
    <2>4. \A t \in Base : InWire(Subscribe(t), v)
        BY <2>2 DEF InWire
    <2> QED
        BY <2>1, <2>3, <2>4
<1>9. CASE OnSubscribe
    <2>1. /\ conn = "up" /\ conn' = "up" /\ wire # <<>> /\ wire' = Tail(wire)
          /\ Answered' = Answered \cup {Head(wire).topic}
        BY <1>9, AnswersMove DEF OnSubscribe
    <2>2. /\ \A q : InWire(q, wire) => q = Head(wire) \/ InWire(q, Tail(wire))
          /\ NoBaseUnsubscribed(Tail(wire))
        BY <1>1, <1>2, <2>1, TailWire
    <2>3. \A t \in Base : Subscribe(t) = Head(wire) => t \in Answered'
        BY <2>1 DEF Subscribe
    <2> QED
        BY <1>2, <2>1, <2>2, <2>3
<1>10. CASE OnUnsubscribe
    <2>1. /\ conn = "up" /\ conn' = "up" /\ wire # <<>> /\ wire' = Tail(wire)
          /\ Answered' = Answered \ {Head(wire).topic} /\ Head(wire).kind = "unsubscribe"
        BY <1>10, AnswersMove DEF OnUnsubscribe
    <2>2. /\ \A q : InWire(q, wire) => q = Head(wire) \/ InWire(q, Tail(wire))
          /\ NoBaseUnsubscribed(Tail(wire))
          /\ Head(wire).topic \notin Base
        BY <1>1, <1>2, <2>1, TailWire
    <2>3. \A t \in Base : Subscribe(t) # Head(wire)
        BY <2>1 DEF Subscribe
    <2> QED
        BY <1>2, <2>1, <2>2, <2>3
<1>11. CASE Lose
    BY <1>3, <1>11 DEF Lose
<1>12. CASE OnDisconnect
    BY <1>2, <1>12 DEF OnDisconnect, HasSocket, Answered
<1> QED
    BY <1>5, <1>6, <1>7, <1>8, <1>9, <1>10, <1>11, <1>12 DEF LoopStep

\* A watcher keeps it: who unsubscribes has a topic that is not of the base.
LEMMA WatchBase ==
    ASSUME Shape, BaseAsked, NEW s \in Streams, WatchStep(s) \/ Serve(s)
    PROVE  BaseAsked'
<1> DEFINE f == stream[s].filter
<1>1. /\ wire \in Seq(Packets) /\ stream \in [Streams -> Request] /\ f \in Topics
    BY DEF Shape, MqttTypeOK, Packets, Request, Topics
<1>2. /\ conn = "up" => \A t \in Base : t \in Answered \/ InWire(Subscribe(t), wire)
      /\ NoBaseUnsubscribed(wire)
      /\ NobodyLeavesBase
      /\ ~HasSocket => wire = <<>>
    BY BaseAskedParts
<1>3. ASSUME NEW pc \in Steps, Goto(s, pc), pc = "leaving" => f \notin Base
      PROVE  NobodyLeavesBase'
    <2>1. /\ stream'[s].pc = pc /\ stream'[s].filter = f
          /\ \A r \in Streams : r # s => stream'[r] = stream[r]
        BY <1>1, <1>3, GotoMoves
    <2> QED
        BY <1>2, <1>3, <2>1 DEF NobodyLeavesBase
<1>4. ASSUME UNCHANGED <<conn, wire, Answered>>, NobodyLeavesBase'
      PROVE  BaseAsked'
    BY <1>2, <1>4, BaseAskedParts DEF HasSocket
<1> USE DEF loopVars
<1>5. CASE Count(s)
    <2>1. Goto(s, "counted") \/ Goto(s, "watched")
        BY <1>5 DEF Count
    <2> QED
        BY <1>3, <1>4, <1>5, <2>1 DEF Count, Steps, Answered
<1>6. CASE CheckConnected(s) \/ Expect(s) \/ SetReady(s) \/ Serve(s)
    <2>1. \E pc \in Steps \ {"leaving"} : Goto(s, pc)
        BY <1>6 DEF CheckConnected, Expect, SetReady, Serve, Steps
    <2>2. UNCHANGED <<conn, wire, Answered>>
        BY <1>6 DEF CheckConnected, Expect, SetReady, Serve, Answered
    <2> QED
        BY <1>3, <1>4, <2>1, <2>2
<1>7. CASE SendSubscribe(s)
    <2>1. /\ HasSocket /\ wire' = Append(wire, Subscribe(f)) /\ Goto(s, "watched")
          /\ UNCHANGED <<conn, Answered>>
        BY <1>7 DEF SendSubscribe, Answered
    <2>2. Subscribe(f) \in Packets /\ Subscribe(f).kind # "unsubscribe"
        BY <1>1 DEF Subscribe, Packets
    <2>3. NobodyLeavesBase'
        BY <1>3, <2>1 DEF Steps
    <2>4. /\ \A q : InWire(q, wire) => InWire(q, wire')
          /\ NoBaseUnsubscribed(wire')
        BY <1>1, <1>2, <2>1, <2>2, AppendWire
    <2> QED
        BY <1>2, <2>1, <2>3, <2>4, BaseAskedParts DEF HasSocket
<1>8. CASE SubscribeFails(s)
    <2>1. Goto(s, "set") \/ Goto(s, "watched")
        BY <1>8 DEF SubscribeFails
    <2> QED
        BY <1>3, <1>4, <1>8, <2>1 DEF SubscribeFails, Steps, Answered
<1>9. CASE Uncount(s)
    <2>1. (Goto(s, "leaving") /\ f \notin Base) \/ Goto(s, "over")
        BY <1>9 DEF Uncount
    <2> QED
        BY <1>3, <1>4, <1>9, <2>1 DEF Uncount, Steps, Answered
<1>10. CASE SendUnsubscribe(s)
    <2>1. /\ wire' = IF HasSocket THEN Append(wire, Unsubscribe(f)) ELSE wire
          /\ Goto(s, "over") /\ UNCHANGED <<conn, Answered>> /\ stream[s].pc = "leaving"
        BY <1>10 DEF SendUnsubscribe, Answered
    <2>2. NobodyLeavesBase'
        BY <1>3, <2>1 DEF Steps
    <2>3. f \notin Base
        BY <1>2, <2>1 DEF NobodyLeavesBase
    <2>4. CASE HasSocket
        <3>1. Unsubscribe(f) \in Packets /\ Unsubscribe(f).topic = f
            BY <1>1 DEF Unsubscribe, Packets
        <3>2. /\ \A q : InWire(q, wire) => InWire(q, wire')
              /\ NoBaseUnsubscribed(wire')
            BY <1>1, <1>2, <2>1, <2>3, <2>4, <3>1, AppendWire
        <3> QED
            BY <1>2, <2>1, <2>2, <2>4, <3>2, BaseAskedParts DEF HasSocket
    <2>5. CASE ~HasSocket
        BY <1>4, <2>1, <2>2, <2>5
    <2> QED
        BY <2>4, <2>5
<1> QED
    BY <1>5, <1>6, <1>7, <1>8, <1>9, <1>10 DEF WatchStep

-----------------------------------------------------------------------------
(* What is pending, on a connection that nothing overtook                  *)

\* The network thread and the broker keep NotOvertaken: they count each
\* SUBACK they wait for.
LEMMA LoopOvertaken ==
    ASSUME Shape, BaseAsked, NotOvertaken, LoopStep
    PROVE  NotOvertaken'
<1>1. /\ conn \in Connection /\ wire \in Seq(Packets) /\ pending \in Nat /\ UNCHANGED stream
    BY BaseFinite DEF Shape, MqttTypeOK, Packets, LoopStep, Connect, Connack, Refused, OnConnect,
           SubscribeAll, OnSubscribe, OnUnsubscribe, Lose, OnDisconnect, watchVars
<1>2. BaseAsked'
    BY LoopBase
<1>3. Accounted' = Accounted /\ Cardinality(Accounted) \in Nat
    BY <1>1, StreamsFinite DEF Accounted
<1>4. /\ Cardinality(SubscribesIn(wire)) \in Nat /\ Cardinality(Base) \in Nat
      /\ Cardinality(extra) \in Nat
    BY <1>1, SubscribesFinite, BaseFinite, FS_CardinalityType DEF Shape, ExtraWatched
\* The history only grows.
<1>5. overtaken \in BOOLEAN /\ (overtaken => overtaken')
    BY DEF Shape, MqttTypeOK, LoopStep, Connect, Connack, Refused, OnConnect, SubscribeAll,
           OnSubscribe, OnUnsubscribe, Lose, OnDisconnect
<1>6. SUFFICES ASSUME ~overtaken'
               PROVE  SameConnection' /\ PendingExact' /\ ReadyIsHeard'
    BY DEF NotOvertaken
<1>7. SameConnection /\ PendingExact /\ ReadyIsHeard
    BY <1>5, <1>6 DEF NotOvertaken
\* Without a stream that watches the connection may change.
<1>8. ASSUME Watching = {}
      PROVE  SameConnection'
    <2>1. \A s \in Streams : stream[s].pc \notin {"counted", "checked", "subscribing", "account", "set"}
        BY <1>8 DEF Watching
    <2> QED
        BY <1>1, <2>1 DEF SameConnection
<1>9. CASE Connect
    <2>1. conn = "down" /\ conn' = "open" /\ ready' = ready
        BY <1>9 DEF Connect
    <2> QED
        BY <1>1, <1>7, <2>1 DEF SameConnection, PendingExact, ReadyIsHeard
<1>10. CASE Connack
    <2>1. conn = "open" /\ conn' = "acked" /\ ready' = ready
        BY <1>10 DEF Connack
    <2> QED
        BY <1>1, <1>7, <2>1 DEF SameConnection, PendingExact, ReadyIsHeard
<1>11. CASE Refused
    <2>1. conn = "open" /\ conn' = "down" /\ ready' = FALSE
        BY <1>11 DEF Refused
    <2> QED
        BY <1>1, <1>7, <2>1 DEF SameConnection, PendingExact, ReadyIsHeard
<1>12. CASE OnConnect
    <2>1. /\ Watching = {} /\ wire = <<>> /\ wire' = <<>> /\ conn' = "reset" /\ ready' = FALSE
          /\ pending' = Cardinality(Base) + Cardinality(extra')
        BY <1>6, <1>12 DEF OnConnect, Expected
    <2>2. Accounted = {} /\ Cardinality({}) = 0
        BY <2>1, FS_EmptySet DEF Accounted, Watching
    <2>3. Cardinality(SubscribesIn(<<>>)) = 0
        BY EmptySeq, SubscribesFinite
    <2>4. Cardinality(extra') \in Nat
        BY LoopShape, FS_CardinalityType DEF Shape, ExtraWatched
    <2>5. PendingExact'
        BY <1>3, <1>4, <2>1, <2>2, <2>3, <2>4 DEF PendingExact
    <2> QED
        BY <1>8, <2>1, <2>5 DEF ReadyIsHeard
<1>13. CASE SubscribeAll
    <2> DEFINE v == wire \o Seqs!SetToSeq(Asked)
    <2>1. /\ wire' = v /\ conn = "reset" /\ conn' = "up" /\ UNCHANGED <<ready, pending>>
        BY <1>13 DEF SubscribeAll, Asked
    <2>2. Cardinality(SubscribesIn(v)) = Cardinality(SubscribesIn(wire))
                                             + Cardinality(Base) + Cardinality(extra)
        BY AskedWire
    <2> HIDE DEF v
    <2>3. PendingExact'
        BY <1>3, <1>4, <1>7, <2>1, <2>2 DEF PendingExact
    <2>4. SameConnection' /\ ReadyIsHeard'
        BY <1>1, <1>7, <2>1 DEF SameConnection, ReadyIsHeard
    <2> QED
        BY <2>3, <2>4
<1>14. CASE OnSubscribe
    <2>1. /\ conn = "up" /\ conn' = "up" /\ wire # <<>> /\ Head(wire).kind = "subscribe"
          /\ wire' = Tail(wire) /\ Answered' = Answered \cup {Head(wire).topic}
          /\ pending' = Predecessor(pending)
          /\ ready' = (ready \/ pending' = 0)
        BY <1>14, AnswersMove DEF OnSubscribe
    <2>2. Cardinality(SubscribesIn(wire')) = Cardinality(SubscribesIn(wire)) - 1
        BY <1>1, <2>1, SubscribesTail
    <2>3. wire' \in Seq(Packets)
        BY <1>1, <2>1, TailParts
    <2>4. Cardinality(SubscribesIn(wire')) \in Nat
        BY <2>3, SubscribesFinite
    <2>5. pending = Cardinality(SubscribesIn(wire)) + Cardinality(Accounted)
        BY <1>7, <2>1 DEF PendingExact
    <2>6. pending' = Cardinality(SubscribesIn(wire')) + Cardinality(Accounted)
        BY <1>3, <1>4, <2>1, <2>2, <2>4, <2>5 DEF Predecessor
    <2>7. PendingExact'
        BY <1>3, <2>1, <2>6 DEF PendingExact
    <2>8. SameConnection'
        BY <1>1, <1>7, <2>1 DEF SameConnection
    <2>9. ASSUME ready'
          PROVE  Base \subseteq Answered'
        <3>1. CASE ready
            BY <1>7, <2>1, <3>1 DEF ReadyIsHeard
        <3>2. CASE pending' = 0
            <4>1. Cardinality(SubscribesIn(wire')) = 0
                BY <1>3, <2>4, <2>6, <3>2
            <4>2. \A n \in DOMAIN wire' : wire'[n].kind # "subscribe"
                BY <2>3, <4>1, SubscribesFinite
            <4>3. \A t \in Base : t \in Answered' \/ \E n \in DOMAIN wire' : wire'[n] = Subscribe(t)
                BY <1>2, <2>1 DEF BaseAsked
            <4> QED
                BY <4>2, <4>3 DEF Subscribe
        <3> QED
            BY <2>1, <2>9, <3>1, <3>2
    <2> QED
        BY <2>1, <2>7, <2>8, <2>9 DEF ReadyIsHeard
<1>15. CASE OnUnsubscribe
    <2>1. /\ conn = "up" /\ conn' = "up" /\ wire # <<>> /\ Head(wire).kind = "unsubscribe"
          /\ wire' = Tail(wire) /\ Answered' = Answered \ {Head(wire).topic}
          /\ UNCHANGED <<ready, pending>>
        BY <1>15, AnswersMove DEF OnUnsubscribe
    <2>2. Cardinality(SubscribesIn(wire')) = Cardinality(SubscribesIn(wire))
        BY <1>1, <2>1, SubscribesTail
    <2>3. Head(wire).topic \notin Base
        <3>1. NoBaseUnsubscribed(wire)
            BY BaseAskedParts
        <3> QED
            BY <1>1, <2>1, <3>1, TailWire
    <2>4. PendingExact'
        BY <1>3, <1>7, <2>1, <2>2 DEF PendingExact
    <2>5. SameConnection' /\ ReadyIsHeard'
        BY <1>1, <1>7, <2>1, <2>3 DEF SameConnection, ReadyIsHeard
    <2> QED
        BY <2>4, <2>5
<1>16. CASE Lose
    <2>1. /\ Watching = {} /\ conn \in {"open", "acked", "up"} /\ ready' = ready
          /\ conn' = IF conn = "open" THEN "down" ELSE "lost"
        BY <1>6, <1>16 DEF Lose
    <2>2. PendingExact'
        BY <2>1 DEF PendingExact
    <2>3. ReadyIsHeard'
        BY <1>7, <2>1 DEF ReadyIsHeard
    <2> QED
        BY <1>8, <2>1, <2>2, <2>3
<1>17. CASE OnDisconnect
    <2>1. Watching = {} /\ conn' = "down" /\ ready' = FALSE
        BY <1>6, <1>17 DEF OnDisconnect, ReadyCleared
    <2> QED
        BY <1>8, <2>1 DEF PendingExact, ReadyIsHeard
<1> QED
    BY <1>9, <1>10, <1>11, <1>12, <1>13, <1>14, <1>15, <1>16, <1>17 DEF LoopStep

\* A watcher that finds the connection as it was keeps it too.
LEMMA WatchOvertaken ==
    ASSUME Shape, BaseAsked, NotOvertaken, NEW s \in Streams, WatchStep(s) \/ Serve(s)
    PROVE  NotOvertaken'
<1> DEFINE f == stream[s].filter
           old == stream[s].pc
<1>1. /\ wire \in Seq(Packets) /\ stream \in [Streams -> Request] /\ f \in Topics
      /\ conn \in Connection /\ pending \in Nat
    BY BaseFinite DEF Shape, MqttTypeOK, Packets, Request, Topics
<1>2. /\ Cardinality(SubscribesIn(wire)) \in Nat /\ Cardinality(Base) \in Nat
      /\ Cardinality(extra) \in Nat /\ Cardinality(Accounted) \in Nat
    BY <1>1, SubscribesFinite, BaseFinite, FS_CardinalityType, AccountedMoves, StreamsFinite
       DEF Shape, ExtraWatched, Accounted
<1> USE DEF loopVars
<1>3. UNCHANGED <<conn, extra, Answered, overtaken>>
    BY DEF WatchStep, Serve, Count, CheckConnected, Expect, SendSubscribe, SubscribeFails, SetReady,
           Uncount, SendUnsubscribe, Answered
<1>4. SUFFICES ASSUME ~overtaken
               PROVE  SameConnection' /\ PendingExact' /\ ReadyIsHeard'
    BY <1>3 DEF NotOvertaken
<1>5. SameConnection /\ PendingExact /\ ReadyIsHeard
    BY <1>4 DEF NotOvertaken
\* Where a stream goes must fit the connection.
<1>6. ASSUME NEW pc \in Steps, Goto(s, pc),
             pc \in {"checked", "account", "set"} => conn \notin {"down", "open"},
             pc = "subscribing" => conn \in {"down", "open", "acked"},
             pc = "set" => conn = "lost"
      PROVE  SameConnection'
    <2>1. /\ stream'[s].pc = pc
          /\ \A r \in Streams : r # s => stream'[r] = stream[r]
        BY <1>1, <1>6, GotoMoves
    <2> QED
        BY <1>3, <1>5, <1>6, <2>1 DEF SameConnection
<1>7. ASSUME UNCHANGED ready
      PROVE  ReadyIsHeard'
    BY <1>3, <1>5, <1>7 DEF ReadyIsHeard
<1>8. ASSUME NEW pc \in Steps \ {"account"}, Goto(s, pc), old # "account",
             UNCHANGED <<wire, pending>>
      PROVE  PendingExact'
    <2>1. Accounted' = Accounted
        BY <1>1, <1>8, AccountedMoves
    <2> QED
        BY <1>3, <1>5, <1>8, <2>1 DEF PendingExact
<1>9. CASE Count(s)
    <2>1. PICK pc \in {"counted", "watched"} : Goto(s, pc)
        BY <1>9 DEF Count
    <2>2. old = "new" /\ UNCHANGED <<ready, wire, pending>>
        BY <1>9 DEF Count
    <2>3. pc \in Steps \ {"account"}
        BY <2>1 DEF Steps
    <2> QED
        BY <1>6, <1>7, <1>8, <2>1, <2>2, <2>3
<1>10. CASE CheckConnected(s)
    <2>1. /\ old = "counted" /\ UNCHANGED <<ready, wire, pending>>
          /\ Goto(s, IF IsConnected THEN "checked" ELSE "subscribing")
        BY <1>10 DEF CheckConnected
    <2>2. PICK pc \in {"checked", "subscribing"} :
              /\ Goto(s, pc) /\ pc \in Steps \ {"account"}
              /\ pc = "checked" => IsConnected
              /\ pc = "subscribing" => ~IsConnected
        BY <2>1 DEF Steps
    <2>3. /\ pc \in {"checked", "account", "set"} => conn \notin {"down", "open"}
          /\ pc = "subscribing" => conn \in {"down", "open", "acked"}
          /\ pc = "set" => conn = "lost"
        BY <1>1, <2>2 DEF IsConnected, Connection
    <2> QED
        BY <1>6, <1>7, <1>8, <2>1, <2>2, <2>3
<1>11. CASE Expect(s)
    <2>1. /\ old = "checked" /\ Goto(s, "account") /\ pending' = pending + 1
          /\ UNCHANGED <<ready, wire>>
        BY <1>11 DEF Expect
    <2>2. conn \notin {"down", "open"}
        BY <1>5, <2>1 DEF SameConnection
    <2>3. Cardinality(Accounted') = Cardinality(Accounted) + 1
        BY <1>1, <2>1, AccountedMoves DEF Steps
    <2>4. PendingExact'
        BY <1>2, <1>3, <1>5, <2>1, <2>3 DEF PendingExact
    <2> QED
        BY <1>6, <1>7, <2>1, <2>2, <2>4 DEF Steps
<1>12. CASE SendSubscribe(s)
    <2>1. /\ old \in {"subscribing", "account"} /\ HasSocket
          /\ wire' = Append(wire, Subscribe(f)) /\ Goto(s, "watched")
          /\ UNCHANGED <<ready, pending>>
        BY <1>12 DEF SendSubscribe
    <2>2. Cardinality(SubscribesIn(wire')) = Cardinality(SubscribesIn(wire)) + 1
        <3>1. Subscribe(f) \in Packets /\ Subscribe(f).kind = "subscribe"
            BY <1>1 DEF Subscribe, Packets
        <3> QED
            BY <1>1, <2>1, <3>1, SubscribesAppend
    <2>3. CASE old = "account"
        <3>1. Cardinality(Accounted') = Cardinality(Accounted) - 1
            BY <1>1, <2>1, <2>3, AccountedMoves DEF Steps
        <3>2. pending' = pending
            BY <2>1
        <3>3. PendingExact'
            BY <1>2, <1>3, <1>5, <2>2, <3>1, <3>2 DEF PendingExact
        <3> QED
            BY <1>6, <1>7, <2>1, <3>3 DEF Steps
    <2>4. CASE old = "subscribing"
        <3>1. conn \in {"down", "open", "acked"}
            BY <1>5, <2>4 DEF SameConnection
        <3>2. PendingExact'
            BY <1>3, <3>1 DEF PendingExact
        <3> QED
            BY <1>6, <1>7, <2>1, <3>2 DEF Steps
    <2> QED
        BY <2>1, <2>3, <2>4
<1>13. CASE SubscribeFails(s)
    <2>1. PICK pc \in {"set", "watched"} : Goto(s, pc) /\ (pc = "set" => old = "account")
        BY <1>13 DEF SubscribeFails
    <2>2. conn \in {"down", "lost"} /\ UNCHANGED ready
        BY <1>13 DEF SubscribeFails, HasSocket
    <2>3. PendingExact'
        BY <1>3, <2>2 DEF PendingExact
    <2>4. pc = "set" => conn = "lost"
        BY <1>5, <2>1, <2>2 DEF SameConnection
    <2> QED
        BY <1>6, <1>7, <2>1, <2>2, <2>3, <2>4 DEF Steps
<1>14. CASE SetReady(s)
    <2>1. old = "set" /\ Goto(s, "watched")
        BY <1>14 DEF SetReady
    <2>2. conn = "lost"
        BY <1>5, <2>1 DEF SameConnection
    <2>3. PendingExact' /\ ReadyIsHeard'
        BY <1>3, <2>2 DEF PendingExact, ReadyIsHeard
    <2> QED
        BY <1>6, <2>1, <2>3 DEF Steps
<1>15. CASE Uncount(s) \/ Serve(s)
    <2>1. PICK pc \in {"leaving", "over", "open", "closed"} : Goto(s, pc)
        BY <1>15 DEF Uncount, Serve
    <2>2. old \in {"closed", "watched", "open"} /\ UNCHANGED <<ready, wire, pending>>
        BY <1>15 DEF Uncount, Serve
    <2>3. pc \in Steps \ {"account"}
        BY <2>1 DEF Steps
    <2> QED
        BY <1>6, <1>7, <1>8, <2>1, <2>2, <2>3
<1>16. CASE SendUnsubscribe(s)
    <2>1. /\ old = "leaving" /\ Goto(s, "over") /\ UNCHANGED <<ready, pending>>
          /\ wire' = IF HasSocket THEN Append(wire, Unsubscribe(f)) ELSE wire
        BY <1>16 DEF SendUnsubscribe
    <2>2. Cardinality(SubscribesIn(wire')) = Cardinality(SubscribesIn(wire))
        <3>1. Unsubscribe(f) \in Packets /\ Unsubscribe(f).kind # "subscribe"
            BY <1>1 DEF Unsubscribe, Packets
        <3> DEFINE v == Append(wire, Unsubscribe(f))
        <3>2. Cardinality(SubscribesIn(v)) = Cardinality(SubscribesIn(wire))
            BY <1>1, <3>1, SubscribesAppend
        <3>3. wire' = v \/ wire' = wire
            BY <2>1
        <3> HIDE DEF v
        <3> QED
            BY <3>2, <3>3
    <2>3. Accounted' = Accounted
        BY <1>1, <2>1, AccountedMoves DEF Steps
    <2>4. PendingExact'
        BY <1>3, <1>5, <2>1, <2>2, <2>3 DEF PendingExact
    <2> QED
        BY <1>6, <1>7, <2>1, <2>4 DEF Steps
<1> QED
    BY <1>9, <1>10, <1>11, <1>12, <1>13, <1>14, <1>15, <1>16 DEF WatchStep

-----------------------------------------------------------------------------
(* Watched topics                                                          *)

\* What is sent last to the broker of a topic decides.
LEMMA EndsAppend ==
    ASSUME NEW w \in Seq(Packets), NEW p \in Packets, NEW S, NEW t
    PROVE  /\ EndsIn(w, S, t) /\ p # Unsubscribe(t) => EndsIn(Append(w, p), S, t)
           /\ p = Subscribe(t) => EndsIn(Append(w, p), S, t)
<1> DEFINE v == Append(w, p)
<1>1. /\ Len(w) \in Nat /\ DOMAIN w = 1 .. Len(w) /\ DOMAIN v = 1 .. Len(w) + 1
      /\ \A n \in 1 .. Len(w) : v[n] = w[n]
      /\ v[Len(w) + 1] = p
    BY AppendParts
<1> HIDE DEF v
<1>2. \A n \in DOMAIN v : n \in DOMAIN w \/ n = Len(w) + 1
    BY <1>1
<1>3. \A n \in DOMAIN w : n \in DOMAIN v /\ v[n] = w[n]
    BY <1>1
<1>4. ASSUME EndsIn(w, S, t), p # Unsubscribe(t)
      PROVE  EndsIn(v, S, t)
    <2>1. CASE t \in S /\ \A m \in DOMAIN w : w[m] # Unsubscribe(t)
        BY <1>1, <1>2, <1>3, <1>4, <2>1 DEF EndsIn
    <2>2. CASE \E n \in DOMAIN w : /\ w[n] = Subscribe(t)
                                   /\ \A m \in DOMAIN w : m > n => w[m] # Unsubscribe(t)
        <3>1. PICK n \in DOMAIN w : /\ w[n] = Subscribe(t)
                                    /\ \A m \in DOMAIN w : m > n => w[m] # Unsubscribe(t)
            BY <2>2
        <3>2. \A m \in DOMAIN v : m > n => v[m] # Unsubscribe(t)
            BY <1>1, <1>2, <1>3, <1>4, <3>1
        <3> QED
            BY <1>3, <3>1, <3>2 DEF EndsIn
    <2> QED
        BY <1>4, <2>1, <2>2 DEF EndsIn
<1>5. ASSUME p = Subscribe(t)
      PROVE  EndsIn(v, S, t)
    <2>1. Len(w) + 1 \in DOMAIN v /\ \A m \in DOMAIN v : ~(m > Len(w) + 1)
        BY <1>1
    <2> QED
        BY <1>1, <1>5, <2>1 DEF EndsIn
<1> QED
    BY <1>4, <1>5 DEF v

\* Reading the first packet does not change where the topic ends.
LEMMA EndsTail ==
    ASSUME NEW w \in Seq(Packets), w # <<>>, NEW S, NEW t, EndsIn(w, S, t)
    PROVE  /\ Head(w).kind = "subscribe" => EndsIn(Tail(w), S \cup {Head(w).topic}, t)
           /\ Head(w).kind = "unsubscribe" => EndsIn(Tail(w), S \ {Head(w).topic}, t)
<1> DEFINE v == Tail(w)
           h == Head(w)
<1>1. /\ h = w[1] /\ h \in Packets /\ Len(w) \in Nat \ {0} /\ DOMAIN w = 1 .. Len(w)
      /\ DOMAIN v = 1 .. Len(w) - 1
      /\ \A n \in 1 .. Len(w) - 1 : v[n] = w[n + 1]
    BY TailParts
<1> HIDE DEF v, h
<1>2. \A n \in DOMAIN v : n + 1 \in DOMAIN w /\ v[n] = w[n + 1]
    BY <1>1
<1>3. ASSUME NEW n \in DOMAIN w, n # 1
      PROVE  n - 1 \in DOMAIN v /\ v[n - 1] = w[n]
    <2>1. n - 1 \in 1 .. Len(w) - 1 /\ (n - 1) + 1 = n
        BY <1>1, <1>3
    <2> QED
        BY <1>1, <2>1
<1>4. h.kind = "unsubscribe" => h = Unsubscribe(h.topic)
    BY <1>1 DEF Packets, Unsubscribe
<1>5. CASE t \in S /\ \A m \in DOMAIN w : w[m] # Unsubscribe(t)
    <2>1. \A m \in DOMAIN v : v[m] # Unsubscribe(t)
        BY <1>2, <1>5
    <2>2. h # Unsubscribe(t)
        BY <1>1, <1>5
    <2>3. h.kind = "unsubscribe" => h.topic # t
        BY <1>4, <2>2
    <2> QED
        BY <1>5, <2>1, <2>3 DEF EndsIn, h, v
<1>6. CASE \E n \in DOMAIN w : /\ w[n] = Subscribe(t)
                               /\ \A m \in DOMAIN w : m > n => w[m] # Unsubscribe(t)
    <2>1. PICK n \in DOMAIN w : /\ w[n] = Subscribe(t)
                                /\ \A m \in DOMAIN w : m > n => w[m] # Unsubscribe(t)
        BY <1>6
    <2>2. n \in Nat /\ \A m \in DOMAIN v : m \in Nat
        BY <1>1
    <2>3. CASE n = 1
        <3>1. \A m \in DOMAIN v : m + 1 \in DOMAIN w /\ m + 1 > n /\ v[m] = w[m + 1]
            BY <1>1, <1>2, <2>3
        <3>2. \A m \in DOMAIN v : v[m] # Unsubscribe(t)
            BY <2>1, <3>1
        <3>3. h.kind = "subscribe" /\ h.topic = t
            BY <1>1, <2>1, <2>3 DEF Subscribe
        <3> QED
            BY <3>2, <3>3 DEF EndsIn, h, v
    <2>4. CASE n # 1
        <3>1. n - 1 \in DOMAIN v /\ v[n - 1] = Subscribe(t)
            BY <1>3, <2>1, <2>4
        <3>2. \A m \in DOMAIN v : m > n - 1 => m + 1 \in DOMAIN w /\ m + 1 > n /\ v[m] = w[m + 1]
            BY <1>2, <2>2
        <3>3. \A m \in DOMAIN v : m > n - 1 => v[m] # Unsubscribe(t)
            BY <2>1, <3>2
        <3>4. \A U : EndsIn(v, U, t)
            BY <3>1, <3>3 DEF EndsIn
        <3> QED
            BY <3>4 DEF v
    <2> QED
        BY <2>3, <2>4
<1> QED
    BY <1>5, <1>6 DEF EndsIn

\* A topic that _on_connect asks for ends subscribed.
LEMMA EndsAsked ==
    ASSUME Shape, NEW S, NEW t, EndsIn(wire, S, t) \/ t \in Base \cup extra
    PROVE  EndsIn(wire \o Seqs!SetToSeq(Asked), S, t)
<1> DEFINE v == wire \o Seqs!SetToSeq(Asked)
<1>1. /\ Len(wire) \in Nat /\ DOMAIN wire = 1 .. Len(wire) /\ DOMAIN wire \subseteq DOMAIN v
      /\ \A n \in DOMAIN wire : v[n] = wire[n]
      /\ \A n \in DOMAIN v : n \notin DOMAIN wire => n > Len(wire) /\ v[n] \in Asked
      /\ \A u \in Base \cup extra : \E n \in DOMAIN v : n > Len(wire) /\ v[n] = Subscribe(u)
    BY AskedWire
<1> HIDE DEF v
<1>2. \A q \in Asked : q # Unsubscribe(t)
    BY DEF Asked, Subscribe, Unsubscribe
<1>3. \A n \in DOMAIN v : n \notin DOMAIN wire => v[n] # Unsubscribe(t)
    BY <1>1, <1>2
<1>4. CASE t \in S /\ \A m \in DOMAIN wire : wire[m] # Unsubscribe(t)
    BY <1>1, <1>3, <1>4 DEF EndsIn, v
<1>5. CASE \E n \in DOMAIN wire : /\ wire[n] = Subscribe(t)
                                  /\ \A m \in DOMAIN wire : m > n => wire[m] # Unsubscribe(t)
    <2>1. PICK n \in DOMAIN wire : /\ wire[n] = Subscribe(t)
                                   /\ \A m \in DOMAIN wire : m > n => wire[m] # Unsubscribe(t)
        BY <1>5
    <2>2. n \in DOMAIN v /\ v[n] = Subscribe(t)
        BY <1>1, <2>1
    <2>3. \A m \in DOMAIN v : m > n => v[m] # Unsubscribe(t)
        BY <1>1, <1>3, <2>1
    <2> QED
        BY <2>2, <2>3 DEF EndsIn, v
<1>6. CASE t \in Base \cup extra
    <2>1. PICK n \in DOMAIN v : n > Len(wire) /\ v[n] = Subscribe(t)
        BY <1>1, <1>6
    <2>2. \A m \in DOMAIN v : m > n => m \notin DOMAIN wire
        <3>1. ASSUME NEW m \in DOMAIN v, m \in DOMAIN wire, m > n
              PROVE  FALSE
            <4>1. DOMAIN v \subseteq Nat
                <5>1. v \in Seq(Packets)
                    BY AskedWire DEF v
                <5> QED
                    BY <5>1, LenProperties
            <4>2. m \in Nat /\ n \in Nat /\ m <= Len(wire)
                BY <1>1, <3>1, <4>1
            <4> QED
                BY <1>1, <2>1, <3>1, <4>2
        <3> QED
            BY <3>1
    <2>3. \A m \in DOMAIN v : m > n => v[m] # Unsubscribe(t)
        BY <1>3, <2>2
    <2> QED
        BY <2>1, <2>3 DEF EndsIn, v
<1> QED
    BY <1>4, <1>5, <1>6 DEF EndsIn

\* The network thread and the broker keep what is said of watched topics.
LEMMA LoopWatchers ==
    ASSUME Shape, LeftAlone, WatchersServed, LoopStep
    PROVE  LeftAlone' /\ WatchersServed'
<1>1. wire \in Seq(Packets) /\ UNCHANGED <<stream, counts, crossed>>
    BY DEF Shape, MqttTypeOK, Packets, LoopStep, Connect, Connack, Refused, OnConnect, SubscribeAll,
           OnSubscribe, OnUnsubscribe, Lose, OnDisconnect, watchVars
<1>2. LeftAlone'
    BY <1>1 DEF LeftAlone
<1>13. SUFFICES ASSUME ~crossed', conn' \in {"reset", "up"}, NEW t \in Topics \ Base, counts'[t] > 0,
                       ~Sender(t)'
                PROVE  EndsIn(wire', Answered', t) \/ t \in extra'
    BY <1>2 DEF WatchersServed
<1>3. ~crossed /\ conn' \in {"reset", "up"} /\ counts[t] > 0 /\ ~Sender(t)
    BY <1>1, <1>13 DEF Sender
<1>4. ASSUME conn \in {"reset", "up"}
      PROVE  EndsIn(wire, Answered, t) \/ t \in extra
    BY <1>3, <1>4, <1>13 DEF WatchersServed
<1>5. extra # {} => conn = "reset"
    BY DEF Shape, ExtraWatched
<1>6. CASE Connect \/ Connack \/ Refused \/ Lose \/ OnDisconnect
    BY <1>3, <1>6 DEF Connect, Connack, Refused, Lose, OnDisconnect
<1>7. CASE OnConnect
    BY <1>3, <1>7 DEF OnConnect, Watched
<1>8. CASE SubscribeAll
    <2>1. wire' = wire \o Seqs!SetToSeq(Asked) /\ Answered' = Answered /\ conn = "reset"
        BY <1>8 DEF SubscribeAll, Asked, Answered
    <2>2. EndsIn(wire, Answered, t) \/ t \in Base \cup extra
        BY <1>4, <2>1
    <2> QED
        BY <2>1, <2>2, EndsAsked
<1>9. CASE OnSubscribe
    <2>1. /\ conn = "up" /\ wire # <<>> /\ Head(wire).kind = "subscribe"
          /\ wire' = Tail(wire) /\ Answered' = Answered \cup {Head(wire).topic}
        BY <1>9, AnswersMove DEF OnSubscribe
    <2>2. EndsIn(wire, Answered, t)
        BY <1>4, <1>5, <2>1
    <2> QED
        BY <1>1, <2>1, <2>2, EndsTail
<1>10. CASE OnUnsubscribe
    <2>1. /\ conn = "up" /\ wire # <<>> /\ Head(wire).kind = "unsubscribe"
          /\ wire' = Tail(wire) /\ Answered' = Answered \ {Head(wire).topic}
        BY <1>10, AnswersMove DEF OnUnsubscribe
    <2>2. EndsIn(wire, Answered, t)
        BY <1>4, <1>5, <2>1
    <2> QED
        BY <1>1, <2>1, <2>2, EndsTail
<1> QED
    BY <1>6, <1>7, <1>8, <1>9, <1>10 DEF LoopStep

\* So does a watcher, unless it begins before the unsubscription of its
\* topic.
LEMMA WatchWatchers ==
    ASSUME Shape, LeftAlone, WatchersServed, NEW s \in Streams, WatchStep(s) \/ Serve(s)
    PROVE  LeftAlone' /\ WatchersServed'
<1> DEFINE f == stream[s].filter
           old == stream[s].pc
<1>1. /\ wire \in Seq(Packets) /\ stream \in [Streams -> Request] /\ f \in Topics
      /\ counts \in [Topics -> 0 .. Cardinality(Streams)] /\ Cardinality(Streams) \in Nat
    BY BaseFinite DEF Shape, MqttTypeOK, Packets, Request, Topics
<1> USE DEF loopVars
<1>2. UNCHANGED <<conn, extra, Answered>>
    BY DEF WatchStep, Serve, Count, CheckConnected, Expect, SendSubscribe, SubscribeFails, SetReady,
           Uncount, SendUnsubscribe, Answered
<1>3. \A r \in Streams : r \in Counted(stream[r].filter) => counts[stream[r].filter] > 0
    <2>1. SUFFICES ASSUME NEW r \in Streams, r \in Counted(stream[r].filter)
                   PROVE  counts[stream[r].filter] > 0
        OBVIOUS
    <2> DEFINE t == stream[r].filter
    <2>2. t \in Topics /\ counts[t] \in Nat
        BY <1>1 DEF Request, Topics
    <2>3. counts[t] = Cardinality(Counted(t))
        BY <2>2 DEF Shape, CountsRight
    <2>4. IsFiniteSet(Counted(t))
        BY StreamsFinite DEF Counted
    <2>5. counts[t] # 0
        BY <2>1, <2>3, <2>4, FS_EmptySet
    <2> HIDE DEF t
    <2>6. counts[t] > 0
        BY <2>2, <2>5
    <2> QED
        BY <2>6 DEF t
\* A stream that does not start to leave, with the count as it was or more.
<1>4. ASSUME NEW pc \in Steps, Goto(s, pc), pc # "leaving",
             ~crossed', ~crossed, UNCHANGED counts
      PROVE  LeftAlone'
    <2>1. /\ stream'[s].pc = pc
          /\ \A r \in Streams : r # s => stream'[r] = stream[r]
        BY <1>1, <1>4, GotoMoves
    <2> QED
        BY <1>4, <2>1 DEF LeftAlone
\* A stream that has sent what it had to.
<1>5. ASSUME NEW pc \in Steps, Goto(s, pc), NEW t
      PROVE  /\ t # f /\ Sender(t) => Sender(t)'
             /\ pc \in Sending => Sender(f)'
             /\ old \notin Sending /\ Sender(t) => Sender(t)'
    <2>1. /\ stream'[s].pc = pc /\ stream'[s].filter = f
          /\ \A r \in Streams : r # s => stream'[r] = stream[r]
        BY <1>1, <1>5, GotoMoves
    <2> QED
        BY <2>1 DEF Sender
<1>6. SUFFICES ASSUME ~crossed'
               PROVE  LeftAlone' /\ WatchersServed'
    BY DEF LeftAlone, WatchersServed
<1>7. ~crossed
    <2>1. crossed \in BOOLEAN
        BY DEF Shape, MqttTypeOK
    <2> QED
        BY <1>6, <2>1 DEF WatchStep, Serve, Count, CheckConnected, Expect, SendSubscribe,
                          SubscribeFails, SetReady, Uncount, SendUnsubscribe
<1>8. /\ \A r \in Streams : stream[r].pc = "leaving" => counts[stream[r].filter] = 0
      /\ conn \in {"reset", "up"} => \A t \in Topics \ Base :
             counts[t] > 0 => Sender(t) \/ EndsIn(wire, Answered, t) \/ t \in extra
    BY <1>7 DEF LeftAlone, WatchersServed
<1>9. ASSUME \A t \in Topics \ Base : conn \in {"reset", "up"} /\ counts'[t] > 0 =>
                 Sender(t)' \/ EndsIn(wire', Answered, t) \/ t \in extra
      PROVE  WatchersServed'
    BY <1>2, <1>9 DEF WatchersServed
<1>10. ASSUME UNCHANGED <<counts, wire>>, \A t : Sender(t) => Sender(t)'
       PROVE  WatchersServed'
    BY <1>8, <1>9, <1>10
<1>11. CASE Count(s)
    <2>1. /\ old = "new" /\ counts' = [counts EXCEPT ![f] = counts[f] + 1] /\ wire' = wire
          /\ \A o \in Streams : stream[o].pc = "leaving" => stream[o].filter # f
          /\ (Goto(s, "counted") /\ counts[f] = 0 /\ f \notin Base)
             \/ (Goto(s, "watched") /\ (counts[f] # 0 \/ f \in Base))
        BY <1>6, <1>11 DEF Count
    <2>2. PICK pc \in {"counted", "watched"} : /\ Goto(s, pc) /\ pc \in Steps
                                               /\ pc = "watched" => counts[f] # 0 \/ f \in Base
        BY <2>1 DEF Steps
    <2>3. /\ counts'[f] = counts[f] + 1
          /\ \A t \in Topics : t # f => counts'[t] = counts[t]
        BY <1>1, <2>1
    <2>4. LeftAlone'
        <3>1. /\ stream'[s].pc = pc
              /\ \A r \in Streams : r # s => stream'[r] = stream[r]
            BY <1>1, <2>2, GotoMoves
        <3>2. ASSUME NEW r \in Streams, stream'[r].pc = "leaving"
              PROVE  counts'[stream'[r].filter] = 0
            <4>1. r # s /\ stream'[r] = stream[r]
                BY <2>2, <3>1, <3>2
            <4>2. stream[r].filter # f /\ stream[r].filter \in Topics
                BY <1>1, <2>1, <3>2, <4>1 DEF Request, Topics
            <4> QED
                BY <1>8, <2>3, <3>2, <4>1, <4>2
        <3> QED
            BY <3>2 DEF LeftAlone
    <2>5. \A t : Sender(t) => Sender(t)'
        BY <1>5, <2>1, <2>2 DEF Sending
    <2>6. ASSUME NEW t \in Topics \ Base, conn \in {"reset", "up"}, counts'[t] > 0
          PROVE  Sender(t)' \/ EndsIn(wire', Answered, t) \/ t \in extra
        <3>1. CASE counts[t] > 0
            BY <1>8, <2>1, <2>5, <2>6, <3>1
        <3>2. CASE ~(counts[t] > 0)
            <4>1. t = f /\ counts[f] = 0
                BY <1>1, <2>3, <2>6, <3>2
            <4>2. Sender(f)'
                BY <1>5, <2>2, <2>6, <4>1 DEF Sending
            <4>3. Sender(t)'
                <5>1. stream'[s].filter = t /\ stream'[s].pc \in Sending
                    BY <1>1, <2>2, <2>6, <4>1, GotoMoves DEF Sending
                <5> QED
                    BY <5>1 DEF Sender
            <4> QED
                BY <4>3
        <3> QED
            BY <3>1, <3>2
    <2> QED
        BY <1>9, <2>4, <2>6
<1>12. CASE CheckConnected(s)
    <2>1. /\ old = "counted" /\ UNCHANGED <<counts, wire>>
          /\ Goto(s, "checked") \/ Goto(s, "subscribing")
        BY <1>12 DEF CheckConnected
    <2>2. PICK pc \in {"checked", "subscribing"} : Goto(s, pc) /\ pc \in Steps
        BY <2>1 DEF Steps
    <2>3. LeftAlone'
        BY <1>4, <1>6, <1>7, <2>1, <2>2
    <2>4. ASSUME NEW t, Sender(t)
          PROVE  Sender(t)'
        <3>1. stream'[s].filter = f /\ stream'[s].pc \in Sending
            BY <1>1, <2>2, GotoMoves DEF Sending
        <3>2. t = f => Sender(t)'
            BY <3>1 DEF Sender
        <3> QED
            BY <1>5, <2>2, <2>4, <3>2
    <2> QED
        BY <1>10, <2>1, <2>3, <2>4
<1>13. CASE Expect(s)
    <2>1. /\ old = "checked" /\ UNCHANGED <<counts, wire>> /\ Goto(s, "account")
        BY <1>13 DEF Expect
    <2>2. LeftAlone'
        BY <1>4, <1>6, <1>7, <2>1 DEF Steps
    <2>3. ASSUME NEW t, Sender(t)
          PROVE  Sender(t)'
        <3>1. stream'[s].filter = f /\ stream'[s].pc \in Sending
            BY <1>1, <2>1, GotoMoves DEF Sending, Steps
        <3>2. t = f => Sender(t)'
            BY <3>1 DEF Sender
        <3> QED
            BY <1>5, <2>1, <2>3, <3>2 DEF Steps
    <2> QED
        BY <1>10, <2>1, <2>2, <2>3
<1>14. CASE SendSubscribe(s)
    <2>1. /\ Goto(s, "watched") /\ wire' = Append(wire, Subscribe(f)) /\ UNCHANGED counts
        BY <1>14 DEF SendSubscribe
    <2>2. LeftAlone'
        BY <1>4, <1>6, <1>7, <2>1 DEF Steps
    <2>3. Subscribe(f) \in Packets /\ \A t : Subscribe(f) # Unsubscribe(t)
        BY <1>1 DEF Subscribe, Unsubscribe, Packets
    <2>4. ASSUME NEW t \in Topics \ Base, conn \in {"reset", "up"}, counts'[t] > 0
          PROVE  Sender(t)' \/ EndsIn(wire', Answered, t) \/ t \in extra
        <3>1. CASE t = f
            BY <1>1, <2>1, <2>3, <3>1, EndsAppend
        <3>2. CASE t # f
            <4>1. Sender(t) \/ EndsIn(wire, Answered, t) \/ t \in extra
                BY <1>8, <2>1, <2>4
            <4>2. Sender(t) => Sender(t)'
                BY <1>5, <2>1, <3>2 DEF Steps
            <4>3. EndsIn(wire, Answered, t) => EndsIn(wire', Answered, t)
                BY <1>1, <2>1, <2>3, EndsAppend
            <4> QED
                BY <4>1, <4>2, <4>3
        <3> QED
            BY <3>1, <3>2
    <2> QED
        BY <1>9, <2>2, <2>4
<1>15. CASE SubscribeFails(s)
    <2>1. conn \in {"down", "lost"} /\ UNCHANGED counts /\ (Goto(s, "set") \/ Goto(s, "watched"))
        BY <1>15 DEF SubscribeFails, HasSocket
    <2>2. LeftAlone'
        BY <1>4, <1>6, <1>7, <2>1 DEF Steps
    <2> QED
        BY <1>9, <2>1, <2>2
<1>16. CASE SetReady(s) \/ Serve(s)
    <2>1. /\ old \in {"set", "watched", "open"} /\ UNCHANGED <<counts, wire>>
          /\ Goto(s, "watched") \/ Goto(s, "open") \/ Goto(s, "closed")
        BY <1>16 DEF SetReady, Serve
    <2>2. PICK pc \in {"watched", "open", "closed"} : Goto(s, pc) /\ pc \in Steps
        BY <2>1 DEF Steps
    <2>3. LeftAlone'
        BY <1>4, <1>6, <1>7, <2>1, <2>2
    <2>4. \A t : Sender(t) => Sender(t)'
        BY <1>5, <2>1, <2>2 DEF Sending
    <2> QED
        BY <1>10, <2>1, <2>3, <2>4
<1>17. CASE Uncount(s)
    <2>1. /\ old = "closed" /\ counts' = [counts EXCEPT ![f] = counts[f] - 1] /\ wire' = wire
          /\ (Goto(s, "leaving") /\ counts[f] = 1) \/ Goto(s, "over")
        BY <1>17 DEF Uncount, NobodyLeft
    <2>2. PICK pc \in {"leaving", "over"} : /\ Goto(s, pc) /\ pc \in Steps
                                            /\ pc = "leaving" => counts[f] = 1
        BY <2>1 DEF Steps
    <2>3. /\ counts'[f] = counts[f] - 1
          /\ \A t \in Topics : t # f => counts'[t] = counts[t]
        BY <1>1, <2>1
    <2>4. counts[f] > 0
        BY <1>3, <2>1 DEF Counted, Uncounted
    <2>5. LeftAlone'
        <3>1. /\ stream'[s].pc = pc /\ stream'[s].filter = f
              /\ \A r \in Streams : r # s => stream'[r] = stream[r]
            BY <1>1, <2>2, GotoMoves
        <3>2. ASSUME NEW r \in Streams, stream'[r].pc = "leaving"
              PROVE  counts'[stream'[r].filter] = 0
            <4>1. CASE r = s
                <5>1. counts[f] = 1
                    BY <2>2, <3>1, <3>2, <4>1
                <5>2. counts'[f] = 0
                    BY <2>3, <5>1
                <5> QED
                    BY <3>1, <4>1, <5>2
            <4>2. CASE r # s
                <5>1. stream'[r] = stream[r] /\ counts[stream[r].filter] = 0
                      /\ stream[r].filter \in Topics
                    BY <1>1, <1>8, <3>1, <3>2, <4>2 DEF Request, Topics
                <5>2. stream[r].filter # f
                    BY <2>4, <5>1
                <5> QED
                    BY <2>3, <5>1, <5>2
            <4> QED
                BY <4>1, <4>2
        <3> QED
            BY <3>2 DEF LeftAlone
    <2>6. \A t : Sender(t) => Sender(t)'
        BY <1>5, <2>1, <2>2 DEF Sending
    <2>7. ASSUME NEW t \in Topics \ Base, conn \in {"reset", "up"}, counts'[t] > 0
          PROVE  Sender(t)' \/ EndsIn(wire', Answered, t) \/ t \in extra
        <3>1. counts[t] > 0
            BY <1>1, <2>3, <2>4, <2>7
        <3> QED
            BY <1>8, <2>1, <2>6, <2>7, <3>1
    <2> QED
        BY <1>9, <2>5, <2>7
<1>18. CASE SendUnsubscribe(s)
    <2>1. /\ old = "leaving" /\ Goto(s, "over") /\ UNCHANGED counts
          /\ wire' \in {Append(wire, Unsubscribe(f)), wire}
        BY <1>18 DEF SendUnsubscribe
    <2>2. LeftAlone'
        BY <1>4, <1>6, <1>7, <2>1 DEF Steps
    <2>3. Unsubscribe(f) \in Packets /\ counts[f] = 0
        BY <1>1, <1>8, <2>1 DEF Unsubscribe, Packets
    <2>4. \A t : Sender(t) => Sender(t)'
        BY <1>5, <2>1 DEF Sending, Steps
    <2>5. ASSUME NEW t \in Topics \ Base, conn \in {"reset", "up"}, counts'[t] > 0
          PROVE  Sender(t)' \/ EndsIn(wire', Answered, t) \/ t \in extra
        <3>1. t # f /\ counts[t] > 0
            BY <2>1, <2>3, <2>5
        <3>2. Unsubscribe(f) # Unsubscribe(t)
            BY <3>1 DEF Unsubscribe
        <3>3. EndsIn(wire, Answered, t) => EndsIn(wire', Answered, t)
            <4>1. CASE wire' = wire
                BY <4>1
            <4>2. CASE wire' = Append(wire, Unsubscribe(f))
                BY <1>1, <2>3, <3>2, <4>2, EndsAppend
            <4> QED
                BY <2>1, <4>1, <4>2
        <3> QED
            BY <1>8, <2>4, <2>5, <3>1, <3>3
    <2> QED
        BY <1>9, <2>2, <2>5
<1> QED
    BY <1>11, <1>12, <1>13, <1>14, <1>15, <1>16, <1>17, <1>18 DEF WatchStep

-----------------------------------------------------------------------------
(* The MQTT client as a whole                                              *)

\* The client's invariant holds at the start.
LEMMA MqttStarts ==
    ASSUME EventStreamsInit
    PROVE  MqttInv
<1>1. /\ conn = "down" /\ ready = FALSE /\ pending = 0 /\ counts = [t \in Topics |-> 0]
      /\ extra = {} /\ wire = <<>> /\ subs = {} /\ refused = {} /\ breaks = 0 /\ overtaken = FALSE
      /\ crossed = FALSE
      /\ stream \in [Streams -> {[pc |-> "new", filter |-> f] : f \in Filters}]
    BY DEF EventStreamsInit, MqttInit
<1>2. stream \in [Streams -> Request] /\ \A s \in Streams : stream[s].pc = "new"
    BY <1>1 DEF Request
<1>3. PendingBounded
    <2>1. Cardinality(PastExpect) \in Nat
        BY StreamsFinite DEF PastExpect
    <2> QED
        BY <1>1, <2>1, BaseFinite DEF PendingBounded
<1>4. \A t \in Topics : Cardinality(Counted(t)) = 0
    <2>1. \A t \in Topics : Counted(t) = {}
        BY <1>2 DEF Counted, Uncounted
    <2> QED
        BY <2>1, FS_EmptySet
<1>5. CountsRight
    BY <1>1, <1>4 DEF CountsRight
<1>6. MqttTypeOK
    <2>1. pending \in 0 .. Cardinality(Base) + 2 * Cardinality(Streams)
        BY <1>1, <1>3, PendingFits
    <2>2. counts \in [Topics -> 0 .. Cardinality(Streams)]
        BY <1>1, BaseFinite
    <2>3. breaks \in 0 .. MaxBreaks
        BY <1>1, PlatformMqttAssumption
    <2> QED
        BY <1>1, <1>2, <2>1, <2>2, <2>3, EmptySeq DEF MqttTypeOK, Connection
<1>7. ExtraWatched
    BY <1>1, FS_EmptySet DEF ExtraWatched
<1>8. NotOvertaken
    BY <1>1, <1>2 DEF NotOvertaken, SameConnection, PendingExact, ReadyIsHeard
<1>9. BaseAsked /\ LeftAlone /\ WatchersServed
    BY <1>1, <1>2 DEF BaseAsked, LeftAlone, WatchersServed
<1> QED
    BY <1>3, <1>5, <1>6, <1>7, <1>8, <1>9 DEF MqttInv

\* Every step keeps it, those of the hub included.
LEMMA MqttStepKeeps ==
    ASSUME MqttInv, [EventStreamsNext]_streamVars
    PROVE  MqttInv'
<1>1. Shape /\ BaseAsked /\ NotOvertaken /\ LeftAlone /\ WatchersServed
    BY DEF MqttInv, Shape
<1>2. CASE LoopStep
    BY <1>1, <1>2, LoopShape, LoopBase, LoopOvertaken, LoopWatchers DEF MqttInv, Shape
<1>3. ASSUME NEW s \in Streams, WatchStep(s) \/ Serve(s)
      PROVE  MqttInv'
    BY <1>1, <1>3, WatchShape, WatchBase, WatchOvertaken, WatchWatchers DEF MqttInv, Shape
<1>4. ASSUME NEW s \in Streams, Close(s)
      PROVE  MqttInv'
    BY <1>3, <1>4 DEF Close, Serve
<1>5. ASSUME NEW s \in Streams, NEW o \in Orgs, Listen(s, o)
      PROVE  MqttInv'
    BY <1>3, <1>5 DEF Listen, Serve
<1>6. CASE UNCHANGED mqttVars
    <2>1. UNCHANGED <<conn, ready, pending, extra, wire, subs, breaks, overtaken, refused, counts,
                    stream, crossed>>
        BY <1>6 DEF mqttVars, loopVars, watchVars
    <2>2. MqttTypeOK' /\ PendingBounded' /\ CountsRight' /\ ExtraWatched'
        <3>1. \A t : Counted(t)' = Counted(t)
            BY <2>1 DEF Counted
        <3> QED
            BY <1>1, <2>1, <3>1 DEF Shape, MqttTypeOK, PendingBounded, PastExpect, CountsRight,
                                    ExtraWatched
    <2>3. NotOvertaken'
        BY <1>1, <2>1 DEF NotOvertaken, SameConnection, PendingExact, ReadyIsHeard, Accounted,
                               Answered
    <2>4. BaseAsked' /\ LeftAlone'
        BY <1>1, <2>1 DEF BaseAsked, LeftAlone, HasSocket, Answered
    <2>5. WatchersServed'
        BY <1>1, <2>1 DEF WatchersServed, Sender, Answered
    <2> QED
        BY <2>2, <2>3, <2>4, <2>5 DEF MqttInv
<1> QED
    BY <1>2, <1>3, <1>4, <1>5, <1>6 DEF EventStreamsNext, streamVars, HubStep, Receive

\* The hub and the MQTT client together.
LEMMA StreamsInvariant == EventStreamsSpec => [](MqttInv /\ HubInv)
<1>1. EventStreamsInit => MqttInv /\ HubInv
    BY MqttStarts, HubStarts
<1>2. MqttInv /\ HubInv /\ [EventStreamsNext]_streamVars => MqttInv' /\ HubInv'
    <2>1. MqttInv => stream \in [Streams -> Request]
        BY DEF MqttInv, MqttTypeOK
    <2> QED
        BY <2>1, MqttStepKeeps, HubStepKeeps
<1> QED
    BY <1>1, <1>2, PTL DEF EventStreamsSpec

\* StreamsTypeOK: _pending_subs stays within what the connection and the
\* streams can ask for, _watch_counts within the number of streams, the deques
\* and queues within their limits.
THEOREM StreamsKeepTypes == EventStreamsSpec => []StreamsTypeOK
<1>1. MqttInv /\ HubInv => StreamsTypeOK
    BY DEF MqttInv, HubInv, StreamsTypeOK
<1> QED
    BY <1>1, StreamsInvariant, PTL

\* ReadyMeansAnswered: _ready is set only when the broker has answered for each
\* of the platform's own topics, on every connection that no subscription of a
\* stream overtook.
THEOREM PublishingWaitsForAnswers == EventStreamsSpec => []ReadyMeansAnswered
<1>1. MqttInv => ReadyMeansAnswered
    <2>1. MqttInv => overtaken \in BOOLEAN
        BY DEF MqttInv, MqttTypeOK
    <2> QED
        BY <2>1 DEF MqttInv, NotOvertaken, ReadyIsHeard, ReadyMeansAnswered
<1> QED
    BY <1>1, StreamsInvariant, PTL

\* WatchedAreSubscribed: once the packets are worked off, every topic that
\* watch_topic counted is subscribed to, also after a new connection, unless the
\* broker refused it.
THEOREM WatchersAreSubscribed == EventStreamsSpec => []WatchedAreSubscribed
<1>1. ASSUME MqttInv
      PROVE  WatchedAreSubscribed
    <2>1. SUFFICES ASSUME ~crossed, conn = "up", wire = <<>>, Watching = {}
                   PROVE  /\ Base \subseteq Answered
                          /\ \A s \in Streams : stream[s].pc = "open" => stream[s].filter \in Answered
        BY DEF WatchedAreSubscribed, Answered
    <2>2. Shape /\ BaseAsked /\ WatchersServed /\ stream \in [Streams -> Request]
        BY <1>1 DEF MqttInv, Shape, MqttTypeOK
    <2>3. Base \subseteq Answered
        BY <2>1, <2>2 DEF BaseAsked
    <2>4. ASSUME NEW s \in Streams, stream[s].pc = "open", stream[s].filter \notin Base
          PROVE  stream[s].filter \in Answered
        <3> DEFINE f == stream[s].filter
        <3>1. f \in Topics \ Base
            BY <2>2, <2>4 DEF Request, Topics
        <3>2. counts[f] > 0
            <4>1. s \in Counted(f)
                BY <2>4 DEF Counted, Uncounted
            <4>2. IsFiniteSet(Counted(f)) /\ Cardinality(Counted(f)) \in Nat
                BY StreamsFinite DEF Counted
            <4>3. Cardinality(Counted(f)) # 0
                BY <4>1, <4>2, FS_EmptySet
            <4>4. counts[f] = Cardinality(Counted(f))
                BY <2>2, <3>1 DEF Shape, CountsRight
            <4> HIDE DEF f
            <4> QED
                BY <4>2, <4>3, <4>4
        <3>3. ~Sender(f)
            BY <2>1 DEF Sender, Sending, Watching
        <3>4. f \notin extra
            BY <2>1, <2>2 DEF Shape, ExtraWatched
        <3>5. EndsIn(wire, Answered, f)
            BY <2>1, <2>2, <3>1, <3>2, <3>3, <3>4 DEF WatchersServed
        <3> QED
            BY <2>1, <3>5 DEF EndsIn
    <2> QED
        BY <2>3, <2>4
<1> QED
    BY <1>1, StreamsInvariant, PTL

\* NothingTwice: whatever publish and subscribe do at the same time, no event
\* is given to a stream twice.
THEOREM NoEventTwice == EventStreamsSpec => []NothingTwice
<1>1. MqttInv /\ HubInv => NothingTwice
    BY DEF HubInv
<1> QED
    BY <1>1, StreamsInvariant, PTL

\* NothingLost: every event a stream is to hear of, from the last ones of
\* before it subscribed on, is given to it, on its way, or was dropped because
\* its queue was full.
THEOREM NoEventLost == EventStreamsSpec => []NothingLost
<1>1. MqttInv /\ HubInv => NothingLost
    BY DEF HubInv
<1> QED
    BY <1>1, StreamsInvariant, PTL

-----------------------------------------------------------------------------
\* A topic is a function on an initial segment, and a sequence.
LEMMA InputsAreSequences ==
    ASSUME NEW t \in Inputs
    PROVE  /\ t \in Seq(Levels)
           /\ Len(t) \in Nat /\ DOMAIN t = 1 .. Len(t)
           /\ \A n \in 1 .. Len(t) : t[n] \in Levels
<1>1. PICK n \in 0 .. MaxLevels : t \in [1 .. n -> Levels]
  BY DEF Inputs
<1>2. t \in Seq(Levels) /\ Len(t) = n
  BY <1>1
<1> QED
  BY <1>1, <1>2

\* What follows the second level, level by level.
LEMMA SuffixLevels ==
    ASSUME NEW t \in Inputs, Len(t) >= 3
    PROVE  /\ Suffix(t) \in Seq(Levels)
           /\ Len(Suffix(t)) = Len(t) - 2
           /\ \A n \in 1 .. Len(t) - 2 : Suffix(t)[n] = t[n + 2]
  BY InputsAreSequences DEF Suffix

\* A topic belongs to one device.
LEMMA OneDevice ==
    ASSUME NEW t, NEW d \in DevicesOf(t)
    PROVE  DevicesOf(t) = {d}
  BY TopicRulesAssumption DEF DevicesOf

\* A topic with a device, and without wildcards after it, has none.
LEMMA NoWildcards ==
    ASSUME NEW t \in Inputs, DevicesOf(t) # {}, ~Wild(Suffix(t))
    PROVE  ~Wild(t)
<1>1. PICK d \in Devices : Len(t) >= 3 /\ t[1] = "devices" /\ t[2] \in {d} \cup Spelling[d]
  <2>1. ~(Len(t) < 3 \/ t[1] # "devices")
    BY DEF DevicesOf
  <2>2. DevicesOf(t) = {d \in Devices : t[2] \in {d} \cup Spelling[d]}
    BY <2>1 DEF DevicesOf
  <2>3. PICK d \in Devices : t[2] \in {d} \cup Spelling[d]
    BY <2>2
  <2>4. Len(t) >= 3 /\ t[1] = "devices"
    BY <2>1, InputsAreSequences
  <2> QED
    BY <2>3, <2>4
<1>2. t[1] \notin {"+", "#"} /\ t[2] \notin {"+", "#"}
  BY <1>1, TopicRulesAssumption
<1>3. ASSUME NEW n \in 3 .. Len(t)
      PROVE  t[n] \notin {"+", "#"}
  <2>1. n - 2 \in 1 .. Len(t) - 2 /\ Suffix(t)[n - 2] = t[n]
    BY <1>1, <1>3, SuffixLevels, InputsAreSequences
  <2>2. n - 2 \in DOMAIN Suffix(t)
    BY <1>1, <2>1, SuffixLevels
  <2> QED
    BY <2>1, <2>2 DEF Wild
<1> QED
  BY <1>1, <1>2, <1>3, InputsAreSequences DEF Wild

\* A filter without wildcards covers itself alone.
LEMMA PlainFilter ==
    ASSUME NEW f \in Inputs, NEW t \in Inputs, ~Wild(f), Matches(f, t)
    PROVE  f = t
<1>1. \A n \in DOMAIN f : f[n] \notin {"+", "#"}
  BY DEF Wild
<1>2. CASE f = t
  BY <1>2
<1>3. CASE Len(f) = Len(t) /\ \A n \in DOMAIN f : n \in DOMAIN t /\ f[n] \in {"+", t[n]}
  <2>1. \A n \in DOMAIN f : f[n] = t[n]
    BY <1>1, <1>3
  <2> QED
    BY <1>3, <2>1, InputsAreSequences DEF Inputs
<1>4. CASE {n \in DOMAIN f : f[n] = "#"} = {Len(f)}
  <2>1. Len(f) \in DOMAIN f /\ f[Len(f)] = "#"
    BY <1>4
  <2> QED
    BY <1>1, <2>1
<1> QED
  BY <1>2, <1>3, <1>4 DEF Matches

\* Whatever a device may subscribe to covers topics of that device alone, and
\* what it may publish on is its own and not the topic of its commands
\* (can_access_topic).
THEOREM DevicesAreConfined == AclConfinesDevices
<1>1. ASSUME NEW d \in Devices, NEW f \in Inputs, CanAccess(d, "publish", f)
      PROVE  DevicesOf(f) = {d} /\ f # OwnTopic(d, <<"commands">>)
  <2>1. DevicesOf(f) = {d}
    BY <1>1, OneDevice DEF CanAccess
  <2>2. Len(f) >= 3
    BY <2>1, InputsAreSequences DEF DevicesOf
  <2>3. ASSUME f = OwnTopic(d, <<"commands">>)
        PROVE  Suffix(f) = <<"commands">>
    <3>1. d \in STRING
      BY TopicRulesAssumption
    <3>2. Len(f) = 3 /\ f[3] = "commands"
      BY <2>3, <3>1 DEF OwnTopic
    <3>3. /\ Len(Suffix(f)) = 3 - 2
          /\ \A n \in 1 .. 3 - 2 : Suffix(f)[n] = f[n + 2]
      BY <2>2, <3>2, SuffixLevels
    <3>4. Len(Suffix(f)) = 1 /\ Suffix(f)[1] = f[1 + 2]
      BY <3>3
    <3>5. f[1 + 2] = "commands"
      BY <3>2
    <3>6. Suffix(f) \in Seq(Levels)
      BY <2>2, SuffixLevels
    <3> QED
      BY <3>4, <3>5, <3>6
  <2> QED
    BY <1>1, <2>1, <2>3 DEF CanAccess
<1>2. ASSUME NEW d \in Devices, NEW f \in Inputs, CanAccess(d, "subscribe", f),
             NEW t \in Inputs, Matches(f, t)
      PROVE  DevicesOf(t) = {d}
  <2>1. d \in DevicesOf(f) /\ ~Wild(Suffix(f))
    BY <1>2 DEF CanAccess
  <2>2. f = t
    BY <1>2, <2>1, NoWildcards, PlainFilter
  <2> QED
    BY <2>1, <2>2, OneDevice
<1> QED
  BY <1>1, <1>2 DEF AclConfinesDevices

-----------------------------------------------------------------------------

\* A topic of the device is its prefix and the suffix (of which S is a set of
\* levels).
LEMMA OwnTopicParts ==
    ASSUME NEW d \in Devices, NEW S, "devices" \in S, d \in S,
           NEW s \in Seq(S), Len(s) >= 1
    PROVE  /\ Suffix(OwnTopic(d, s)) = s
           /\ d \in DevicesOf(OwnTopic(d, s))
<1> DEFINE t == OwnTopic(d, s)
<1>2. <<"devices", d>> \in Seq(S) /\ Len(<<"devices", d>>) = 2
  OBVIOUS
<1>3. t \in Seq(S) /\ Len(t) = Len(s) + 2
  BY <1>2 DEF OwnTopic
<1>4. t[1] = "devices" /\ t[2] = d
  BY <1>2 DEF OwnTopic
<1>5. \A n \in 1 .. Len(s) : t[n + 2] = s[n]
  BY <1>2 DEF OwnTopic
<1> HIDE DEF t
<1>6. /\ Suffix(t) \in Seq(S)
      /\ Len(Suffix(t)) = Len(s)
      /\ \A n \in 1 .. Len(s) : Suffix(t)[n] = t[n + 2]
  BY <1>3 DEF Suffix
<1>7. Suffix(t) = s
  BY <1>5, <1>6
<1>8. ~(Len(t) < 3 \/ t[1] # "devices")
  BY <1>3, <1>4
<1>9. d \in DevicesOf(t)
  BY <1>4, <1>8 DEF DevicesOf
<1> QED
  BY <1>7, <1>9 DEF t

\* On its own topics a device may do anything but send itself commands.
LEMMA OwnTopicAllowed ==
    ASSUME NEW d \in Devices, NEW S, "devices" \in S, d \in S,
           NEW s \in Seq(S), Len(s) >= 1, s # <<"">>, ~Wild(s)
    PROVE  /\ CanAccess(d, "subscribe", OwnTopic(d, s))
           /\ \/ CanAccess(d, "publish", OwnTopic(d, s))
              \/ OwnTopic(d, s) = OwnTopic(d, <<"commands">>)
<1>1. Suffix(OwnTopic(d, s)) = s /\ d \in DevicesOf(OwnTopic(d, s))
  BY OwnTopicParts
<1> QED
  BY <1>1 DEF CanAccess

\* A topic that names the device is one of its own.
LEMMA WholeTopic ==
    ASSUME NEW d \in Devices, NEW t \in Inputs,
           Len(t) >= 3, t[1] = "devices", t[2] = d, ~Wild(t)
    PROVE  /\ Suffix(t) \in Seq(Levels) /\ Len(Suffix(t)) >= 1 /\ ~Wild(Suffix(t))
           /\ t = OwnTopic(d, Suffix(t))
<1> DEFINE s == Suffix(t)
<1>1. /\ t \in Seq(Levels)
      /\ Len(t) \in Nat /\ DOMAIN t = 1 .. Len(t)
      /\ \A n \in 1 .. Len(t) : t[n] \in Levels
  BY InputsAreSequences
<1>2. /\ s \in Seq(Levels)
      /\ Len(s) = Len(t) - 2
      /\ \A n \in 1 .. Len(t) - 2 : s[n] = t[n + 2]
  BY SuffixLevels
<1> HIDE DEF s
<1>3. "devices" \in Levels /\ d \in Levels
  <2>1. 1 \in 1 .. Len(t) /\ 2 \in 1 .. Len(t)
    BY <1>1
  <2> QED
    BY <1>1, <2>1
<1>4. ~Wild(s)
  <2>1. ASSUME NEW n \in DOMAIN s
        PROVE  s[n] \notin {"+", "#"}
    <3>1. n \in 1 .. Len(t) - 2
      BY <1>2
    <3>2. n + 2 \in DOMAIN t /\ s[n] = t[n + 2]
      BY <1>1, <1>2, <3>1
    <3> QED
      BY <3>2 DEF Wild
  <2> QED
    BY <2>1 DEF Wild
<1>5. t = OwnTopic(d, s)
  <2>1. <<"devices", d>> \in Seq(Levels) /\ Len(<<"devices", d>>) = 2
    BY <1>3
  <2>2. OwnTopic(d, s) \in Seq(Levels) /\ Len(OwnTopic(d, s)) = Len(t)
    <3>1. OwnTopic(d, s) \in Seq(Levels) /\ Len(OwnTopic(d, s)) = 2 + Len(s)
      BY <1>2, <2>1 DEF OwnTopic
    <3>2. 2 + Len(s) = Len(t)
      BY <1>1, <1>2
    <3> QED
      BY <3>1, <3>2
  <2>3. OwnTopic(d, s)[1] = t[1] /\ OwnTopic(d, s)[2] = t[2]
    BY <1>2, <2>1 DEF OwnTopic
  <2>4. ASSUME NEW n \in 1 .. Len(t), n # 1, n # 2
        PROVE  OwnTopic(d, s)[n] = t[n]
    <3>1. n - 2 \in 1 .. Len(s) /\ (n - 2) + 2 = n
      BY <1>1, <1>2, <2>4
    <3>2. OwnTopic(d, s)[(n - 2) + 2] = s[n - 2]
      BY <1>2, <2>1, <3>1 DEF OwnTopic
    <3>3. s[n - 2] = t[(n - 2) + 2]
      BY <1>2, <3>1
    <3> QED
      BY <3>1, <3>2, <3>3
  <2>5. \A n \in 1 .. Len(t) : OwnTopic(d, s)[n] = t[n]
    BY <2>3, <2>4
  <2> QED
    BY <1>1, <2>2, <2>5
<1> QED
  BY <1>1, <1>2, <1>4, <1>5 DEF s

\* What the agent agrees to send or listen to, the platform allows, but for a
\* publication on the topic of the commands.
THEOREM AgentsAskForWhatIsAllowed == AgentTopicsAllowed
<1>1. ASSUME NEW d \in Devices, NEW raw \in Inputs, NEW t \in Normalize(d, raw)
      PROVE  /\ CanAccess(d, "subscribe", t)
             /\ CanAccess(d, "publish", t) \/ t = OwnTopic(d, <<"commands">>)
  <2> DEFINE S == Levels \cup {"devices", "events", d}
  <2>0. "devices" \in S /\ d \in S /\ "events" \in S
    OBVIOUS
  <2>1. CASE t = OwnTopic(d, <<"events">>)
    <3>1. <<"events">> \in Seq(S) /\ Len(<<"events">>) >= 1
      BY <2>0
    <3>2. <<"events">> # <<"">>
      OBVIOUS
    <3>3. ~Wild(<<"events">>)
      BY DEF Wild
    <3> HIDE DEF S
    <3> QED
      BY <2>0, <2>1, <3>1, <3>2, <3>3, OwnTopicAllowed
  <2>2. CASE Len(raw) = 1 /\ raw # <<"">> /\ ~Wild(raw) /\ t = OwnTopic(d, raw)
    <3>1. raw \in Seq(Levels)
      BY InputsAreSequences
    <3>2. raw \in Seq(S)
      BY <3>1
    <3>3. Len(raw) \in Nat /\ Len(raw) >= 1
      <4>1. Len(raw) = 1
        BY <2>2
      <4> QED
        BY <4>1
    <3> HIDE DEF S
    <3> QED
      BY <2>0, <2>2, <3>2, <3>3, OwnTopicAllowed
  <2>3. CASE /\ Len(raw) >= 3 /\ raw[1] = "devices" /\ raw[2] = d
             /\ Suffix(raw) # <<"">> /\ ~Wild(raw)
             /\ t = raw
    <3>1. /\ Suffix(raw) \in Seq(Levels) /\ Len(Suffix(raw)) >= 1
          /\ ~Wild(Suffix(raw)) /\ raw = OwnTopic(d, Suffix(raw))
      BY <2>3, WholeTopic
    <3>2. Suffix(raw) \in Seq(S)
      BY <3>1
    <3> HIDE DEF S
    <3> QED
      BY <2>0, <2>3, <3>1, <3>2, OwnTopicAllowed
  <2> QED
    BY <1>1, <2>1, <2>2, <2>3 DEF Normalize
<1> QED
  BY <1>1 DEF AgentTopicsAllowed

-----------------------------------------------------------------------------
(* What the sessions of the devices ask for, and what the filters cover   *)

\* The levels of a topic of the device.
LEMMA OwnTopicLevels ==
    ASSUME NEW d \in Devices, NEW S, "devices" \in S, d \in S, NEW s \in Seq(S)
    PROVE  /\ OwnTopic(d, s) \in Seq(S)
           /\ Len(OwnTopic(d, s)) = Len(s) + 2
           /\ OwnTopic(d, s)[1] = "devices"
           /\ OwnTopic(d, s)[2] = d
           /\ \A n \in 1 .. Len(s) : OwnTopic(d, s)[n + 2] = s[n]
<1>1. <<"devices", d>> \in Seq(S) /\ Len(<<"devices", d>>) = 2
  OBVIOUS
<1> QED
  BY <1>1 DEF OwnTopic

\* What a session of a device publishes it may, a subscription of the platform
\* covers, and the platform takes for the device's own; and the session may
\* subscribe to its commands (DeviceMqttSession, _SUBSCRIBE_TOPICS).
THEOREM SessionsAreHeard == DevicesAreHeard
<1>1. ASSUME NEW d \in Devices
      PROVE  CanAccess(d, "subscribe", OwnTopic(d, <<"commands">>))
  <2> DEFINE S == {"devices", "commands", d}
  <2>1. "devices" \in S /\ d \in S /\ <<"commands">> \in Seq(S)
    OBVIOUS
  <2>2. Len(<<"commands">>) >= 1 /\ <<"commands">> # <<"">>
    OBVIOUS
  <2>3. ~Wild(<<"commands">>)
    BY DEF Wild
  <2> HIDE DEF S
  <2> QED
    BY <2>1, <2>2, <2>3, OwnTopicAllowed
<1>2. ASSUME NEW d \in Devices, NEW s \in SessionSuffixes
      PROVE  CanAccess(d, "publish", OwnTopic(d, s)) /\ DevicesOf(OwnTopic(d, s)) = {d}
  <2> DEFINE S == {"devices", "status", "commands", "result", "events", d}
  <2>1. "devices" \in S /\ d \in S
    OBVIOUS
  <2>2. s \in Seq(S) /\ Len(s) >= 1
    <3>1. /\ <<"status">> \in Seq(S) /\ Len(<<"status">>) >= 1
          /\ <<"events">> \in Seq(S) /\ Len(<<"events">>) >= 1
      OBVIOUS
    <3>2. /\ <<"commands", "result">> \in Seq(S)
          /\ Len(<<"commands", "result">>) >= 1
      OBVIOUS
    <3> HIDE DEF S
    <3> QED
      BY <3>1, <3>2 DEF SessionSuffixes
  <2>3. s # <<"">> /\ s # <<"commands">> /\ ~Wild(s)
    <3>1. CASE s = <<"status">>
      <4>1. <<"status">>[1] = "status" /\ DOMAIN <<"status">> = {1}
        OBVIOUS
      <4> QED
        BY <3>1, <4>1 DEF Wild
    <3>2. CASE s = <<"commands", "result">>
      <4>1. /\ <<"commands", "result">>[1] = "commands"
            /\ <<"commands", "result">>[2] = "result"
            /\ DOMAIN <<"commands", "result">> = {1, 2}
            /\ Len(<<"commands", "result">>) = 2
            /\ Len(<<"">>) = 1 /\ Len(<<"commands">>) = 1
        OBVIOUS
      <4> QED
        BY <3>2, <4>1 DEF Wild
    <3>3. CASE s = <<"events">>
      <4>1. <<"events">>[1] = "events" /\ DOMAIN <<"events">> = {1}
        OBVIOUS
      <4> QED
        BY <3>3, <4>1 DEF Wild
    <3> QED
      BY <3>1, <3>2, <3>3 DEF SessionSuffixes
  <2> HIDE DEF S
  <2>5. Suffix(OwnTopic(d, s)) = s /\ d \in DevicesOf(OwnTopic(d, s))
    BY <2>1, <2>2, OwnTopicParts
  <2> QED
    BY <2>3, <2>5, OneDevice DEF CanAccess
<1>3. ASSUME NEW d \in Devices, NEW s \in SessionSuffixes
      PROVE  \E f \in SubscribeTopics : Matches(f, OwnTopic(d, s))
  <2> DEFINE S == {"devices", "status", "commands", "result", "events", d}
             t == OwnTopic(d, s)
  <2>1. "devices" \in S /\ d \in S
    OBVIOUS
  <2>2. CASE s = <<"status">>
    <3>1. <<"status">> \in Seq(S) /\ Len(<<"status">>) = 1
      OBVIOUS
    <3> HIDE DEF S
    <3>0. s \in Seq(S)
      BY <2>2, <3>1
    <3>2. /\ t \in Seq(S) /\ Len(t) = Len(s) + 2 /\ t[1] = "devices"
          /\ \A n \in 1 .. Len(s) : t[n + 2] = s[n]
      BY <2>1, <3>0, OwnTopicLevels
    <3> HIDE DEF t
    <3>3. /\ Len(t) = 3 /\ DOMAIN t = 1 .. 3
          /\ t[1] = "devices" /\ t[3] = "status"
      BY <2>2, <3>1, <3>2
    <3>4. Matches(<<"devices", "+", "status">>, t)
      BY <3>3 DEF Matches
    <3> QED
      BY <3>4 DEF SubscribeTopics, t
  <2>3. CASE s = <<"commands", "result">>
    <3>1. <<"commands", "result">> \in Seq(S) /\ Len(<<"commands", "result">>) = 2
      OBVIOUS
    <3> HIDE DEF S
    <3>0. s \in Seq(S)
      BY <2>3, <3>1
    <3>2. /\ t \in Seq(S) /\ Len(t) = Len(s) + 2 /\ t[1] = "devices"
          /\ \A n \in 1 .. Len(s) : t[n + 2] = s[n]
      BY <2>1, <3>0, OwnTopicLevels
    <3> HIDE DEF t
    <3>3. /\ Len(t) = 4 /\ DOMAIN t = 1 .. 4
          /\ t[1] = "devices" /\ t[3] = "commands" /\ t[4] = "result"
      BY <2>3, <3>1, <3>2
    <3>4. Matches(<<"devices", "+", "commands", "result">>, t)
      BY <3>3 DEF Matches
    <3> QED
      BY <3>4 DEF SubscribeTopics, t
  <2>4. CASE s = <<"events">>
    <3>1. <<"events">> \in Seq(S) /\ Len(<<"events">>) = 1
      OBVIOUS
    <3> HIDE DEF S
    <3>0. s \in Seq(S)
      BY <2>4, <3>1
    <3>2. /\ t \in Seq(S) /\ Len(t) = Len(s) + 2 /\ t[1] = "devices"
          /\ \A n \in 1 .. Len(s) : t[n + 2] = s[n]
      BY <2>1, <3>0, OwnTopicLevels
    <3> HIDE DEF t
    <3>3. /\ Len(t) = 3 /\ DOMAIN t = 1 .. 3
          /\ t[1] = "devices" /\ t[3] = "events"
      BY <2>4, <3>1, <3>2
    <3>4. Matches(<<"devices", "+", "events">>, t)
      BY <3>3 DEF Matches
    <3> QED
      BY <3>4 DEF SubscribeTopics, t
  <2> QED
    BY <2>2, <2>3, <2>4 DEF SessionSuffixes
<1> QED
  BY <1>1, <1>2, <1>3 DEF DevicesAreHeard

-----------------------------------------------------------------------------
(* mqtt_topic_matches against what MQTT says of filters                    *)

\* Same levels, or "+" for one, up to a place.
Agree(f, t, last) ==
    \A n \in 1 .. last : n \in DOMAIN t /\ f[n] \in {"+", t[n]}

\* No wildcard for a first level that begins with "$".
FirstNamed(f, t) == t[1] \in Reserved => f[1] \notin {"+", "#"}

\* A filter that ends with "#" covers what agrees with it before that.
LEMMA HashCovers ==
    ASSUME NEW f \in Seq(Levels), NEW t \in Seq(Levels), f # <<>>,
           f[Len(f)] = "#"
    PROVE  Covers(f, t) <=> FirstNamed(f, t) /\ Agree(f, t, Len(f) - 1)
<1> DEFINE k == Len(f)
           start == SubSeq(f, 1, k - 1)
<1>1. /\ k \in Nat /\ k >= 1 /\ \A n \in 1 .. k : f[n] \in Levels
      /\ DOMAIN t = 1 .. Len(t) /\ Len(t) \in Nat
      /\ \A n \in 1 .. Len(t) : t[n] \in Levels
  BY EmptySeq
<1>2. /\ start \in Seq(Levels)
      /\ Len(start) = k - 1
      /\ \A n \in 1 .. k - 1 : start[n] = f[n]
  <2>1. k - 1 \in Int /\ \A n \in 1 .. k - 1 : f[n] \in Levels
    BY <1>1
  <2> HIDE DEF k
  <2>2. /\ start \in Seq(Levels)
        /\ Len(start) = IF 1 <= k - 1 THEN (k - 1) - 1 + 1 ELSE 0
        /\ \A n \in 1 .. (k - 1) - 1 + 1 : start[n] = f[1 + n - 1]
    BY <2>1, SubSeqProperties
  <2> HIDE DEF start
  <2> QED
    BY <1>1, <2>2
<1> HIDE DEF k, start
<1>3. ASSUME NEW m \in 1 .. Len(t) + 1
      PROVE  LET rest == SubSeq(t, m, Len(t))
             IN  /\ rest \in Seq(Levels)
                 /\ Len(rest) = Len(t) + 1 - m
                 /\ \A n \in 1 .. Len(t) + 1 - m : rest[n] = t[m + n - 1]
                 /\ start \o rest \in Seq(Levels)
                 /\ Len(start \o rest) = k - 1 + (Len(t) + 1 - m)
                 /\ \A n \in 1 .. k - 1 : (start \o rest)[n] = f[n]
                 /\ \A n \in 1 .. Len(t) + 1 - m :
                        (start \o rest)[k - 1 + n] = t[m + n - 1]
  <2> DEFINE rest == SubSeq(t, m, Len(t))
  <2>1. /\ rest \in Seq(Levels)
        /\ Len(rest) = Len(t) + 1 - m
        /\ \A n \in 1 .. Len(t) + 1 - m : rest[n] = t[m + n - 1]
    BY <1>1
  <2> HIDE DEF rest
  <2>2. /\ start \o rest \in Seq(Levels)
        /\ Len(start \o rest) = Len(start) + Len(rest)
        /\ \A n \in 1 .. Len(start) : (start \o rest)[n] = start[n]
        /\ \A n \in 1 .. Len(rest) :
               (start \o rest)[Len(start) + n] = rest[n]
    <3>1. /\ start \o rest \in Seq(Levels)
          /\ Len(start \o rest) = Len(start) + Len(rest)
          /\ \A i \in 1 .. Len(start) + Len(rest) : (start \o rest)[i] =
                 IF i <= Len(start) THEN start[i] ELSE rest[i - Len(start)]
      BY <1>2, <2>1, ConcatProperties
    <3>2. Len(start) \in Nat /\ Len(rest) \in Nat
      BY <1>2, <2>1
    <3> QED
      BY <3>1, <3>2
  <2>3. \A n \in 1 .. Len(t) + 1 - m :
            (start \o rest)[k - 1 + n] = t[m + n - 1]
    BY <1>1, <1>2, <2>1, <2>2
  <2> QED
    BY <1>2, <2>1, <2>2, <2>3 DEF rest
<1>4. ASSUME Covers(f, t)
      PROVE  FirstNamed(f, t) /\ Agree(f, t, k - 1)
  <2>1. PICK m \in 1 .. Len(t) + 1 :
            LET levels == start \o SubSeq(t, m, Len(t))
            IN  /\ Len(levels) = Len(t)
                /\ \A n \in DOMAIN t : levels[n] \in {"+", t[n]}
    BY <1>4 DEF Covers, start, k
  <2> DEFINE levels == start \o SubSeq(t, m, Len(t))
  <2>2. /\ Len(levels) = k - 1 + (Len(t) + 1 - m)
        /\ \A n \in 1 .. k - 1 : levels[n] = f[n]
    BY <1>3
  <2>3. Len(levels) = Len(t) /\ \A n \in DOMAIN t : levels[n] \in {"+", t[n]}
    BY <2>1
  <2> HIDE DEF levels
  <2>4. k - 1 <= Len(t)
    BY <1>1, <2>2, <2>3
  <2>5. FirstNamed(f, t)
    BY <1>4 DEF Covers, FirstNamed
  <2>6. Agree(f, t, k - 1)
    BY <1>1, <2>2, <2>3, <2>4 DEF Agree
  <2> QED
    BY <2>5, <2>6
<1>5. ASSUME FirstNamed(f, t), Agree(f, t, k - 1)
      PROVE  Covers(f, t)
  <2> DEFINE levels == start \o SubSeq(t, k, Len(t))
  <2>1. k \in 1 .. Len(t) + 1
    <3>1. CASE k = 1
      BY <1>1, <3>1
    <3>2. CASE k > 1
      BY <1>1, <1>5, <3>2 DEF Agree
    <3> QED
      BY <1>1, <3>1, <3>2
  <2>2. /\ Len(levels) = k - 1 + (Len(t) + 1 - k)
        /\ \A n \in 1 .. k - 1 : levels[n] = f[n]
        /\ \A n \in 1 .. Len(t) + 1 - k : levels[k - 1 + n] = t[k + n - 1]
    BY <1>3, <2>1
  <2> HIDE DEF levels
  <2>3. Len(levels) = Len(t)
    BY <1>1, <2>2
  <2>4. ASSUME NEW n \in 1 .. Len(t)
        PROVE  levels[n] \in {"+", t[n]}
    <3>1. CASE n <= k - 1
      BY <1>1, <1>5, <2>2, <3>1 DEF Agree
    <3>2. CASE n > k - 1
      <4>1. /\ n - (k - 1) \in 1 .. Len(t) + 1 - k
            /\ k - 1 + (n - (k - 1)) = n
            /\ k + (n - (k - 1)) - 1 = n
        BY <1>1, <2>1, <3>2
      <4> QED
        BY <2>2, <4>1
    <3> QED
      BY <1>1, <3>1, <3>2
  <2>5. /\ SubSeq(t, k, Len(t)) \in {SubSeq(t, n, Len(t)) : n \in 1 .. Len(t) + 1}
        /\ Len(levels) = Len(t)
        /\ \A n \in DOMAIN t : levels[n] \in {"+", t[n]}
    BY <1>1, <2>1, <2>3, <2>4
  <2> QED
    BY <1>5, <2>5 DEF Covers, FirstNamed, levels, start, k
<1> QED
  BY <1>4, <1>5 DEF k

\* One without covers what has the same length and agrees with it.
LEMMA PlainCovers ==
    ASSUME NEW f \in Seq(Levels), NEW t \in Seq(Levels), f[Len(f)] # "#"
    PROVE  Covers(f, t) <=> FirstNamed(f, t) /\ Len(f) = Len(t) /\ Agree(f, t, Len(t))
<1>1. Covers(f, t) <=> /\ FirstNamed(f, t)
                       /\ Len(f) = Len(t)
                       /\ \A n \in DOMAIN t : f[n] \in {"+", t[n]}
  <2>1. {SubSeq(t, n, Len(t)) : n \in 1 .. Len(t) + 1} # {}
    <3>1. 1 \in 1 .. Len(t) + 1
      OBVIOUS
    <3> QED
      BY <3>1
  <2> QED
    BY <2>1 DEF Covers, FirstNamed
<1> QED
  BY <1>1 DEF Agree

\* A message that comes is on no topic that begins with "$": no filter that
\* validate_mqtt_topic lets through asks for those.
LEMMA DeliveredNamed ==
    ASSUME NEW t \in Delivered
    PROVE  t[1] \notin Reserved
<1> SUFFICES ASSUME t[1] \in Reserved PROVE FALSE
  OBVIOUS
<1>1. PICK g \in Short : ValidTopic(g, TRUE) /\ Covers(g, t)
  BY DEF Delivered
<1>2. /\ t \in Seq(Levels) /\ g \in Seq(Levels)
      /\ Len(g) \in Nat /\ DOMAIN t = 1 .. Len(t) /\ Len(t) \in Nat
  BY InputsAreSequences DEF Short, Delivered
<1>3. g # <<>> /\ t # <<>> /\ g[1] \notin Reserved
  BY <1>1 DEF ValidTopic, Delivered
<1>4. Len(g) >= 1 /\ Len(t) >= 1
  BY <1>2, <1>3, EmptySeq
<1>5. CASE g[Len(g)] = "#"
  <2>1. FirstNamed(g, t) /\ Agree(g, t, Len(g) - 1)
    BY <1>1, <1>2, <1>3, <1>5, HashCovers
  <2>2. g[1] \notin {"+", "#"}
    BY <2>1 DEF FirstNamed
  <2>3. 1 \in 1 .. Len(g) - 1
    BY <1>2, <1>4, <1>5, <2>2
  <2> QED
    BY <1>3, <2>1, <2>2, <2>3 DEF Agree
<1>6. CASE g[Len(g)] # "#"
  <2>1. FirstNamed(g, t) /\ Agree(g, t, Len(t))
    BY <1>1, <1>2, <1>6, PlainCovers
  <2>2. 1 \in 1 .. Len(t)
    BY <1>2, <1>4
  <2> QED
    BY <1>3, <2>1, <2>2 DEF Agree, FirstNamed
<1> QED
  BY <1>5, <1>6

\* mqtt_topic_matches says of every filter that validate_mqtt_topic lets
\* through, and of every topic on which messages come, what MQTT says.
THEOREM MatchingIsMqtts == MatchesAsMqttSays
<1> SUFFICES ASSUME NEW f \in Short, ValidTopic(f, TRUE),
                    NEW t \in Delivered
             PROVE  Matches(f, t) <=> Covers(f, t)
  BY DEF MatchesAsMqttSays
<1> DEFINE hashes == {n \in DOMAIN f : f[n] = "#"}
<1>0. ~Wild(t) /\ t # <<>> /\ FirstNamed(f, t)
  BY DeliveredNamed DEF Delivered, FirstNamed
<1>1. /\ f \in Seq(Levels) /\ t \in Seq(Levels)
      /\ Len(f) \in Nat /\ DOMAIN f = 1 .. Len(f)
      /\ Len(t) \in Nat /\ DOMAIN t = 1 .. Len(t)
  BY InputsAreSequences DEF Short, Delivered
<1>2. f # <<>> /\ \A n \in DOMAIN f : f[n] = "#" => n = Len(f)
  BY DEF ValidTopic
<1>a. Len(f) >= 1
  BY <1>1, <1>2, EmptySeq
<1>3. f = t => \A n \in DOMAIN f : f[n] # "#" /\ n \in DOMAIN t /\ f[n] = t[n]
  BY <1>0 DEF Wild
<1>4. CASE f[Len(f)] = "#"
  <2>1. hashes = {Len(f)} /\ f # t
    BY <1>1, <1>2, <1>a, <1>3, <1>4
  <2>2. Matches(f, t) <=>
            \A n \in 1 .. Len(f) - 1 : n \in DOMAIN t /\ f[n] \in {"+", t[n]}
    BY <2>1 DEF Matches
  <2> QED
    BY <1>0, <1>1, <1>2, <1>4, <2>2, HashCovers DEF Agree
<1>5. CASE f[Len(f)] # "#"
  <2>1. hashes = {}
    BY <1>1, <1>2, <1>5
  <2>2. Matches(f, t) <=>
            \/ f = t
            \/ /\ Len(f) = Len(t)
               /\ \A n \in DOMAIN f : n \in DOMAIN t /\ f[n] \in {"+", t[n]}
    BY <2>1 DEF Matches
  <2>3. Matches(f, t) <=> Len(f) = Len(t) /\ Agree(f, t, Len(t))
    BY <1>1, <1>3, <2>2 DEF Agree
  <2> QED
    BY <1>0, <1>1, <1>5, <2>3, PlainCovers
<1> QED
  BY <1>4, <1>5

=============================================================================
