---------------------------- MODULE DnsMgrProofs ----------------------------
(***************************************************************************)
(* Proofs about the DNS client, for any number of robots, transactions and *)
(* names, any cache capacity and any width of the identifiers.             *)
(*                                                                         *)
(* A lookup that was started is asked for once only (DnsXact::retry never  *)
(* gets past its assertion), so it has its identifier from the beginning   *)
(* to the end; a lookup that was left behind has none and is never found.  *)
(***************************************************************************)
EXTENDS DnsMgr, DistinctSeqs

(* What a lookup knows of itself: its place, and whether it was started.   *)
XactsInOrder ==
  \A r \in Robots : \A i \in DOMAIN theXacts[r] :
    LET x == theXacts[r][i] IN
    /\ x.idx = i
    /\ x.owned => x.tries = 1 /\ waiting[x.reason] = x.query
    /\ ~x.owned => x.id = 0 /\ ~x.alarm

(* No transaction has two lookups under way ...                            *)
OneLookupEach ==
  \A r, s \in Robots : \A i \in Started(r), j \in Started(s) :
    theXacts[r][i].reason = theXacts[s][j].reason => r = s /\ i = j

(* ... and one that waits has one.                                         *)
WaitersAreLookedUp ==
  \A q \in Reasons : waiting[q] # NoName =>
    \E r \in Robots : \E i \in Started(r) : theXacts[r][i].reason = q

(* The cache has one entry per name, no more than fit, each with the       *)
(* address of its name.                                                    *)
CacheInOrder ==
  /\ IsInjective(theCache)
  /\ \A e \in Range(theCache) : e[1] = e[2]
  /\ Len(theCache) <= Capacity

(* The inductive invariant.                                                *)
IInv ==
  /\ TypeOK
  /\ XactsInOrder
  /\ OneLookupEach
  /\ WaitersAreLookedUp
  /\ CacheInOrder
  /\ told[1] = told[2]
  /\ ListensWhileAsking
  /\ \A r \in theReserv : theXacts[r] # << >>
  /\ failure = "none" \/ (failure = "owner" /\ Servers > 1)

-----------------------------------------------------------------------------
(* The cache.                                                              *)

LEMMA CachedEntry ==
  ASSUME IInv, NEW n, IsCached(n)
  PROVE  /\ PositionOf(n) \in DOMAIN theCache
         /\ theCache[PositionOf(n)] \in Range(theCache)
         /\ theCache[PositionOf(n)] \in Names \X Names
         /\ theCache[PositionOf(n)] = <<n, n>>
<1>1. PositionOf(n) \in DOMAIN theCache /\ theCache[PositionOf(n)][1] = n
  BY DEF IsCached, PositionOf
<1> DEFINE i == PositionOf(n)
<1> HIDE DEF i
<1>2. i \in DOMAIN theCache /\ theCache[i][1] = n
  BY <1>1 DEF i
<1>3. theCache[i] \in Names \X Names
  BY <1>2 DEF IInv, TypeOK
<1>4. theCache[i] \in Range(theCache)
  BY <1>2 DEF Range
<1>5. theCache[i][2] = n
  BY <1>2, <1>4 DEF IInv, CacheInOrder
<1> QED BY <1>2, <1>3, <1>4, <1>5 DEF i

(* A sequence made of entries of the cache and, last, one that is not      *)
(* among them.                                                             *)
LEMMA CacheGrows ==
  ASSUME NEW rest \in Seq(Names \X Names), IsInjective(rest),
         \A e \in Range(rest) : e[1] = e[2], Len(rest) < Capacity,
         NEW n \in Names, <<n, n>> \notin Range(rest)
  PROVE  LET c == Append(rest, <<n, n>>) IN
         /\ c \in Seq(Names \X Names) /\ IsInjective(c)
         /\ \A e \in Range(c) : e[1] = e[2]
         /\ Len(c) <= Capacity
<1> DEFINE p == <<n, n>>
<1>1. p \in Names \X Names /\ p[1] = p[2] /\ p \notin Range(rest)
  OBVIOUS
<1>2. Len(rest) \in Nat /\ Len(Append(rest, p)) = Len(rest) + 1
  BY <1>1, LenProperties, AppendProperties
<1> HIDE DEF p
<1>3. /\ Append(rest, p) \in Seq(Names \X Names) /\ IsInjective(Append(rest, p))
      /\ Range(Append(rest, p)) = Range(rest) \cup {p}
  BY <1>1, AppendDistinct
<1>4. Len(Append(rest, p)) <= Capacity
  BY <1>2, DnsAssumption
<1>5. \A e \in Range(Append(rest, p)) : e[1] = e[2]
  BY <1>1, <1>3
<1> QED BY <1>3, <1>4, <1>5 DEF p

(* Taking one entry out makes room.                                        *)
LEMMA CacheShrinks ==
  ASSUME IInv, NEW rest \in Seq(Names \X Names), IsInjective(rest), NEW e \in Range(theCache),
         Range(rest) = Range(theCache) \ {e}
  PROVE  /\ Len(rest) = Len(theCache) - 1 /\ Len(rest) < Capacity
         /\ \A d \in Range(rest) : d[1] = d[2]
<1>1. /\ theCache \in Seq(Names \X Names) /\ IsInjective(theCache) /\ Len(theCache) <= Capacity
      /\ \A d \in Range(theCache) : d[1] = d[2]
  BY DEF IInv, TypeOK, CacheInOrder
<1>2. IsFiniteSet(Range(theCache)) /\ Len(theCache) = Cardinality(Range(theCache))
  BY <1>1, LengthOfDistinct
<1>3. Len(rest) = Cardinality(Range(rest))
  BY LengthOfDistinct
<1>4. Cardinality(Range(theCache) \ {e}) = Cardinality(Range(theCache)) - 1
  BY <1>2, FS_RemoveElement
<1>5. Len(rest) = Len(theCache) - 1
  BY <1>2, <1>3, <1>4, Zenon
<1>6. Len(theCache) \in Nat
  BY <1>1, LenProperties
<1> QED BY <1>1, <1>5, <1>6, DnsAssumption

(* What a hit and an insertion leave in the cache.                         *)
LEMMA TouchKeepsCache ==
  ASSUME IInv, NEW n \in Names, IsCached(n)
  PROVE  LET c == Append(RemoveAt(theCache, PositionOf(n)), <<n, n>>) IN
         /\ c \in Seq(Names \X Names) /\ IsInjective(c)
         /\ \A e \in Range(c) : e[1] = e[2]
         /\ Len(c) <= Capacity
<1> DEFINE i == PositionOf(n)
           rest == RemoveAt(theCache, i)
<1>1. /\ i \in DOMAIN theCache /\ theCache[i] \in Range(theCache) /\ theCache[i] = <<n, n>>
  BY CachedEntry
<1> HIDE DEF i
<1>2. theCache \in Seq(Names \X Names) /\ IsInjective(theCache)
  BY DEF IInv, TypeOK, CacheInOrder
<1>3. /\ rest \in Seq(Names \X Names) /\ IsInjective(rest)
      /\ Range(rest) = Range(theCache) \ {theCache[i]}
  BY <1>1, <1>2, RemoveAtDistinct
<1> HIDE DEF rest
<1>4. Len(rest) < Capacity /\ \A d \in Range(rest) : d[1] = d[2]
  BY <1>1, <1>3, CacheShrinks
<1>5. <<n, n>> \notin Range(rest)
  BY <1>1, <1>3
<1>6. LET c == Append(rest, <<n, n>>) IN
      /\ c \in Seq(Names \X Names) /\ IsInjective(c)
      /\ \A e \in Range(c) : e[1] = e[2]
      /\ Len(c) <= Capacity
  BY <1>3, <1>4, <1>5, CacheGrows
<1> QED BY <1>6 DEF rest, i

LEMMA InsertKeepsCache ==
  ASSUME IInv, NEW n \in Names, Capacity > 0
  PROVE  LET c == CacheInsert(n, n) IN
         /\ c \in Seq(Names \X Names) /\ IsInjective(c)
         /\ \A e \in Range(c) : e[1] = e[2]
         /\ Len(c) <= Capacity
<1>1. CASE IsCached(n)
  BY <1>1, TouchKeepsCache DEF CacheInsert
<1>2. CASE ~IsCached(n)
  <2>1. /\ theCache \in Seq(Names \X Names) /\ IsInjective(theCache) /\ Len(theCache) \in Nat
        /\ Len(theCache) <= Capacity /\ \A e \in Range(theCache) : e[1] = e[2]
        /\ DOMAIN theCache = 1..Len(theCache)
    BY LenProperties DEF IInv, TypeOK, CacheInOrder
  <2>2. <<n, n>> \notin Range(theCache)
    BY <1>2 DEF IsCached, Range
  <2>3. CASE Len(theCache) < Capacity
    BY <1>2, <2>1, <2>2, <2>3, CacheGrows DEF CacheInsert
  <2>4. CASE ~(Len(theCache) < Capacity)
    <3> DEFINE rest == Tail(theCache)
    <3>1. theCache # << >>
      BY <2>1, <2>4, DnsAssumption
    <3>2. /\ rest \in Seq(Names \X Names) /\ IsInjective(rest) /\ Head(theCache) \in Range(theCache)
          /\ Range(rest) = Range(theCache) \ {Head(theCache)}
      BY <2>1, <3>1, TailDistinct
    <3>3. CacheInsert(n, n) = Append(rest, <<n, n>>)
      BY <1>2, <2>4 DEF CacheInsert
    <3> HIDE DEF rest
    <3>4. Len(rest) < Capacity /\ \A d \in Range(rest) : d[1] = d[2]
      BY <3>2, CacheShrinks
    <3>5. <<n, n>> \notin Range(rest)
      BY <2>2, <3>2
    <3> QED BY <3>2, <3>3, <3>4, <3>5, CacheGrows
  <2> QED BY <2>3, <2>4
<1> QED BY <1>1, <1>2

-----------------------------------------------------------------------------
(* Lookups.                                                                *)

LEMMA NextIdRange ==
  ASSUME IInv
  PROVE  NextId \in 1..(IdModulus - 1)
  BY DnsAssumption DEF IInv, TypeOK, NextId

LEMMA XactIsRecord ==
  ASSUME IInv, NEW s \in Robots, NEW j \in DOMAIN theXacts[s]
  PROVE  /\ theXacts[s][j] \in XactFields
         /\ theXacts[s][j].reason \in Reasons /\ theXacts[s][j].query \in Names
         /\ theXacts[s][j].retry \in BOOLEAN
<1>1. theXacts[s] \in Seq(XactFields)
  BY DEF IInv, TypeOK
<1>2. theXacts[s][j] \in XactFields
  BY <1>1, LenProperties
<1> QED BY <1>2 DEF XactFields

(* DnsMgr::lookup and DnsXact::exec: a new lookup, started or left behind. *)
LEMMA NewXactFields ==
  ASSUME IInv, NEW r \in Robots, NEW q \in Reasons, NEW n \in Names
  PROVE  LET x == NewXact(r, q, n) IN
         /\ x \in XactFields /\ x.idx = Len(theXacts[r]) + 1 /\ x.id = 0
         /\ ~x.owned /\ ~x.alarm /\ x.reason = q /\ x.query = n /\ x.tries = 0
<1>1. Len(theXacts[r]) + 1 \in Nat
  BY LenProperties DEF IInv, TypeOK
<1>2. 0 \in 0..(IdModulus - 1) /\ 0 \in 0..Servers
  BY DnsAssumption
<1>3. NewXact(r, q, n) \in XactFields
  BY <1>1, <1>2 DEF NewXact, XactFields
<1> QED BY <1>3 DEF NewXact

LEMMA StartedXactFields ==
  ASSUME IInv, NEW r \in Robots, NEW q \in Reasons, NEW n \in Names, NEW sent \in BOOLEAN
  PROVE  LET x == Executed([NewXact(r, q, n) EXCEPT !.owned = TRUE], sent) IN
         /\ x \in XactFields /\ x.idx = Len(theXacts[r]) + 1 /\ x.id # 0
         /\ x.owned /\ x.tries = 1 /\ x.reason = q /\ x.query = n
<1> DEFINE alarm == ~sent \/ Timeout
           retry == ~sent
           idx == Len(theXacts[r]) + 1
           id == NextId
<1>1. alarm \in BOOLEAN /\ retry \in BOOLEAN
  OBVIOUS
<1> DEFINE x0 == [NewXact(r, q, n) EXCEPT !.owned = TRUE]
           x == [x0 EXCEPT !.id = id, !.tries = @ + 1, !.retry = retry, !.alarm = alarm]
<1>2. Executed(x0, sent) = x
  BY DEF Executed
<1>3. idx \in Nat /\ id \in 1..(IdModulus - 1) /\ 1 \in 0..Servers
  BY LenProperties, NextIdRange, DnsAssumption DEF IInv, TypeOK
<1>4. id \in 0..(IdModulus - 1) /\ id # 0
  BY <1>3, DnsAssumption
<1>5. x0 \in XactFields
  <2>1. NewXact(r, q, n) \in XactFields
    BY NewXactFields
  <2> QED BY <2>1 DEF XactFields
<1>6. /\ x0.reason = q /\ x0.query = n /\ x0.idx = idx /\ x0.tries = 0 /\ x0.owned
  BY NewXactFields DEF XactFields
<1>7. x0.tries + 1 = 1
  BY <1>6
<1> HIDE DEF alarm, retry, idx, id, x0
<1>8. /\ x.reason = q /\ x.query = n /\ x.idx = idx /\ x.tries = 1 /\ x.owned /\ x.id = id
  BY <1>5, <1>6, <1>7 DEF XactFields
<1>9. x \in XactFields
  BY <1>1, <1>3, <1>4, <1>5, <1>7 DEF XactFields
<1> HIDE DEF x
<1> QED BY <1>2, <1>4, <1>8, <1>9 DEF idx, x0

(* theXacts of robot r with a lookup y more.                               *)
LEMMA AppendXact ==
  ASSUME IInv, NEW r \in Robots, NEW y \in XactFields,
         theXacts' = [theXacts EXCEPT ![r] = Append(@, y)]
  PROVE  LET k == Len(theXacts[r]) + 1 IN
         /\ theXacts' \in [Robots -> Seq(XactFields)]
         /\ \A s \in Robots \ {r} : theXacts'[s] = theXacts[s]
         /\ DOMAIN theXacts'[r] = (DOMAIN theXacts[r]) \cup {k} /\ k \notin DOMAIN theXacts[r]
         /\ theXacts'[r][k] = y
         /\ \A i \in DOMAIN theXacts[r] : theXacts'[r][i] = theXacts[r][i]
         /\ theXacts'[r] # << >>
<1> DEFINE xs == theXacts[r]
           ys == Append(xs, y)
<1>1. theXacts \in [Robots -> Seq(XactFields)] /\ xs \in Seq(XactFields)
  BY DEF IInv, TypeOK
<1>2. /\ ys \in Seq(XactFields) /\ Len(ys) = Len(xs) + 1
      /\ \A i \in 1..Len(xs) : ys[i] = xs[i]
      /\ ys[Len(xs) + 1] = y
  BY <1>1, AppendProperties
<1>3. Len(xs) \in Nat /\ DOMAIN xs = 1..Len(xs) /\ DOMAIN ys = 1..(Len(xs) + 1)
  BY <1>1, <1>2, LenProperties
<1>4. /\ theXacts' \in [Robots -> Seq(XactFields)] /\ theXacts'[r] = ys
      /\ \A s \in Robots \ {r} : theXacts'[s] = theXacts[s]
  BY <1>1, <1>2
<1>5. DOMAIN ys = DOMAIN xs \cup {Len(xs) + 1} /\ Len(xs) + 1 \notin DOMAIN xs
  BY <1>3
<1>6. ys # << >>
  BY <1>2, <1>3
<1> HIDE DEF ys
<1> QED BY <1>2, <1>3, <1>4, <1>5, <1>6

(* theXacts of robot r without lookup i: the last one took its place.      *)
LEMMA RemoveXact ==
  ASSUME IInv, NEW r \in Robots, NEW i \in DOMAIN theXacts[r],
         theXacts' = [theXacts EXCEPT ![r] = Removed(@, i)]
  PROVE  LET n == Len(theXacts[r]) IN
         /\ theXacts' \in [Robots -> Seq(XactFields)]
         /\ \A s \in Robots \ {r} : theXacts'[s] = theXacts[s]
         /\ n \in Nat \ {0} /\ DOMAIN theXacts[r] = 1..n /\ DOMAIN theXacts'[r] = 1..(n - 1)
         /\ \A j \in 1..(n - 1) :
              theXacts'[r][j] = IF j = i THEN [theXacts[r][n] EXCEPT !.idx = i]
                                ELSE theXacts[r][j]
<1> DEFINE xs == theXacts[r]
           n == Len(xs)
           last == [xs[n] EXCEPT !.idx = i]
           zs == [xs EXCEPT ![i] = last]
           ys == SubSeq(zs, 1, n - 1)
<1>1. theXacts \in [Robots -> Seq(XactFields)] /\ xs \in Seq(XactFields)
  BY DEF IInv, TypeOK
<1>2. n \in Nat \ {0} /\ DOMAIN xs = 1..n /\ i \in 1..n /\ xs[n] \in XactFields
  BY <1>1, LenProperties
<1>3. last \in XactFields
  BY <1>2 DEF XactFields
<1> HIDE DEF last
<1>4. zs \in Seq(XactFields) /\ Len(zs) = n
  BY <1>1, <1>2, <1>3, ExceptSeq
<1>4a. zs[i] = last /\ \A j \in 1..n : j # i => zs[j] = xs[j]
  BY <1>1, <1>2
<1>5. Removed(xs, i) = ys
  BY <1>4 DEF Removed, Front, Last, last
<1> HIDE DEF zs
<1>6. /\ ys \in Seq(XactFields) /\ DOMAIN ys = 1..(n - 1)
      /\ \A j \in 1..(n - 1) : ys[j] = zs[j]
  <2>1. \A j \in 1..(n - 1) : zs[j] \in XactFields
    BY <1>2, <1>4, LenProperties
  <2>2. /\ ys \in Seq(XactFields)
        /\ Len(ys) = IF 1 <= n - 1 THEN (n - 1) - 1 + 1 ELSE 0
        /\ \A j \in 1..((n - 1) - 1 + 1) : ys[j] = zs[1 + j - 1]
    BY <1>2, <2>1, SubSeqProperties
  <2>3. Len(ys) = n - 1 /\ \A j \in 1..(n - 1) : ys[j] = zs[j]
    BY <1>2, <2>2
  <2> HIDE DEF ys
  <2> QED BY <2>2, <2>3, LenProperties
<1> HIDE DEF ys
<1>7. theXacts' \in [Robots -> Seq(XactFields)] /\ theXacts'[r] = ys
      /\ \A s \in Robots \ {r} : theXacts'[s] = theXacts[s]
  BY <1>1, <1>5, <1>6
<1>8. \A j \in 1..(n - 1) : ys[j] = IF j = i THEN last ELSE xs[j]
  BY <1>2, <1>4a, <1>6
<1> QED BY <1>2, <1>6, <1>7, <1>8 DEF last

-----------------------------------------------------------------------------
(* The inductive invariant is one.                                         *)

LEMMA InitIsInv == Init => IInv
<1> SUFFICES ASSUME Init PROVE IInv
  OBVIOUS
<1>1. << >> \in Seq(Names \X Names) /\ IsInjective(<< >>) /\ Range(<< >>) = {}
      /\ << >> \in Seq(XactFields)
  BY EmptyIsDistinct
<1>2. \A r \in Robots : DOMAIN theXacts[r] = {}
  BY DEF Init
<1>3. TypeOK
  <2>1. 0 \in 0..(IdModulus - 1) /\ NoName \in Names \cup {NoName}
    BY DnsAssumption
  <2>2. waiting \in [Reasons -> Names \cup {NoName}] /\ theXacts \in [Robots -> Seq(XactFields)]
    BY <1>1 DEF Init
  <2>3. told \in (Names \cup {NoName}) \X (Names \cup {NoName})
    BY DEF Init
  <2> QED BY <1>1, <2>1, <2>2, <2>3 DEF Init, TypeOK
<1>4. CacheInOrder
  BY <1>1, EmptySeq, DnsAssumption DEF Init, CacheInOrder
<1>5. XactsInOrder /\ OneLookupEach /\ ListensWhileAsking
  BY <1>2 DEF Init, XactsInOrder, OneLookupEach, ListensWhileAsking, Started
<1>6. WaitersAreLookedUp /\ told[1] = told[2]
  BY DEF Init, WaitersAreLookedUp
<1> QED BY <1>3, <1>4, <1>5, <1>6 DEF Init, IInv

(* DnsMgr::instantLookup.                                                  *)
LEMMA CacheHitKeepsInv ==
  ASSUME IInv, NEW r \in Robots, NEW q \in Reasons, NEW n \in Names, CacheHit(r, q, n)
  PROVE  IInv'
<1> DEFINE i == PositionOf(n)
           c == Append(RemoveAt(theCache, i), <<n, n>>)
<1>1. /\ IsCached(n) /\ theCache' = Append(RemoveAt(theCache, i), theCache[i])
      /\ told' = theCache[i]
      /\ UNCHANGED <<running, TheLastId, theXacts, theSock, theReserv, net, waiting, failure>>
  BY DEF CacheHit
<1>2. theCache[i] = <<n, n>>
  BY <1>1, CachedEntry
<1>3. theCache' = c /\ told' = <<n, n>>
  BY <1>1, <1>2
<1>4. /\ c \in Seq(Names \X Names) /\ IsInjective(c)
      /\ \A e \in Range(c) : e[1] = e[2]
      /\ Len(c) <= Capacity
  BY <1>1, TouchKeepsCache
<1> HIDE DEF c
<1>5. CacheInOrder'
  BY <1>3, <1>4 DEF CacheInOrder
<1>6. TypeOK'
  <2>1. told' \in (Names \cup {NoName}) \X (Names \cup {NoName})
    BY <1>3
  <2> QED BY <1>1, <1>3, <1>4, <2>1 DEF IInv, TypeOK
<1>7. XactsInOrder' /\ OneLookupEach' /\ WaitersAreLookedUp' /\ ListensWhileAsking'
  BY <1>1 DEF IInv, XactsInOrder, OneLookupEach, WaitersAreLookedUp, ListensWhileAsking, Started
<1>8. told'[1] = told'[2]
  BY <1>3
<1> QED BY <1>1, <1>5, <1>6, <1>7, <1>8 DEF IInv

(* DnsMgr::lookup: a transaction that does not wait yet has no lookup.     *)
LEMMA LookupKeepsInv ==
  ASSUME IInv, Alive, NEW r \in Robots, NEW q \in Reasons, NEW n \in Names, Lookup(r, q, n)
  PROVE  IInv'
<1> DEFINE x0 == [NewXact(r, q, n) EXCEPT !.owned = TRUE]
<1>1. PICK sent \in BOOLEAN :
        /\ theXacts' = [theXacts EXCEPT ![r] = Append(@, Executed(x0, sent))]
        /\ SendQuery(r, x0, sent)
  BY DEF Lookup
<1>2. /\ waiting[q] = NoName /\ waiting' = [waiting EXCEPT ![q] = n]
      /\ theSock' = theSock \cup {r} /\ theReserv' = theReserv \cup {r}
      /\ UNCHANGED <<running, told, theCache, failure>>
  BY DEF Lookup
<1> DEFINE y == Executed(x0, sent)
           k == Len(theXacts[r]) + 1
<1>3. /\ y \in XactFields /\ y.idx = k /\ y.id # 0
      /\ y.owned /\ y.tries = 1 /\ y.reason = q /\ y.query = n
  BY StartedXactFields
<1>4. x0.query = n
  BY NewXactFields DEF XactFields
<1> HIDE DEF x0
<1>5. theXacts' = [theXacts EXCEPT ![r] = Append(@, y)]
  BY <1>1
<1> HIDE DEF y
<1>6. /\ theXacts' \in [Robots -> Seq(XactFields)]
      /\ \A s \in Robots \ {r} : theXacts'[s] = theXacts[s]
      /\ DOMAIN theXacts'[r] = (DOMAIN theXacts[r]) \cup {k} /\ k \notin DOMAIN theXacts[r]
      /\ theXacts'[r][k] = y
      /\ \A i \in DOMAIN theXacts[r] : theXacts'[r][i] = theXacts[r][i]
      /\ theXacts'[r] # << >>
  BY <1>3, <1>5, AppendXact
<1> HIDE DEF k
<1>7. /\ waiting \in [Reasons -> Names \cup {NoName}] /\ n # NoName
      /\ theXacts \in [Robots -> Seq(XactFields)]
      /\ waiting'[q] = n /\ \A p \in Reasons \ {q} : waiting'[p] = waiting[p]
  BY <1>2, DnsAssumption DEF IInv, TypeOK
<1>8. \A s \in Robots : \A j \in DOMAIN theXacts[s] :
        theXacts[s][j] \in XactFields /\ theXacts[s][j].reason \in Reasons
        /\ theXacts[s][j].query \in Names
  BY XactIsRecord
<1>9. \A s \in Robots : \A j \in Started(s) : theXacts[s][j].reason # q
  BY <1>2, <1>8, DnsAssumption DEF IInv, XactsInOrder, Started
<1>10. /\ \A s \in Robots \ {r} : Started(s)' = Started(s)
       /\ Started(r)' = Started(r) \cup {k}
  BY <1>3, <1>6 DEF Started
<1>11. TypeOK'
  <2>1. TheLastId' \in 0..(IdModulus - 1)
    BY <1>1, NextIdRange, DnsAssumption DEF SendQuery
  <2>2. net' \subseteq Query
    <3>1. [robot |-> r, id |-> NextId, query |-> n] \in Query
      BY NextIdRange DEF Query
    <3> QED BY <1>1, <1>4, <3>1 DEF SendQuery, IInv, TypeOK
  <2>3. waiting' \in [Reasons -> Names \cup {NoName}]
    BY <1>2, <1>7
  <2> QED BY <1>2, <1>6, <2>1, <2>2, <2>3 DEF IInv, TypeOK
<1>12. XactsInOrder'
  <2> SUFFICES ASSUME NEW s \in Robots, NEW j \in DOMAIN theXacts'[s]
               PROVE  LET x == theXacts'[s][j] IN
                      /\ x.idx = j
                      /\ x.owned => x.tries = 1 /\ waiting'[x.reason] = x.query
                      /\ ~x.owned => x.id = 0 /\ ~x.alarm
    BY DEF XactsInOrder
  <2>1. CASE s = r /\ j = k
    BY <1>3, <1>6, <1>7, <2>1
  <2>2. CASE ~(s = r /\ j = k)
    <3>1. j \in DOMAIN theXacts[s] /\ theXacts'[s][j] = theXacts[s][j]
      BY <1>6, <2>2
    <3>2. theXacts[s][j].owned => theXacts[s][j].reason \in Reasons \ {q}
      BY <1>8, <1>9, <3>1 DEF Started
    <3> QED BY <1>7, <3>1, <3>2 DEF IInv, XactsInOrder
  <2> QED BY <2>1, <2>2
<1>13. \A s \in Robots : \A j \in Started(s)' :
         \/ s = r /\ j = k /\ theXacts'[s][j].reason = q
         \/ j \in Started(s) /\ theXacts'[s][j] = theXacts[s][j]
  BY <1>3, <1>6, <1>10 DEF Started
<1>14. OneLookupEach'
  <2> SUFFICES ASSUME NEW s \in Robots, NEW t \in Robots,
                      NEW i \in Started(s)', NEW j \in Started(t)',
                      theXacts'[s][i].reason = theXacts'[t][j].reason
               PROVE  s = t /\ i = j
    BY DEF OneLookupEach
  <2> QED BY <1>9, <1>13 DEF IInv, OneLookupEach
<1>15. WaitersAreLookedUp'
  <2> SUFFICES ASSUME NEW p \in Reasons, waiting'[p] # NoName
               PROVE  \E s \in Robots : \E i \in Started(s)' : theXacts'[s][i].reason = p
    BY DEF WaitersAreLookedUp
  <2>1. CASE p = q
    BY <1>3, <1>6, <1>10, <2>1
  <2>2. CASE p # q
    <3>1a. PICK s \in Robots : \E i \in Started(s) : theXacts[s][i].reason = p
      BY <1>7, <2>2 DEF IInv, WaitersAreLookedUp
    <3>1. PICK i \in Started(s) : theXacts[s][i].reason = p
      BY <3>1a
    <3>2. i \in Started(s)' /\ theXacts'[s][i] = theXacts[s][i]
      BY <1>6, <1>10, <3>1 DEF Started
    <3> QED BY <3>1, <3>2
  <2> QED BY <2>1, <2>2
<1>16. ListensWhileAsking' /\ \A s \in theReserv' : theXacts'[s] # << >>
  BY <1>2, <1>6, <1>10 DEF IInv, ListensWhileAsking, TypeOK
<1>17. CacheInOrder' /\ told'[1] = told'[2]
  BY <1>2 DEF IInv, CacheInOrder
<1> QED BY <1>2, <1>11, <1>12, <1>14, <1>15, <1>16, <1>17 DEF IInv

(* DnsMgr::lookup without a socket.                                        *)
LEMMA LookupFailsKeepsInv ==
  ASSUME IInv, Alive, NEW r \in Robots, NEW q \in Reasons, NEW n \in Names,
         LookupFails(r, q, n)
  PROVE  IInv'
<1> DEFINE y == NewXact(r, q, n)
           k == Len(theXacts[r]) + 1
<1>1. /\ theXacts' = [theXacts EXCEPT ![r] = Append(@, y)]
      /\ UNCHANGED <<running, TheLastId, theSock, theReserv, net, waiting, told, theCache,
                     failure>>
  BY DEF LookupFails
<1>2. y \in XactFields /\ y.idx = k /\ y.id = 0 /\ ~y.owned /\ ~y.alarm
  BY NewXactFields
<1> HIDE DEF y
<1>3. /\ theXacts' \in [Robots -> Seq(XactFields)]
      /\ \A s \in Robots \ {r} : theXacts'[s] = theXacts[s]
      /\ DOMAIN theXacts'[r] = (DOMAIN theXacts[r]) \cup {k} /\ k \notin DOMAIN theXacts[r]
      /\ theXacts'[r][k] = y
      /\ \A i \in DOMAIN theXacts[r] : theXacts'[r][i] = theXacts[r][i]
      /\ theXacts'[r] # << >>
  BY <1>1, <1>2, AppendXact
<1> HIDE DEF k
<1>4. \A s \in Robots : Started(s)' = Started(s)
  BY <1>2, <1>3 DEF Started
<1>5. \A s \in Robots : \A j \in Started(s) :
        j \in DOMAIN theXacts[s] /\ theXacts'[s][j] = theXacts[s][j]
  BY <1>3 DEF Started
<1>6. TypeOK'
  BY <1>1, <1>3 DEF IInv, TypeOK
<1>7. XactsInOrder'
  <2> SUFFICES ASSUME NEW s \in Robots, NEW j \in DOMAIN theXacts'[s]
               PROVE  LET x == theXacts'[s][j] IN
                      /\ x.idx = j
                      /\ x.owned => x.tries = 1 /\ waiting[x.reason] = x.query
                      /\ ~x.owned => x.id = 0 /\ ~x.alarm
    BY <1>1 DEF XactsInOrder
  <2>1. CASE s = r /\ j = k
    BY <1>2, <1>3, <2>1
  <2>2. CASE ~(s = r /\ j = k)
    <3>1. j \in DOMAIN theXacts[s] /\ theXacts'[s][j] = theXacts[s][j]
      BY <1>3, <2>2
    <3> QED BY <3>1 DEF IInv, XactsInOrder
  <2> QED BY <2>1, <2>2
<1>8. OneLookupEach' /\ WaitersAreLookedUp'
  BY <1>1, <1>4, <1>5 DEF IInv, OneLookupEach, WaitersAreLookedUp
<1>9. ListensWhileAsking' /\ \A s \in theReserv' : theXacts'[s] # << >>
  BY <1>1, <1>3, <1>4 DEF IInv, ListensWhileAsking, TypeOK
<1>10. CacheInOrder' /\ told'[1] = told'[2]
  BY <1>1 DEF IInv, CacheInOrder
<1> QED BY <1>1, <1>6, <1>7, <1>8, <1>9, <1>10 DEF IInv

(* DnsMgr::noteXactDone: lookup i of r goes, and calls back its reason.    *)
LEMMA ConcludeKeepsInv ==
  ASSUME IInv, NEW r \in Robots, NEW i \in Started(r), NEW x,
         x.idx = i, x.reason = theXacts[r][i].reason, x.query = theXacts[r][i].query,
         ~x.alarm, NEW ip \in {NoName, x.query}, Conclude(r, x, ip), running' = running
  PROVE  IInv'
<1> DEFINE q == theXacts[r][i].reason
           n == theXacts[r][i].query
           last == Len(theXacts[r])
<1>1. i \in DOMAIN theXacts[r] /\ q \in Reasons /\ n \in Names /\ x.reason = q /\ x.query = n
  BY XactIsRecord DEF Started
<1>2. failure' = "none"
  BY <1>1 DEF Conclude, Complaint
<1>3. /\ theXacts' = [theXacts EXCEPT ![r] = Removed(@, i)]
      /\ IF theXacts'[r] = << >> THEN NoteLastXact(r) ELSE UNCHANGED <<theSock, theReserv>>
      /\ NoteAddrLookup(x, ip)
      /\ theCache' = IF Capacity > 0 /\ ip # NoName THEN CacheInsert(n, ip) ELSE theCache
      /\ UNCHANGED <<TheLastId, net>>
  BY <1>1, <1>2 DEF Conclude
<1>4. waiting' = [waiting EXCEPT ![q] = NoName] /\ told' = IF ip = NoName THEN told ELSE <<n, ip>>
  BY <1>1, <1>3 DEF NoteAddrLookup
<1>5. /\ theXacts' \in [Robots -> Seq(XactFields)]
      /\ \A s \in Robots \ {r} : theXacts'[s] = theXacts[s]
      /\ last \in Nat \ {0} /\ DOMAIN theXacts[r] = 1..last
      /\ DOMAIN theXacts'[r] = 1..(last - 1)
      /\ \A j \in 1..(last - 1) :
           theXacts'[r][j] = IF j = i THEN [theXacts[r][last] EXCEPT !.idx = i]
                             ELSE theXacts[r][j]
  BY <1>1, <1>3, RemoveXact
\* Where a lookup was before.
<1> DEFINE From(s, j) == IF s = r /\ j = i THEN last ELSE j
<1>6. ASSUME NEW s \in Robots, NEW j \in DOMAIN theXacts'[s]
      PROVE  LET f == From(s, j)
                 y == theXacts[s][f]
                 z == theXacts'[s][j] IN
             /\ f \in DOMAIN theXacts[s] /\ ~(s = r /\ f = i)
             /\ z.reason = y.reason /\ z.query = y.query /\ z.id = y.id
             /\ z.tries = y.tries /\ z.owned = y.owned /\ z.alarm = y.alarm
             /\ z.idx = j
  <2>1. CASE s = r /\ j = i
    <3>1. last \in DOMAIN theXacts[r] /\ last # i
      BY <1>5, <1>6, <2>1
    <3>2. theXacts[r][last] \in XactFields
      BY <3>1, XactIsRecord
    <3>3. theXacts'[r][i] = [theXacts[r][last] EXCEPT !.idx = i]
      BY <1>5, <1>6, <2>1
    <3> QED BY <2>1, <3>1, <3>2, <3>3 DEF XactFields
  <2>2. CASE ~(s = r /\ j = i)
    <3>1. j \in DOMAIN theXacts[s] /\ theXacts'[s][j] = theXacts[s][j]
      BY <1>1, <1>5, <1>6, <2>2
    <3> QED BY <2>2, <3>1 DEF IInv, XactsInOrder
  <2> QED BY <2>1, <2>2
<1>7. ASSUME NEW s \in Robots, NEW f \in DOMAIN theXacts[s], ~(s = r /\ f = i)
      PROVE  \E j \in DOMAIN theXacts'[s] : From(s, j) = f
  <2>1. CASE s = r /\ f = last
    <3>1. i \in DOMAIN theXacts'[r] /\ From(r, i) = last
      BY <1>1, <1>5, <1>7, <2>1
    <3> QED BY <2>1, <3>1
  <2>2. CASE ~(s = r /\ f = last)
    <3>1. f \in DOMAIN theXacts'[s] /\ From(s, f) = f
      BY <1>1, <1>5, <1>7, <2>2
    <3> QED BY <3>1
  <2> QED BY <2>1, <2>2
<1>8. ASSUME NEW s \in Robots, NEW j \in DOMAIN theXacts'[s], NEW k \in DOMAIN theXacts'[s],
             From(s, j) = From(s, k)
      PROVE  j = k
  BY <1>5, <1>8
<1> HIDE DEF From
<1>9. \A s \in Robots : \A j \in Started(s)' :
        /\ j \in DOMAIN theXacts'[s] /\ From(s, j) \in Started(s) /\ ~(s = r /\ From(s, j) = i)
        /\ theXacts'[s][j].reason = theXacts[s][From(s, j)].reason
  BY <1>6 DEF Started
<1>10. ASSUME NEW s \in Robots, NEW f \in Started(s), ~(s = r /\ f = i)
       PROVE  theXacts[s][f].reason \in Reasons \ {q}
  BY <1>10, XactIsRecord DEF IInv, OneLookupEach, Started
<1>11. /\ waiting \in [Reasons -> Names \cup {NoName}]
       /\ waiting' \in [Reasons -> Names \cup {NoName}] /\ waiting'[q] = NoName
       /\ \A p \in Reasons \ {q} : waiting'[p] = waiting[p]
  BY <1>1, <1>4 DEF IInv, TypeOK
<1>12. XactsInOrder'
  <2> SUFFICES ASSUME NEW s \in Robots, NEW j \in DOMAIN theXacts'[s]
               PROVE  LET z == theXacts'[s][j] IN
                      /\ z.idx = j
                      /\ z.owned => z.tries = 1 /\ waiting'[z.reason] = z.query
                      /\ ~z.owned => z.id = 0 /\ ~z.alarm
    BY DEF XactsInOrder
  <2> DEFINE f == From(s, j)
             y == theXacts[s][f]
             z == theXacts'[s][j]
  <2>1. /\ f \in DOMAIN theXacts[s] /\ ~(s = r /\ f = i)
        /\ z.reason = y.reason /\ z.query = y.query /\ z.id = y.id
        /\ z.tries = y.tries /\ z.owned = y.owned /\ z.alarm = y.alarm
        /\ z.idx = j
    BY <1>6
  <2>2. /\ y.owned => y.tries = 1 /\ waiting[y.reason] = y.query
        /\ ~y.owned => y.id = 0 /\ ~y.alarm
    BY <2>1 DEF IInv, XactsInOrder
  <2>3. y.owned => waiting'[y.reason] = waiting[y.reason]
    BY <1>10, <1>11, <2>1 DEF Started
  <2> HIDE DEF f, y, z
  <2>4. /\ z.idx = j
        /\ z.owned => z.tries = 1 /\ waiting'[z.reason] = z.query
        /\ ~z.owned => z.id = 0 /\ ~z.alarm
    BY <2>1, <2>2, <2>3
  <2> QED BY <2>4 DEF z
<1>13. OneLookupEach'
  <2> SUFFICES ASSUME NEW s \in Robots, NEW t \in Robots,
                      NEW j \in Started(s)', NEW k \in Started(t)',
                      theXacts'[s][j].reason = theXacts'[t][k].reason
               PROVE  s = t /\ j = k
    BY DEF OneLookupEach
  <2>1. s = t /\ From(s, j) = From(t, k)
    BY <1>9 DEF IInv, OneLookupEach
  <2> QED BY <1>8, <1>9, <2>1
<1>14. WaitersAreLookedUp'
  <2> SUFFICES ASSUME NEW p \in Reasons, waiting'[p] # NoName
               PROVE  \E s \in Robots : \E j \in Started(s)' : theXacts'[s][j].reason = p
    BY DEF WaitersAreLookedUp
  <2>1. p # q /\ waiting[p] # NoName
    BY <1>11
  <2>2a. PICK s \in Robots : \E f \in Started(s) : theXacts[s][f].reason = p
    BY <2>1 DEF IInv, WaitersAreLookedUp
  <2>2. PICK f \in Started(s) : theXacts[s][f].reason = p
    BY <2>2a
  <2>3. f \in DOMAIN theXacts[s] /\ theXacts[s][f].owned /\ ~(s = r /\ f = i)
    BY <2>1, <2>2 DEF Started
  <2>4. PICK j \in DOMAIN theXacts'[s] : From(s, j) = f
    BY <1>7, <2>3
  <2>5. theXacts'[s][j].reason = p /\ theXacts'[s][j].owned
    BY <1>6, <2>2, <2>3, <2>4
  <2> QED BY <2>5 DEF Started
<1>15. /\ theCache' \in Seq(Names \X Names) /\ CacheInOrder'
       /\ told' \in (Names \cup {NoName}) \X (Names \cup {NoName}) /\ told'[1] = told'[2]
  <2>1. CASE ip = NoName
    BY <1>3, <1>4, <2>1 DEF IInv, TypeOK, CacheInOrder
  <2>2. CASE ip # NoName
    <3>1. ip = n
      BY <1>1, <2>2
    <3>2. told' = <<n, n>>
      BY <1>4, <2>2, <3>1
    <3>3. CASE Capacity > 0
      <4> DEFINE c == CacheInsert(n, n)
      <4>1. /\ c \in Seq(Names \X Names) /\ IsInjective(c)
            /\ \A e \in Range(c) : e[1] = e[2]
            /\ Len(c) <= Capacity
        BY <1>1, <3>3, InsertKeepsCache
      <4>2. theCache' = c
        BY <1>3, <2>2, <3>1, <3>3
      <4> HIDE DEF c
      <4> QED BY <1>1, <3>2, <4>1, <4>2 DEF CacheInOrder
    <3>4. CASE ~(Capacity > 0)
      BY <1>1, <1>3, <3>2, <3>4 DEF IInv, TypeOK, CacheInOrder
    <3> QED BY <3>3, <3>4
  <2> QED BY <2>1, <2>2
<1>16. /\ theReserv' \subseteq theReserv /\ theSock' \subseteq theSock
       /\ theReserv' \subseteq theSock'
       /\ \A s \in theReserv' : theXacts'[s] # << >>
       /\ \A s \in theReserv : theXacts'[s] # << >> => s \in theReserv'
  BY <1>3, <1>5 DEF IInv, TypeOK, ListensWhileAsking, NoteLastXact
<1>17. \A s \in Robots : Started(s)' # {} => s \in theReserv'
  <2> SUFFICES ASSUME NEW s \in Robots, NEW j \in Started(s)' PROVE s \in theReserv'
    OBVIOUS
  <2>1. s \in theReserv
    BY <1>9 DEF IInv, ListensWhileAsking
  <2>2. theXacts'[s] # << >>
    BY <1>9
  <2> QED BY <1>16, <2>1, <2>2
<1>18. TypeOK'
  BY <1>2, <1>3, <1>5, <1>11, <1>15, <1>16 DEF IInv, TypeOK
<1>19. ListensWhileAsking'
  BY <1>16, <1>17 DEF ListensWhileAsking
<1> QED BY <1>2, <1>12, <1>13, <1>14, <1>15, <1>16, <1>18, <1>19 DEF IInv

(* DnsXact::finish of a lookup whose alarm was canceled or has rung.  To   *)
(* ask the next server fails for want of an owner.                         *)
LEMMA FinishKeepsInv ==
  ASSUME IInv, NEW r \in Robots, NEW i \in Started(r), NEW x \in XactFields,
         x.idx = i, x.reason = theXacts[r][i].reason, x.query = theXacts[r][i].query,
         x.tries = theXacts[r][i].tries, ~x.alarm,
         NEW ip \in {NoName, x.query}, Finish(r, x, ip), running' = running
  PROVE  IInv'
<1> DEFINE done == [x EXCEPT !.owned = FALSE]
<1>1. /\ done.idx = i /\ done.reason = x.reason /\ done.query = x.query
      /\ done.tries = 1 /\ ~done.alarm /\ ~done.owned
  BY DEF IInv, XactsInOrder, Started, XactFields
<1>2. \/ /\ done.retry /\ done.tries < Servers /\ Retry(r, done)
         /\ UNCHANGED <<theSock, theReserv, waiting, told, theCache>>
      \/ Conclude(r, done, ip)
  BY DEF Finish
<1> HIDE DEF done
<1>3. CASE Conclude(r, done, ip)
  BY <1>1, <1>3, ConcludeKeepsInv
<1>4. CASE /\ done.tries < Servers /\ Retry(r, done)
           /\ UNCHANGED <<theSock, theReserv, waiting, told, theCache>>
  <2>1. failure' = "owner" /\ UNCHANGED <<TheLastId, theXacts, net>>
    BY <1>1, <1>4 DEF Retry
  <2>2. Servers > 1
    BY <1>1, <1>4, DnsAssumption
  <2>3. TypeOK'
    BY <1>4, <2>1 DEF IInv, TypeOK
  <2>4. /\ XactsInOrder' /\ OneLookupEach' /\ WaitersAreLookedUp' /\ ListensWhileAsking'
        /\ CacheInOrder'
    BY <1>4, <2>1 DEF IInv, XactsInOrder, OneLookupEach, WaitersAreLookedUp,
                      ListensWhileAsking, Started, CacheInOrder
  <2> QED BY <1>4, <2>1, <2>2, <2>3, <2>4 DEF IInv
<1> QED BY <1>2, <1>3, <1>4

(* DnsXact::wakeUp: only a lookup that was started has an alarm.           *)
LEMMA WakeUpKeepsInv ==
  ASSUME IInv, NEW r \in Robots, NEW i \in DOMAIN theXacts[r], WakeUp(r, i)
  PROVE  IInv'
<1> DEFINE x == [theXacts[r][i] EXCEPT !.alarm = FALSE, !.retry = TRUE]
<1>1. i \in Started(r)
  BY DEF WakeUp, IInv, XactsInOrder, Started
<1>2. theXacts[r][i] \in XactFields /\ theXacts[r][i].idx = i
  BY XactIsRecord DEF IInv, XactsInOrder
<1>3. x \in XactFields
  BY <1>2 DEF XactFields
<1>4. /\ x.idx = i /\ x.reason = theXacts[r][i].reason /\ x.query = theXacts[r][i].query
      /\ x.tries = theXacts[r][i].tries /\ ~x.alarm
  BY <1>2 DEF XactFields
<1>5. Finish(r, x, NoName) /\ running' = running
  BY DEF WakeUp
<1> HIDE DEF x
<1> QED BY <1>1, <1>3, <1>4, <1>5, FinishKeepsInv

(* DnsMgr::noteReply: a lookup that was left behind is found by no reply,  *)
(* and an address is passed on only if it is one of the name asked for.    *)
LEMMA NoteReplyKeepsInv ==
  ASSUME IInv, NEW r \in Robots, NEW m \in net, NoteReply(r, m)
  PROVE  IInv'
<1> DEFINE matches == {k \in DOMAIN theXacts[r] : theXacts[r][k].id = m.id}
           i == Min(matches)
           x == theXacts[r][i]
<1>1. matches # {} /\ running' = running
  BY DEF NoteReply
<1>2. matches \in SUBSET Nat
  <2>1. theXacts[r] \in Seq(XactFields)
    BY DEF IInv, TypeOK
  <2>2. DOMAIN theXacts[r] = 1..Len(theXacts[r]) /\ Len(theXacts[r]) \in Nat
    BY <2>1, LenProperties
  <2> QED BY <2>2
<1>3. \/ LET y == Replied(x, m) IN Finish(r, y, IF y.retry THEN NoName ELSE m.query)
      \/ Finish(r, [x EXCEPT !.alarm = FALSE], NoName)
  BY DEF NoteReply
<1>4. i \in matches
  <2> HIDE DEF matches
  <2> QED BY <1>1, <1>2, MinOfNaturals
<1> HIDE DEF i
<1>5. i \in DOMAIN theXacts[r] /\ x.id = m.id /\ m.id # 0
  BY <1>4 DEF IInv, TypeOK, Query
<1>6. i \in Started(r) /\ x.idx = i
  BY <1>5 DEF IInv, XactsInOrder, Started
<1>7. x \in XactFields
  BY <1>5, XactIsRecord
<1>8. CASE Finish(r, [x EXCEPT !.alarm = FALSE], NoName)
  <2> DEFINE y == [x EXCEPT !.alarm = FALSE]
  <2>1. y \in XactFields
    BY <1>7 DEF XactFields
  <2>2. /\ y.idx = i /\ y.reason = x.reason /\ y.query = x.query /\ y.tries = x.tries /\ ~y.alarm
    BY <1>6, <1>7 DEF XactFields
  <2> HIDE DEF y
  <2> QED BY <1>1, <1>6, <1>8, <2>1, <2>2, FinishKeepsInv DEF y
<1>9. CASE LET y == Replied(x, m) IN Finish(r, y, IF y.retry THEN NoName ELSE m.query)
  <2> DEFINE retry == m.query # x.query
             y == [x EXCEPT !.alarm = FALSE, !.retry = retry]
             ip == IF y.retry THEN NoName ELSE m.query
  <2>1. retry \in BOOLEAN
    OBVIOUS
  <2>2. Finish(r, y, ip)
    BY <1>9 DEF Replied
  <2>3. y.retry = retry
    BY <1>7 DEF XactFields
  <2>4. ip \in {NoName, x.query}
    BY <2>3
  <2> HIDE DEF retry, ip
  <2>5. y \in XactFields
    BY <1>7, <2>1 DEF XactFields
  <2>6. /\ y.idx = i /\ y.reason = x.reason /\ y.query = x.query /\ y.tries = x.tries /\ ~y.alarm
    BY <1>6, <1>7 DEF XactFields
  <2> HIDE DEF y
  <2> QED BY <1>1, <1>6, <2>2, <2>4, <2>5, <2>6, FinishKeepsInv
<1> QED BY <1>3, <1>8, <1>9

(* DnsMgr::stop: an idle socket is closed, it is not watched.              *)
LEMMA StopKeepsInv ==
  ASSUME IInv, NEW r \in Robots, Stop(r)
  PROVE  IInv'
<1>1. /\ running' = running \ {r}
      /\ theCache' = IF running' = {} THEN << >> ELSE theCache
      /\ theSock' = IF theXacts[r] = << >> THEN theSock \ {r} ELSE theSock
      /\ UNCHANGED <<TheLastId, theXacts, theReserv, net, waiting, told, failure>>
  BY DEF Stop
<1>2. theCache' \in Seq(Names \X Names) /\ CacheInOrder'
  <2>1. /\ << >> \in Seq(Names \X Names) /\ IsInjective(<< >>) /\ Range(<< >>) = {}
        /\ Len(<< >>) = 0
    BY EmptyIsDistinct, EmptySeq
  <2>2. CASE theCache' = << >>
    BY <2>1, <2>2, DnsAssumption DEF CacheInOrder
  <2>3. CASE theCache' = theCache
    BY <2>3 DEF IInv, TypeOK, CacheInOrder
  <2> QED BY <1>1, <2>2, <2>3
<1>3. TypeOK'
  BY <1>1, <1>2 DEF IInv, TypeOK
<1>4. XactsInOrder' /\ OneLookupEach' /\ WaitersAreLookedUp' /\ ListensWhileAsking'
  BY <1>1 DEF IInv, XactsInOrder, OneLookupEach, WaitersAreLookedUp, ListensWhileAsking, Started
<1> QED BY <1>1, <1>2, <1>3, <1>4 DEF IInv

LEMMA NextKeepsInv == IInv /\ [Next]_vars => IInv'
<1> SUFFICES ASSUME IInv, [Next]_vars PROVE IInv'
  OBVIOUS
<1>1. ASSUME UNCHANGED <<TheLastId, theXacts, theSock, theReserv, waiting, told, theCache,
                         failure>>,
             running' \subseteq Robots, net' \subseteq net
      PROVE  IInv'
  <2>1. TypeOK'
    BY <1>1 DEF IInv, TypeOK
  <2>2. /\ XactsInOrder' /\ OneLookupEach' /\ WaitersAreLookedUp' /\ ListensWhileAsking'
        /\ CacheInOrder'
    BY <1>1 DEF IInv, XactsInOrder, OneLookupEach, WaitersAreLookedUp, ListensWhileAsking,
                Started, CacheInOrder
  <2> QED BY <1>1, <2>1, <2>2 DEF IInv
<1>2. ASSUME NEW m \in net, Vanish(m) PROVE IInv'
  BY <1>1, <1>2 DEF Vanish, IInv, TypeOK
<1>3. ASSUME NEW r \in Robots, Start(r) PROVE IInv'
  BY <1>1, <1>3 DEF Start, IInv, TypeOK
<1>4. CASE UNCHANGED vars
  BY <1>1, <1>4 DEF vars, IInv, TypeOK
<1> QED BY <1>2, <1>3, <1>4, CacheHitKeepsInv, LookupKeepsInv, LookupFailsKeepsInv,
          WakeUpKeepsInv, NoteReplyKeepsInv, StopKeepsInv DEF Next

LEMMA InvHolds == Spec => []IInv
  BY InitIsInv, NextKeepsInv, PTL DEF Spec

-----------------------------------------------------------------------------
(* Identifiers stay within their width and are never zero on the wire, a   *)
(* lookup is never sent more often than there are servers.                 *)
THEOREM DnsMgrTypeOK == Spec => []TypeOK
<1>1. IInv => TypeOK
  BY DEF IInv
<1> QED BY <1>1, InvHolds, PTL

(* However identifiers wrap around and whatever replies are late, repeated *)
(* or lost, nobody is told and the cache never holds an address of another *)
(* name.                                                                   *)
THEOREM AddressesAreRight == Spec => []RightAddress
<1>1. IInv => RightAddress
  BY DEF IInv, CacheInOrder, RightAddress, Range
<1> QED BY <1>1, InvHolds, PTL

(* DnsCache: one entry per name, never more than the capacity.             *)
THEOREM CacheKeepsToItsLimits ==
  Spec => [](/\ Len(theCache) <= Capacity
             /\ \A i, j \in DOMAIN theCache : theCache[i][1] = theCache[j][1] => i = j)
<1>1. IInv => /\ Len(theCache) <= Capacity
              /\ \A i, j \in DOMAIN theCache : theCache[i][1] = theCache[j][1] => i = j
  <2> SUFFICES ASSUME IInv, NEW i \in DOMAIN theCache, NEW j \in DOMAIN theCache,
                      theCache[i][1] = theCache[j][1]
               PROVE  i = j
    BY DEF IInv, CacheInOrder
  <2>1. theCache[i] \in Names \X Names /\ theCache[j] \in Names \X Names
    BY DEF IInv, TypeOK
  <2>2. theCache[i][2] = theCache[j][2]
    BY DEF IInv, CacheInOrder, Range
  <2>3. theCache[i] = theCache[j]
    BY <2>1, <2>2
  <2> QED BY <2>3 DEF IInv, CacheInOrder, IsInjective
<1> QED BY <1>1, InvHolds, PTL

(* A transaction that waits has exactly one lookup, for the name it waits  *)
(* for, and no lookup calls back a transaction that does not wait: also    *)
(* when the last lookup moves to the place of one that ends.               *)
THEOREM WaitersAreCalledBack == Spec => []WaitersHaveLookups
<1>1. IInv => WaitersHaveLookups
  <2> SUFFICES ASSUME IInv PROVE WaitersHaveLookups
    OBVIOUS
  <2>1. \A r \in Robots : \A i \in Started(r) :
          waiting[theXacts[r][i].reason] = theXacts[r][i].query
    BY DEF IInv, XactsInOrder, Started
  <2>2. ASSUME NEW q \in Reasons, waiting[q] # NoName
        PROVE  Cardinality({ri \in UNION {{r} \X Started(r) : r \in Robots} :
                              theXacts[ri[1]][ri[2]].reason = q}) = 1
    <3> DEFINE S == {ri \in UNION {{r} \X Started(r) : r \in Robots} :
                       theXacts[ri[1]][ri[2]].reason = q}
    <3>1a. PICK r \in Robots : \E i \in Started(r) : theXacts[r][i].reason = q
      BY <2>2 DEF IInv, WaitersAreLookedUp
    <3>1. PICK i \in Started(r) : theXacts[r][i].reason = q
      BY <3>1a
    <3>2. <<r, i>> \in S
      BY <3>1
    <3>3. ASSUME NEW ri \in S PROVE ri = <<r, i>>
      <4>1. PICK s \in Robots : ri \in {s} \X Started(s)
        BY <3>3
      <4>2. ri[1] = s /\ ri[2] \in Started(s) /\ theXacts[s][ri[2]].reason = q
            /\ ri = <<ri[1], ri[2]>>
        BY <3>3, <4>1
      <4>3. s = r /\ ri[2] = i
        BY <3>1, <4>2 DEF IInv, OneLookupEach
      <4> QED BY <4>2, <4>3
    <3>4. S = {<<r, i>>}
      BY <3>2, <3>3
    <3> HIDE DEF S
    <3>5. Cardinality(S) = 1
      BY <3>4, FS_Singleton
    <3> QED BY <3>5 DEF S
  <2> QED BY <2>1, <2>2 DEF WaitersHaveLookups
<1> QED BY <1>1, InvHolds, PTL

(* While a lookup is under way its robot's socket is open and watched,     *)
(* however the robot is stopped and started meanwhile.                     *)
THEOREM SocketListens == Spec => []ListensWhileAsking
<1>1. IInv => ListensWhileAsking
  BY DEF IInv
<1> QED BY <1>1, InvHolds, PTL

(* With one DNS server no assertion fails.  The run dns_retry shows that   *)
(* with two the assertion of DnsXact::retry does.                          *)
THEOREM AssertsHoldWithOneServer ==
  ASSUME Servers = 1
  PROVE  Spec => []AssertsHold
<1>1. IInv => AssertsHold
  BY DEF IInv, AssertsHold
<1> QED BY <1>1, InvHolds, PTL

(* With any number of servers that assertion is the only one that fails:   *)
(* lookups know their place and have no alarm left when they go.           *)
THEOREM OnlyTheOwnerIsMissed == Spec => [](failure \in {"none", "owner"})
<1>1. IInv => failure \in {"none", "owner"}
  BY DEF IInv
<1> QED BY <1>1, InvHolds, PTL
=============================================================================
