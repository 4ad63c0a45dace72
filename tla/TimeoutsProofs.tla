----------------------------- MODULE TimeoutsProofs -----------------------------
(***************************************************************************)
(* Proofs about Timeouts, for any set of cyclic timers, any width of the   *)
(* count of milliseconds and any delay of tcpip_thread that leaves early   *)
(* and late distinguishable: types, that no alarm is forgotten or late,    *)
(* and that the list implements a set of alarms.                           *)
(***************************************************************************)
EXTENDS Timeouts, FiniteSetTheorems, SequenceTheorems, WellFoundedInduction, TLAPS

(* Arithmetic modulo the width of the count *)

LEMMA Constants ==
  /\ MaxTimeout \in Nat /\ MaxDelay \in Nat /\ PoolSize \in Nat
  /\ TimeModulus \in Nat \ {0} /\ TimeModulus = MaxTimeout + MaxTimeout + 2
  /\ \A h \in Handler : Interval[h] \in Nat \ {0} /\ Interval[h] <= Interval[arp_timer]
  /\ Interval[arp_timer] \in Nat
  /\ Interval[arp_timer] + Interval[arp_timer] + MaxDelay <= MaxTimeout
  /\ arp_timer \in Periodic /\ tcp_timer \notin Periodic /\ Cyclic \subseteq Periodic
  /\ Periodic \subseteq Handler /\ tcp_timer \in Handler
  BY TimeoutsAssumption DEF TimeModulus, Handler, Periodic

LEMMA Width ==
  /\ MaxTimeout \in Nat
  /\ TimeModulus \in Nat \ {0} /\ TimeModulus = MaxTimeout + MaxTimeout + 2
  BY Constants

LEMMA Modulo ==
  ASSUME NEW x \in Int, -TimeModulus <= x, x < 2 * TimeModulus
  PROVE  x % TimeModulus = IF x < 0 THEN x + TimeModulus
                           ELSE IF x < TimeModulus THEN x ELSE x - TimeModulus
<1>1. ASSUME NEW M \in Nat \ {0}, -M <= x, x < 2 * M
      PROVE  x % M = IF x < 0 THEN x + M ELSE IF x < M THEN x ELSE x - M
  <2>1. CASE x < 0
    BY <1>1, <2>1
  <2>2. CASE 0 <= x /\ x < M
    BY <1>1, <2>2
  <2>3. CASE M <= x
    BY <1>1, <2>3
  <2>4. QED
    BY <2>1, <2>2, <2>3
<1>2. QED
  BY <1>1, Width

\* t is d after u, across the wrap.
Off(t, u, d) == t - u = d \/ t - u = d + TimeModulus \/ t - u = d - TimeModulus

LEMMA AfterIs ==
  ASSUME now \in Time, NEW d \in 0..MaxTimeout
  PROVE  After(d) \in Time /\ Off(After(d), now, d)
<1>1. now + d \in Int /\ 0 <= now + d /\ now + d < 2 * TimeModulus /\ -TimeModulus <= now + d
  BY Width DEF Time
<1> DEFINE x == now + d
<1>2. x \in Int /\ -TimeModulus <= x /\ x < 2 * TimeModulus /\ 0 <= x
  BY <1>1
<1> HIDE DEF x
<1>3. x % TimeModulus = IF x < TimeModulus THEN x ELSE x - TimeModulus
  BY <1>2, Modulo
<1>4. After(d) = IF x < TimeModulus THEN x ELSE x - TimeModulus
  BY <1>3 DEF After, x
<1>5. QED
  BY <1>1, <1>4, Width DEF Time, Off, x

LEMMA LessThanIs ==
  ASSUME NEW t \in Time, NEW u \in Time, NEW d \in -MaxTimeout..MaxTimeout, Off(t, u, d)
  PROVE  LessThan(t, u) <=> d < 0
<1>1. t - u \in Int /\ -TimeModulus <= t - u /\ t - u < TimeModulus
  BY Width DEF Time
<1>2. (t - u) % TimeModulus = IF t - u < 0 THEN t - u + TimeModulus ELSE t - u
  BY <1>1, Modulo, Width
<1>3. QED
  BY <1>1, <1>2, Width DEF LessThan, Off

-----------------------------------------------------------------------------
(* The list *)

LEMMA MinimalOf ==
  ASSUME NEW R, NEW N, IsWellFoundedOn(R, N), NEW S, S \subseteq N, S # {}
  PROVE  \E x \in S : \A y \in S : ~(<<y, x>> \in R)
  BY WFMin

LEMMA LeastOf ==
  ASSUME NEW R, NEW S, S \subseteq Nat,
         \A x, y \in Nat : x < y => <<x, y>> \in R,
         \E m \in S : \A k \in S : ~(<<k, m>> \in R)
  PROVE  \E m \in S : \A k \in S : m <= k
<1>1. PICK m \in S : \A k \in S : ~(<<k, m>> \in R)
  OBVIOUS
<1>2. \A k \in S : ~(k < m)
  BY <1>1
<1>3. QED
  BY <1>2

LEMMA Least ==
  ASSUME NEW S, S \subseteq Nat, S # {}
  PROVE  \E m \in S : \A k \in S : m <= k
<1>1. IsWellFoundedOn(OpToRel(<, Nat), Nat)
  BY NatLessThanWellFounded
<1>2. \A x, y \in Nat : x < y => <<x, y>> \in OpToRel(<, Nat)
  BY DEF OpToRel
<1>3. \E m \in S : \A k \in S : ~(<<k, m>> \in OpToRel(<, Nat))
  BY <1>1, MinimalOf, Zenon
<1>4. QED
  BY <1>2, <1>3, LeastOf, Zenon

LEMMA PlaceIs ==
  ASSUME timeouts \in Seq(Alarm), NEW t
  PROVE  /\ Place(t) \in 1..Len(timeouts) + 1
         /\ \A j \in 1..Place(t) - 1 : ~LessThan(t, timeouts[j].time)
         /\ Place(t) <= Len(timeouts) => LessThan(t, timeouts[Place(t)].time)
<1> DEFINE S == {i \in 1..Len(timeouts) + 1 :
                   i <= Len(timeouts) => LessThan(t, timeouts[i].time)}
<1>1. Len(timeouts) \in Nat
  BY LenProperties
<1>2. Len(timeouts) + 1 \in S
  BY <1>1
<1>3. S \subseteq Nat /\ S # {}
  BY <1>1, <1>2
<1>4. PICK m \in S : \A k \in S : m <= k
  BY <1>3, Least
<1>5. \A j \in 1..m - 1 : ~LessThan(t, timeouts[j].time)
  BY <1>1, <1>4
<1>6. QED
  BY <1>4, <1>5 DEF Place

LEMMA InsertAtIs ==
  ASSUME NEW S, NEW s \in Seq(S), NEW i \in 1..Len(s) + 1, NEW e \in S
  PROVE  /\ InsertAt(s, i, e) \in Seq(S)
         /\ Len(InsertAt(s, i, e)) = Len(s) + 1
         /\ \A j \in 1..Len(s) + 1 :
              InsertAt(s, i, e)[j] = IF j < i THEN s[j] ELSE IF j = i THEN e ELSE s[j - 1]
<1>1. Len(s) \in Nat /\ i \in Nat
  BY LenProperties
<1> DEFINE a == SubSeq(s, 1, i - 1)
           b == SubSeq(s, i, Len(s))
<1>2. a \in Seq(S) /\ Len(a) = i - 1 /\ \A j \in 1..i - 1 : a[j] = s[j]
  BY <1>1, SubSeqProperties
<1>3. b \in Seq(S) /\ Len(b) = Len(s) - i + 1 /\ \A j \in 1..Len(s) - i + 1 : b[j] = s[i + j - 1]
  BY <1>1, SubSeqProperties
<1> HIDE DEF a, b
<1>4. InsertAt(s, i, e) = (a \o <<e>>) \o b
  BY DEF InsertAt, a, b
<1>5. /\ a \o <<e>> \in Seq(S) /\ Len(a \o <<e>>) = i
      /\ \A j \in 1..i : (a \o <<e>>)[j] = IF j < i THEN s[j] ELSE e
  BY <1>1, <1>2, ConcatProperties
<1> DEFINE c == a \o <<e>>
           r == InsertAt(s, i, e)
<1>6. /\ r \in Seq(S) /\ Len(r) = Len(c) + Len(b)
      /\ \A j \in 1..Len(c) + Len(b) : r[j] = IF j <= Len(c) THEN c[j] ELSE b[j - Len(c)]
  <2>1. r = c \o b /\ c \in Seq(S)
    BY <1>4, <1>5
  <2> HIDE DEF c, r
  <2>2. QED
    BY <1>3, <2>1, ConcatProperties
<1>7. \A j \in 1..Len(s) + 1 : j > i => b[j - i] = s[j - 1]
  BY <1>1, <1>3
<1>8. Len(c) = i /\ Len(c) + Len(b) = Len(s) + 1
  <2>1. Len(c) = i
    BY <1>5
  <2> HIDE DEF c
  <2>2. QED
    BY <1>1, <1>3, <2>1
<1>9. \A j \in 1..Len(s) + 1 : r[j] = IF j < i THEN s[j] ELSE IF j = i THEN e ELSE s[j - 1]
  <2> HIDE DEF r
  <2>1. TAKE j \in 1..Len(s) + 1
  <2>2. CASE j <= i
    BY <1>1, <1>5, <1>6, <1>8, <2>2
  <2>3. CASE j > i
    <3>1. r[j] = b[j - i]
      BY <1>1, <1>6, <1>8, <2>3
    <3>2. b[j - i] = s[j - 1]
      BY <1>7, <2>3
    <3>3. QED
      BY <1>1, <2>3, <3>1, <3>2
  <2>4. QED
    BY <1>1, <2>2, <2>3
<1>10. QED
  BY <1>6, <1>8, <1>9

-----------------------------------------------------------------------------
(* What is set *)

Once(s) == \A i, j \in DOMAIN s : s[i].h = s[j].h => i = j
Names(s) == {s[i].h : i \in DOMAIN s}

\* r is s with e at p.
Inserts(r, s, p, e) ==
  /\ Len(r) = Len(s) + 1
  /\ \A j \in 1..Len(s) + 1 :
       r[j] = IF j < p THEN s[j] ELSE IF j = p THEN e ELSE s[j - 1]

LEMMA HandlerIs ==
  /\ Len(InitialOrder) \in Nat
  /\ \A i \in 1..Len(InitialOrder) : InitialOrder[i] \in Periodic
  /\ \A h \in Periodic : \E i \in 1..Len(InitialOrder) : InitialOrder[i] = h
<1>1. lwip_cyclic_timers \in Seq(Cyclic) /\ Len(lwip_cyclic_timers) \in Nat
  BY TimeoutsAssumption, LenProperties
<1>2. \A h \in Cyclic : \E i \in 1..Len(lwip_cyclic_timers) : lwip_cyclic_timers[i] = h
  BY <1>1, LenProperties DEF Cyclic, ToSet
<1>3. /\ InitialOrder \in Seq(Periodic) /\ Len(InitialOrder) = Len(lwip_cyclic_timers) + 1
      /\ \A i \in 1..Len(lwip_cyclic_timers) : InitialOrder[i] = lwip_cyclic_timers[i]
      /\ InitialOrder[Len(lwip_cyclic_timers) + 1] = arp_timer
  BY <1>1, AppendProperties DEF InitialOrder, Periodic
<1>4. \A i \in 1..Len(InitialOrder) : InitialOrder[i] \in Periodic
  BY <1>3, ElementOfSeq
<1>5. \A h \in Cyclic : \E i \in 1..Len(InitialOrder) : InitialOrder[i] = h
  BY <1>1, <1>2, <1>3
<1>6. Len(InitialOrder) \in Nat /\ InitialOrder[Len(InitialOrder)] = arp_timer /\ Len(InitialOrder) >= 1
  BY <1>1, <1>3
<1>7. QED
  BY <1>4, <1>5, <1>6 DEF Periodic

\* As long as one handler is not set there is an element left.
LEMMA NotAllSet ==
  ASSUME TypeOK, Once(timeouts), Len(timeouts) + avail = PoolSize,
         NEW h \in Handler, h \notin Armed
  PROVE  avail > 0
<1> DEFINE n == Len(timeouts) + 1
           k == Len(InitialOrder) + 1
           order == [i \in 1..k |-> IF i = k THEN tcp_timer ELSE InitialOrder[i]]
           set == [i \in 1..n |-> IF i = n THEN h ELSE timeouts[i].h]
           pos == [i \in 1..n |-> CHOOSE j \in 1..k : order[j] = set[i]]
<1>1. Len(timeouts) \in Nat /\ n \in Nat /\ k \in Nat /\ DOMAIN timeouts = 1..Len(timeouts)
  BY HandlerIs, LenProperties DEF TypeOK
<1>2. \A i \in 1..Len(timeouts) : timeouts[i] \in Alarm
  BY ElementOfSeq DEF TypeOK
<1>3. \A i \in 1..n : set[i] \in Handler
  BY <1>1, <1>2 DEF Alarm
<1>4. \A i, j \in 1..n : set[i] = set[j] => i = j
  BY <1>1 DEF Once, Armed
<1>5. \A g \in Handler : \E j \in 1..k : order[j] = g
  BY <1>1, HandlerIs DEF Handler
<1> HIDE DEF n, k, order, set
<1>6. \A i \in 1..n : pos[i] \in 1..k /\ order[pos[i]] = set[i]
  BY <1>3, <1>5
<1>7. pos \in [1..n -> 1..k]
  BY <1>6
<1> HIDE DEF pos
<1>8. \A i, j \in 1..n : pos[i] = pos[j] => i = j
  BY <1>4, <1>6
<1>9. IsFiniteSet(1..n) /\ Cardinality(1..n) = n /\ IsFiniteSet(1..k) /\ Cardinality(1..k) = k
  <2>1. ASSUME NEW m \in Nat PROVE IsFiniteSet(1..m) /\ Cardinality(1..m) = m
    BY FS_Interval
  <2>2. QED
    BY <1>1, <2>1
<1>10. ~(n > k)
  BY <1>1, <1>7, <1>8, <1>9, FS_PigeonHole
<1>11. n <= PoolSize
  BY <1>1, <1>10, TimeoutsAssumption, Constants DEF k
<1>12. QED
  BY <1>1, <1>11, Constants DEF n, TypeOK

LEMMA Inserted ==
  ASSUME NEW s \in Seq(Alarm), NEW r \in Seq(Alarm), NEW p \in 1..Len(s) + 1, NEW e \in Alarm,
         Inserts(r, s, p, e), Once(s), e.h \notin Names(s)
  PROVE  Once(r) /\ Names(r) = Names(s) \cup {e.h}
<1>1. /\ Len(s) \in Nat /\ DOMAIN s = 1..Len(s) /\ DOMAIN r = 1..Len(s) + 1
      /\ p \in Nat /\ 1 <= p /\ p <= Len(s) + 1
  BY LenProperties DEF Inserts
<1> DEFINE from(j) == IF j < p THEN j ELSE j - 1
           to(i) == IF i < p THEN i ELSE i + 1
<1>2. \A j \in 1..Len(s) + 1 : j # p => from(j) \in 1..Len(s) /\ r[j] = s[from(j)]
  BY <1>1 DEF Inserts
<1>3. r[p] = e
  BY <1>1 DEF Inserts
<1>4. \A i, j \in 1..Len(s) + 1 : i # p /\ j # p /\ from(i) = from(j) => i = j
  BY <1>1
<1>5. \A i \in 1..Len(s) : to(i) \in 1..Len(s) + 1 /\ to(i) # p /\ from(to(i)) = i
  BY <1>1
<1> HIDE DEF from, to
<1>6. \A i \in 1..Len(s) : to(i) \in 1..Len(s) + 1 /\ r[to(i)] = s[i]
  BY <1>2, <1>5
<1>7. ASSUME NEW i \in 1..Len(s) + 1, NEW j \in 1..Len(s) + 1, r[i].h = r[j].h PROVE i = j
  <2>1. \A k \in 1..Len(s) : s[k].h # e.h
    BY <1>1 DEF Names
  <2>2. CASE i = p
    BY <1>1, <1>2, <1>3, <1>7, <2>1, <2>2
  <2>3. CASE j = p
    BY <1>1, <1>2, <1>3, <1>7, <2>1, <2>3
  <2>4. CASE i # p /\ j # p
    BY <1>1, <1>2, <1>4, <1>7, <2>4 DEF Once
  <2>5. QED
    BY <2>2, <2>3, <2>4
<1>8. Names(r) \subseteq Names(s) \cup {e.h}
  BY <1>1, <1>2, <1>3 DEF Names
<1>9. Names(s) \cup {e.h} \subseteq Names(r)
  BY <1>1, <1>3, <1>6 DEF Names
<1>10. QED
  BY <1>1, <1>7, <1>8, <1>9 DEF Once

\* sys_timeout_abs puts one more element into the list.
LEMMA Arms ==
  ASSUME TypeOK, Once(timeouts), Len(timeouts) + avail = PoolSize,
         NEW h \in Handler, h \notin Armed, NEW t \in Time, sys_timeout_abs(t, h)
  PROVE  /\ timeouts' \in Seq(Alarm) /\ avail' \in 0..PoolSize
         /\ Len(timeouts') + avail' = PoolSize
         /\ Place(t) \in 1..Len(timeouts) + 1
         /\ Inserts(timeouts', timeouts, Place(t), [h |-> h, time |-> t])
         /\ Once(timeouts)' /\ Armed' = Armed \cup {h}
<1> DEFINE e == [h |-> h, time |-> t]
           p == Place(t)
<1>1. timeouts \in Seq(Alarm) /\ avail \in 0..PoolSize /\ Len(timeouts) \in Nat
  BY LenProperties DEF TypeOK
<1>2. avail > 0
  BY NotAllSet
<1>3. e \in Alarm /\ e.h = h
  BY DEF Alarm
<1>4. p \in 1..Len(timeouts) + 1
  BY <1>1, PlaceIs
<1>5. timeouts' = InsertAt(timeouts, p, e) /\ avail' = avail - 1
  BY <1>2 DEF sys_timeout_abs
<1>6. e.h \notin Names(timeouts)
  BY <1>3 DEF Armed, Names
<1> HIDE DEF e, p
<1>7. InsertAt(timeouts, p, e) \in Seq(Alarm) /\ Inserts(InsertAt(timeouts, p, e), timeouts, p, e)
  BY <1>1, <1>3, <1>4, InsertAtIs DEF Inserts
<1>8. timeouts' \in Seq(Alarm) /\ Inserts(timeouts', timeouts, p, e)
  BY <1>5, <1>7
<1>9. Once(timeouts') /\ Names(timeouts') = Names(timeouts) \cup {e.h}
  BY <1>1, <1>3, <1>4, <1>6, <1>8, Inserted
<1>10. Once(timeouts)' /\ Armed' = Armed \cup {h}
  BY <1>3, <1>9 DEF Once, Names, Armed
<1>11. avail' \in 0..PoolSize /\ Len(timeouts') + avail' = PoolSize
  BY <1>1, <1>2, <1>5, <1>8, Constants DEF Inserts
<1>12. QED
  BY <1>4, <1>8, <1>10, <1>11 DEF e, p

LEMMA Removed ==
  ASSUME NEW s \in Seq(Alarm), s # << >>, Once(s)
  PROVE  /\ Len(s) \in Nat /\ Len(s) >= 1 /\ s[1] \in Alarm /\ s[1].h \in Names(s)
         /\ Tail(s) \in Seq(Alarm) /\ Len(Tail(s)) = Len(s) - 1
         /\ \A j \in 1..Len(s) - 1 : Tail(s)[j] = s[j + 1]
         /\ Once(Tail(s)) /\ Names(Tail(s)) = Names(s) \ {s[1].h}
<1> DEFINE r == Tail(s)
<1>1. Len(s) \in Nat /\ Len(s) >= 1 /\ DOMAIN s = 1..Len(s)
  BY LenProperties, EmptySeq
<1>2. s[1] \in Alarm
  BY <1>1, ElementOfSeq
<1>3. /\ r \in Seq(Alarm) /\ Len(r) = Len(s) - 1
      /\ \A j \in 1..Len(s) - 1 : r[j] = s[j + 1]
  BY <1>1, HeadTailProperties
<1> HIDE DEF r
<1>4. DOMAIN r = 1..Len(s) - 1
  BY <1>3, LenProperties
<1>5. Once(r)
  <2>1. ASSUME NEW i \in 1..Len(s) - 1, NEW j \in 1..Len(s) - 1, r[i].h = r[j].h PROVE i = j
    <3>1. i + 1 \in 1..Len(s) /\ j + 1 \in 1..Len(s) /\ s[i + 1].h = s[j + 1].h
      BY <1>1, <1>3, <2>1
    <3>2. i + 1 = j + 1
      BY <1>1, <3>1 DEF Once
    <3>3. QED
      BY <3>2
  <2>2. QED
    BY <1>4, <2>1 DEF Once
<1>6. ASSUME NEW i \in 1..Len(s) - 1 PROVE r[i].h \in Names(s) /\ r[i].h # s[1].h
  BY <1>1, <1>3 DEF Names, Once
<1>7. ASSUME NEW i \in 2..Len(s) PROVE s[i].h \in Names(r)
  <2>1. i - 1 \in 1..Len(s) - 1 /\ r[i - 1] = s[i]
    BY <1>1, <1>3
  <2>2. QED
    BY <1>4, <2>1 DEF Names
<1>8. Names(s) \ {s[1].h} \subseteq Names(r)
  BY <1>1, <1>7 DEF Names
<1>9. Names(r) \subseteq Names(s) \ {s[1].h}
  BY <1>4, <1>6 DEF Names
<1>10. s[1].h \in Names(s)
  BY <1>1 DEF Names
<1>11. Names(r) = Names(s) \ {s[1].h}
  BY <1>8, <1>9
<1>12. QED
  BY <1>1, <1>2, <1>3, <1>5, <1>10, <1>11 DEF r

-----------------------------------------------------------------------------
(* Every alarm is set once *)

\* The part of it that the list and the timer of TCP decide.
ListInv ==
  /\ timeouts \in Seq(Alarm) /\ avail \in 0..PoolSize
  /\ tcpip_tcp_timer_active \in BOOLEAN /\ connected \in BOOLEAN
  /\ Once(timeouts)
  /\ connected => tcpip_tcp_timer_active
  /\ Len(timeouts) + avail = PoolSize

Wanted == Periodic \cup (IF tcpip_tcp_timer_active THEN {tcp_timer} ELSE {})

SetInv ==
  /\ ListInv
  /\ now \in Time /\ checked \in Time
  /\ pc \in {"loop", "fetch", "check", "handler"}
  /\ IF pc = "handler"
       THEN running \in Alarm /\ running.h \notin Armed /\ Armed \cup {running.h} = Wanted
       ELSE running = Idle /\ Armed = Wanted
  /\ sleep \in 0..Forever /\ mail \in BOOLEAN /\ spent \in 0..MaxDelay

LEMMA SetInvIs == SetInv => TypeOK /\ NothingForgotten
  BY DEF SetInv, TypeOK, NothingForgotten, ListInv, Wanted, Once

\* A connection opened or closed by a task or by a message.
LEMMA StackKeeps ==
  ASSUME SetInv, pc = "fetch", Opens \/ Closes \/ UNCHANGED <<tcp, list>>
  PROVE  ListInv' /\ Armed' = Wanted'
<1>1. ListInv /\ Armed = Wanted /\ now \in Time
  BY DEF SetInv
<1>2. CASE Opens /\ ~tcpip_tcp_timer_active
  <2>1. tcp_timer \notin Armed /\ tcp_timer \in Handler
    BY <1>1, <1>2, Constants DEF Wanted
  <2>2. After(Interval[tcp_timer]) \in Time
    BY <1>1, AfterIs, Constants
  <2>3. sys_timeout_abs(After(Interval[tcp_timer]), tcp_timer)
    BY <1>2 DEF Opens, sys_timeout
  <2> DEFINE t == After(Interval[tcp_timer])
  <2> HIDE DEF t
  <2>4. t \in Time /\ sys_timeout_abs(t, tcp_timer)
    BY <2>2, <2>3 DEF t
  <2>5. /\ timeouts' \in Seq(Alarm) /\ avail' \in 0..PoolSize
        /\ Len(timeouts') + avail' = PoolSize
        /\ Once(timeouts)' /\ Armed' = Armed \cup {tcp_timer}
    BY <1>1, <2>1, <2>4, Arms, SetInvIs DEF ListInv
  <2>6. tcpip_tcp_timer_active' = TRUE /\ connected' = TRUE
    BY <1>2 DEF Opens
  <2>7. Wanted' = Periodic \cup {tcp_timer}
    BY <2>6 DEF Wanted
  <2>8. QED
    BY <1>1, <1>2, <2>5, <2>6, <2>7 DEF ListInv, Wanted
<1>3. CASE Opens /\ tcpip_tcp_timer_active
  BY <1>1, <1>3 DEF Opens, list, ListInv, Once, Armed, Wanted
<1>4. CASE Closes
  BY <1>1, <1>4 DEF Closes, list, ListInv, Once, Armed, Wanted
<1>5. CASE UNCHANGED <<tcp, list>>
  BY <1>1, <1>5 DEF tcp, list, ListInv, Once, Armed, Wanted
<1>6. QED
  BY <1>2, <1>3, <1>4, <1>5 DEF SetInv, ListInv

LEMMA Unmoved ==
  ASSUME UNCHANGED <<list, tcp>>
  PROVE  (ListInv <=> ListInv') /\ Armed' = Armed /\ Wanted' = Wanted
  BY DEF list, tcp, ListInv, Once, Armed, Wanted

LEMMA InitSets == Init => SetInv
<1> SUFFICES ASSUME Init PROVE SetInv
  OBVIOUS
<1> DEFINE k == Len(InitialOrder)
           e(i) == [h |-> InitialOrder[i], time |-> Interval[InitialOrder[i]]]
<1>1. k \in Nat /\ k <= PoolSize /\ DOMAIN InitialOrder = 1..k
  <2>1. InitialOrder \in Seq(Periodic)
    BY TimeoutsAssumption, AppendProperties DEF InitialOrder, Periodic
  <2>2. QED
    BY <2>1, HandlerIs, LenProperties, TimeoutsAssumption, Constants
<1>2. \A i \in 1..k : e(i) \in Alarm
  <2>1. TAKE i \in 1..k
  <2>2. InitialOrder[i] \in Handler
    BY HandlerIs, Constants
  <2>3. Interval[InitialOrder[i]] \in Time
    BY <2>2, Constants DEF Time
  <2>4. QED
    BY <2>2, <2>3 DEF Alarm
<1>3. timeouts = [i \in 1..k |-> e(i)]
  BY <1>1 DEF Init
<1> HIDE DEF k, e
<1>4. timeouts \in Seq(Alarm) /\ Len(timeouts) = k
  BY <1>1, <1>2, <1>3, IsASeq
<1>5. \A i \in 1..k : timeouts[i].h = InitialOrder[i]
  BY <1>3 DEF e
<1>6. DOMAIN timeouts = 1..k
  BY <1>3
<1>7. \A i, j \in 1..k : InitialOrder[i] = InitialOrder[j] => i = j
  BY <1>1, TimeoutsAssumption
<1>8. Once(timeouts)
  BY <1>5, <1>6, <1>7 DEF Once
<1>9. Armed = Periodic
  BY <1>5, <1>6, HandlerIs DEF Armed, k
<1>10. /\ avail = PoolSize - k /\ now = 0 /\ checked = 0 /\ running = Idle
       /\ tcpip_tcp_timer_active = FALSE /\ connected = FALSE
       /\ pc = "loop" /\ sleep = 0 /\ mail = FALSE /\ spent = 0
  BY <1>4 DEF Init
<1>11. Armed = Wanted
  BY <1>9, <1>10 DEF Wanted
<1>12. 0 \in Time /\ 0 \in 0..Forever /\ 0 \in 0..MaxDelay /\ avail \in 0..PoolSize /\ k + avail = PoolSize
  BY <1>1, <1>10, Constants DEF Time, Forever
<1>13. QED
  BY <1>4, <1>8, <1>10, <1>11, <1>12 DEF SetInv, ListInv

LEMMA HandlerSets ==
  ASSUME SetInv, HandlerEnds
  PROVE  ListInv' /\ Armed' = Wanted'
<1> DEFINE h == running.h
<1>1. /\ ListInv /\ now \in Time /\ running \in Alarm /\ h \in Handler /\ running.time \in Time
      /\ h \notin Armed /\ Armed \cup {h} = Wanted /\ Interval[h] \in Nat \ {0}
  BY Constants DEF SetInv, HandlerEnds, Alarm
<1>2. After(Interval[h]) \in Time
  BY <1>1, AfterIs, Constants
<1>3. (running.time + Interval[h]) % TimeModulus \in Time
  <2>1. ASSUME NEW x \in Int PROVE x % TimeModulus \in Time
    BY Width DEF Time
  <2>2. running.time + Interval[h] \in Int
    BY <1>1 DEF Time
  <2>3. QED
    BY <2>1, <2>2
<1>4. ASSUME NEW t \in Time, sys_timeout_abs(t, h)
      PROVE  /\ timeouts' \in Seq(Alarm) /\ avail' \in 0..PoolSize
             /\ Len(timeouts') + avail' = PoolSize
             /\ Once(timeouts)' /\ Armed' = Armed \cup {h}
  BY <1>1, <1>4, Arms, SetInvIs DEF ListInv
<1>5. CASE CyclicTimer
  <2>1. \E t \in Time : sys_timeout_abs(t, h)
    BY <1>2, <1>3, <1>5 DEF CyclicTimer
  <2>2. UNCHANGED tcp
    BY <1>5 DEF CyclicTimer
  <2>3. QED
    BY <1>1, <1>4, <2>1, <2>2 DEF ListInv, Wanted, tcp
<1>6. CASE ArpTimer
  <2>1. \E t \in Time : sys_timeout_abs(t, h)
    BY <1>2, <1>6 DEF ArpTimer, sys_timeout
  <2>2. UNCHANGED tcp
    BY <1>6 DEF ArpTimer
  <2>3. QED
    BY <1>1, <1>4, <2>1, <2>2 DEF ListInv, Wanted, tcp
<1>7. CASE TcpTimer
  <2>1. h = tcp_timer /\ connected' \in {connected, FALSE} /\ tcpip_tcp_timer_active' = connected'
    BY <1>7 DEF TcpTimer
  <2>2. connected' \in BOOLEAN /\ Armed = Periodic
    <3>1. connected' \in BOOLEAN
      BY <1>1, <2>1 DEF ListInv
    <3>2. tcp_timer \notin Armed /\ Armed \cup {tcp_timer} = Wanted /\ tcp_timer \notin Periodic
      BY <1>1, <2>1, Constants
    <3>3. Armed = Periodic
      BY <3>2 DEF Wanted
    <3>4. QED
      BY <3>1, <3>3
  <2>3. CASE connected'
    <3>1. \E t \in Time : sys_timeout_abs(t, h)
      BY <1>2, <1>7, <2>1, <2>3 DEF TcpTimer, sys_timeout
    <3>2. QED
      BY <1>1, <1>4, <2>1, <2>2, <2>3, <3>1 DEF ListInv, Wanted
  <2>4. CASE ~connected'
    <3>1. UNCHANGED list
      BY <1>7, <2>4 DEF TcpTimer
    <3>2. QED
      BY <1>1, <2>1, <2>2, <2>4, <3>1 DEF ListInv, Wanted, list, Once, Armed
  <2>5. QED
    BY <2>3, <2>4
<1>8. QED
  BY <1>5, <1>6, <1>7 DEF HandlerEnds

LEMMA StepSets == SetInv /\ [Next]_vars => SetInv'
<1> SUFFICES ASSUME SetInv, [Next]_vars PROVE SetInv'
  OBVIOUS
<1>1. /\ ListInv /\ now \in Time /\ checked \in Time
      /\ pc \in {"loop", "fetch", "check", "handler"}
      /\ pc = "handler" => running \in Alarm /\ running.h \notin Armed /\ Armed \cup {running.h} = Wanted
      /\ pc # "handler" => running = Idle /\ Armed = Wanted
      /\ sleep \in 0..Forever /\ mail \in BOOLEAN /\ spent \in 0..MaxDelay
  BY DEF SetInv
<1>2. 0 \in Time /\ 0 \in 0..Forever /\ 0 \in 0..MaxDelay /\ Forever \in 0..Forever
  BY Constants DEF Time, Forever
<1>3. CASE Loop
  <2>1. UNCHANGED <<list, tcp>> /\ now' = now /\ mail' = mail /\ running' = running /\ pc = "loop"
    BY <1>3 DEF Loop
  <2>2. /\ pc' \in {"fetch", "check"} /\ checked' \in {checked, now} /\ spent' \in {spent, 0}
        /\ sleep' \in 0..Forever
    <3>1. CASE timeouts = << >>
      BY <1>1, <1>2, <1>3, <3>1 DEF Loop, Wait
    <3>2. CASE timeouts # << >> /\ (timeouts[1].time = now \/ LessThan(timeouts[1].time, now))
      BY <1>1, <1>2, <1>3, <3>2 DEF Loop, Check
    <3>3. CASE timeouts # << >> /\ ~(timeouts[1].time = now \/ LessThan(timeouts[1].time, now))
      <4> DEFINE d == timeouts[1].time - now
      <4>1. Wait(d % TimeModulus) /\ ~(d % TimeModulus > MaxTimeout)
        BY <1>3, <3>3 DEF Loop, LessThan
      <4>2. d \in Int
        <5>1. timeouts[1] \in Alarm
          BY <1>1, <3>3, Removed DEF ListInv
        <5>2. QED
          BY <1>1, <5>1 DEF Alarm, Time
      <4> HIDE DEF d
      <4>3. d % TimeModulus \in 0..Forever
        BY <4>1, <4>2, Width DEF Forever
      <4>4. QED
        BY <1>1, <1>2, <4>1, <4>3 DEF Wait
    <3>4. QED
      BY <3>1, <3>2, <3>3
  <2>3. QED
    BY <1>1, <1>2, <2>1, <2>2, Unmoved DEF SetInv
<1>4. CASE HandleMessage
  <2>1. ListInv' /\ Armed' = Wanted'
    BY <1>4, StackKeeps DEF HandleMessage
  <2>2. QED
    BY <1>1, <1>2, <1>4, <2>1 DEF SetInv, HandleMessage, thread
<1>5. CASE FetchTimesOut
  BY <1>1, <1>5, Unmoved DEF SetInv, FetchTimesOut, Check
<1>6. CASE Expire
  <2>1. /\ pc = "check" /\ timeouts # << >> /\ running' = timeouts[1] /\ timeouts' = Tail(timeouts)
        /\ avail' = avail + 1 /\ pc' = "handler"
        /\ UNCHANGED <<now, tcp, checked, sleep, mail, spent>>
    BY <1>6 DEF Expire
  <2> DEFINE a == timeouts[1]
             r == Tail(timeouts)
  <2>2. /\ Len(timeouts) \in Nat /\ Len(timeouts) >= 1 /\ a \in Alarm /\ a.h \in Names(timeouts)
        /\ r \in Seq(Alarm) /\ Len(r) = Len(timeouts) - 1
        /\ Once(r) /\ Names(r) = Names(timeouts) \ {a.h}
    BY <1>1, <2>1, Removed DEF ListInv
  <2> HIDE DEF a, r
  <2>3. timeouts' = r /\ running' = a
    BY <2>1 DEF a, r
  <2>4. Once(timeouts)' /\ Armed' = Armed \ {a.h} /\ a.h \in Armed
    BY <2>2, <2>3 DEF Once, Names, Armed
  <2>5. avail' \in 0..PoolSize /\ Len(timeouts') + avail' = PoolSize
    <3>1. avail \in 0..PoolSize /\ Len(timeouts) + avail = PoolSize /\ PoolSize \in Nat
      BY <1>1, Constants DEF ListInv
    <3>2. Len(timeouts') = Len(timeouts) - 1
      BY <2>2, <2>3
    <3>3. QED
      BY <2>1, <2>2, <3>1, <3>2
  <2>6. ListInv'
    BY <1>1, <2>1, <2>2, <2>3, <2>4, <2>5 DEF ListInv, tcp
  <2>7. Wanted' = Wanted
    BY <2>1 DEF Wanted, tcp
  <2>8. QED
    BY <1>1, <2>1, <2>2, <2>3, <2>4, <2>6, <2>7 DEF SetInv
<1>7. CASE CheckDone
  BY <1>1, <1>2, <1>7, Unmoved DEF SetInv, CheckDone
<1>8. CASE HandlerEnds
  <2>1. ListInv' /\ Armed' = Wanted'
    BY <1>8, HandlerSets
  <2>2. QED
    BY <1>1, <1>8, <2>1 DEF SetInv, HandlerEnds
<1>9. CASE SocketCall
  <2>1. ListInv' /\ Armed' = Wanted'
    BY <1>9, StackKeeps DEF SocketCall
  <2>2. QED
    BY <1>1, <1>9, <2>1 DEF SetInv, SocketCall, thread
<1>10. CASE Post
  BY <1>1, <1>10, Unmoved DEF SetInv, Post, thread
<1>11. CASE Tick
  <2>1. 1 \in 0..MaxTimeout
    BY Constants
  <2>2. now' \in Time
    BY <1>1, <1>11, <2>1, AfterIs DEF Tick
  <2>3. sleep' \in 0..Forever
    BY <1>1, <1>11, Constants DEF Tick, Forever
  <2>4. spent' \in 0..MaxDelay
    BY <1>1, <1>11, Constants DEF Tick
  <2>5. QED
    BY <1>1, <1>11, <2>2, <2>3, <2>4, Unmoved DEF SetInv, Tick, thread
<1>12. CASE UNCHANGED vars
  BY <1>1, <1>12, Unmoved DEF SetInv, vars, thread, list
<1>13. QED
  BY <1>3, <1>4, <1>5, <1>6, <1>7, <1>8, <1>9, <1>10, <1>11, <1>12 DEF Next, Thread

-----------------------------------------------------------------------------
(* Time left *)

A == Interval[arp_timer]
Slack(h) == IF h = tcp_timer THEN A - Interval[h] ELSE 0
LeftAt(t, n) == IF LessThan(t, n) THEN -((n - t) % TimeModulus) ELSE (t - n) % TimeModulus

LEMMA LeftAtNow == ASSUME NEW t PROVE Left(t) = LeftAt(t, now)
  BY DEF Left, LeftAt

LEMMA Spans ==
  /\ A \in Nat /\ MaxDelay \in Nat /\ MaxTimeout \in Nat /\ A + A + MaxDelay <= MaxTimeout
  /\ \A h \in Handler : Slack(h) \in 0..A /\ Interval[h] \in 1..A
  /\ \A h \in Periodic : Slack(h) = 0
<1>1. \A h \in Handler : Interval[h] \in 1..A
  BY Constants DEF A
<1>2. A \in Nat /\ MaxDelay \in Nat /\ MaxTimeout \in Nat /\ A + A + MaxDelay <= MaxTimeout
  BY Constants DEF A
<1>3. \A h \in Handler : Slack(h) \in 0..A
  BY <1>1, <1>2 DEF Slack
<1>4. \A h \in Periodic : Slack(h) = 0
  BY Constants DEF Slack
<1>5. QED
  BY <1>1, <1>2, <1>3, <1>4

LEMMA LeftAtIs ==
  ASSUME NEW n \in Time, NEW t \in Time
  PROVE  /\ LeftAt(t, n) \in -(MaxTimeout + 1)..MaxTimeout
         /\ Off(t, n, LeftAt(t, n))
         /\ \A d \in -MaxTimeout..MaxTimeout : Off(t, n, d) => LeftAt(t, n) = d
<1>1. t - n \in Int /\ -TimeModulus < t - n /\ t - n < TimeModulus
  BY Width DEF Time
<1>2. (t - n) % TimeModulus = IF t - n < 0 THEN t - n + TimeModulus ELSE t - n
  BY <1>1, Modulo, Width
<1>3. n - t \in Int /\ -TimeModulus < n - t /\ n - t < TimeModulus
  BY Width DEF Time
<1>4. (n - t) % TimeModulus = IF n - t < 0 THEN n - t + TimeModulus ELSE n - t
  BY <1>3, Modulo, Width
<1>5. LeftAt(t, n) = IF t - n > MaxTimeout THEN t - n - TimeModulus
                     ELSE IF t - n < -(MaxTimeout + 1) THEN t - n + TimeModulus
                     ELSE t - n
  BY <1>1, <1>2, <1>3, <1>4, Width DEF LeftAt, LessThan, Time
<1>6. QED
  BY <1>1, <1>5, Width DEF Off

LEMMA OffSum ==
  ASSUME NEW m \in Time, NEW n \in Time, NEW c \in Time, NEW k \in Nat, k + 1 < TimeModulus,
         Off(m, n, 1), Off(n, c, k)
  PROVE  Off(m, c, k + 1)
<1>1. m - c \in Int /\ -TimeModulus < m - c /\ m - c < TimeModulus
  BY Width DEF Time
<1>2. QED
  BY <1>1, Width DEF Off, Time

\* A millisecond later there is one less.
LEMMA OneLess ==
  ASSUME NEW n \in Time, NEW m \in Time, Off(m, n, 1), NEW t \in Time, LeftAt(t, n) >= -MaxTimeout + 1
  PROVE  LeftAt(t, m) = LeftAt(t, n) - 1
<1> DEFINE d == LeftAt(t, n)
<1>1. d \in -MaxTimeout + 1..MaxTimeout /\ Off(t, n, d)
  BY LeftAtIs, Width
<1> HIDE DEF d
<1>2. t - m \in Int /\ -TimeModulus < t - m /\ t - m < TimeModulus
  BY Width DEF Time
<1>3. Off(t, m, d - 1)
  BY <1>1, <1>2, Width DEF Off, Time
<1>4. d - 1 \in -MaxTimeout..MaxTimeout
  BY <1>1, Width
<1>5. LeftAt(t, m) = d - 1
  BY <1>3, <1>4, LeftAtIs
<1>6. QED
  BY <1>5 DEF d

\* Of two alarms that are not too far apart the comparison tells which is first.
LEMMA FirstIs ==
  ASSUME NEW n \in Time, NEW t \in Time, NEW u \in Time,
         LeftAt(t, n) - LeftAt(u, n) \in -MaxTimeout..MaxTimeout
  PROVE  LessThan(t, u) <=> LeftAt(t, n) < LeftAt(u, n)
<1> DEFINE a == LeftAt(t, n)
           b == LeftAt(u, n)
<1>1. a \in Int /\ b \in Int /\ Off(t, n, a) /\ Off(u, n, b)
  BY LeftAtIs, Width
<1>2. a - b \in -MaxTimeout..MaxTimeout
  OBVIOUS
<1> HIDE DEF a, b
<1>3. t - u \in Int /\ -TimeModulus < t - u /\ t - u < TimeModulus
  BY Width DEF Time
<1>4. Off(t, u, a - b)
  BY <1>1, <1>2, <1>3, Width DEF Off, Time
<1>5. LessThan(t, u) <=> a - b < 0
  BY <1>2, <1>4, LessThanIs
<1>6. QED
  BY <1>1, <1>5 DEF a, b

-----------------------------------------------------------------------------
(* The list is sorted and nothing in it is overdue by more than the delay *)

\* What an alarm may have left, at least and at most.
Late == IF sleep = 0 THEN -spent ELSE sleep
Within(h, l) == Late - Slack(h) <= l /\ l <= Interval[h]

Sorted(s) == \A i, j \in DOMAIN s : i <= j => LeftAt(s[i].time, now) <= LeftAt(s[j].time, now)
InTime(s) == \A i \in DOMAIN s : Within(s[i].h, LeftAt(s[i].time, now))

TimeInv ==
  /\ Sorted(timeouts) /\ InTime(timeouts)
  /\ sleep <= A
  /\ pc # "fetch" => sleep = 0
  /\ pc \in {"check", "handler"} => \E k \in 0..spent : Off(now, checked, k)
  /\ pc = "handler" =>
       /\ Within(running.h, LeftAt(running.time, now))
       /\ LeftAt(running.time, now) <= 0

LEMMA WithinIs ==
  ASSUME SetInv, sleep <= A, NEW h \in Handler, NEW l \in Int, Within(h, l)
  PROVE  l \in -(MaxDelay + A)..A
<1>1. sleep \in Nat /\ spent \in 0..MaxDelay
  BY Spans DEF SetInv, Forever
<1>2. QED
  BY <1>1, Spans DEF Within, Late

LEMMA InsertSorted ==
  ASSUME SetInv, sleep <= A, Sorted(timeouts), InTime(timeouts),
         NEW r \in Seq(Alarm), NEW t \in Time, NEW h \in Handler, Within(h, LeftAt(t, now)),
         Inserts(r, timeouts, Place(t), [h |-> h, time |-> t])
  PROVE  Sorted(r) /\ InTime(r)
<1> DEFINE n == Len(timeouts)
           p == Place(t)
           l == [i \in 1..n |-> LeftAt(timeouts[i].time, now)]
           e == LeftAt(t, now)
<1>1. /\ timeouts \in Seq(Alarm) /\ n \in Nat /\ DOMAIN timeouts = 1..n /\ now \in Time
      /\ DOMAIN r = 1..n + 1
  BY LenProperties DEF SetInv, ListInv, Inserts
<1>2. ASSUME NEW i \in 1..n
      PROVE  /\ timeouts[i] \in Alarm /\ timeouts[i].time \in Time /\ timeouts[i].h \in Handler
             /\ l[i] \in -(MaxDelay + A)..A /\ Within(timeouts[i].h, l[i])
  <2>1. timeouts[i] \in Alarm
    BY <1>1, ElementOfSeq
  <2>2. timeouts[i].time \in Time /\ timeouts[i].h \in Handler
    BY <2>1 DEF Alarm
  <2>3. LeftAt(timeouts[i].time, now) \in Int
    BY <1>1, <2>2, LeftAtIs
  <2>4. Within(timeouts[i].h, LeftAt(timeouts[i].time, now))
    BY <1>1 DEF InTime
  <2>5. QED
    BY <2>1, <2>2, <2>3, <2>4, WithinIs
<1>3. e \in -(MaxDelay + A)..A
  BY <1>1, LeftAtIs, WithinIs
<1>4. p \in 1..n + 1 /\ \A j \in 1..p - 1 : ~LessThan(t, timeouts[j].time)
  BY <1>1, PlaceIs
<1>5. p <= n => LessThan(t, timeouts[p].time)
  BY <1>1, PlaceIs
<1>6. ASSUME NEW i \in 1..n PROVE LessThan(t, timeouts[i].time) <=> e < l[i]
  <2>1. e - l[i] \in -MaxTimeout..MaxTimeout
    BY <1>2, <1>3, Spans
  <2>2. LeftAt(timeouts[i].time, now) = l[i]
    OBVIOUS
  <2>3. QED
    BY <1>1, <1>2, <2>1, <2>2, FirstIs
<1>7. \A i, j \in 1..n : i <= j => l[i] <= l[j]
  BY <1>1 DEF Sorted
<1>8. ASSUME NEW j \in 1..n + 1
      PROVE  /\ LeftAt(r[j].time, now) = IF j < p THEN l[j] ELSE IF j = p THEN e ELSE l[j - 1]
             /\ Within(r[j].h, LeftAt(r[j].time, now))
  <2>1. r[j] = IF j < p THEN timeouts[j] ELSE IF j = p THEN [h |-> h, time |-> t] ELSE timeouts[j - 1]
    BY DEF Inserts
  <2>2. CASE j < p
    BY <1>2, <1>4, <2>1, <2>2, <1>1
  <2>3. CASE j = p
    BY <2>1, <2>3
  <2>4. CASE j > p
    <3>1. j - 1 \in 1..n /\ r[j] = timeouts[j - 1]
      BY <1>1, <1>4, <2>1, <2>4
    <3>2. LeftAt(r[j].time, now) = l[j - 1] /\ Within(r[j].h, l[j - 1])
      BY <1>2, <3>1
    <3>3. QED
      BY <1>4, <2>4, <3>2
  <2>5. QED
    BY <1>4, <2>2, <2>3, <2>4
<1>9. InTime(r)
  BY <1>1, <1>8 DEF InTime
<1>10. \A i \in 1..n : l[i] \in Int
  BY <1>2, Spans
<1>11. e \in Int
  BY <1>3, Spans
<1> HIDE DEF p, l, e, n
<1>12. \A i \in 1..n : i < p => l[i] <= e
  BY <1>1, <1>4, <1>6, <1>10, <1>11
<1>13. \A i \in 1..n : p <= i => e <= l[i]
  <2>1. TAKE i \in 1..n
  <2>2. SUFFICES ASSUME p <= i PROVE e <= l[i]
    OBVIOUS
  <2>3. p \in 1..n /\ e < l[p]
    BY <1>1, <1>4, <1>5, <1>6, <2>2
  <2>4. l[p] <= l[i]
    BY <1>7, <2>2, <2>3
  <2>5. QED
    BY <1>10, <1>11, <2>3, <2>4
<1>14. ASSUME NEW i \in 1..n + 1, NEW j \in 1..n + 1, i <= j
       PROVE  LeftAt(r[i].time, now) <= LeftAt(r[j].time, now)
  <2> DEFINE m(k) == IF k < p THEN l[k] ELSE IF k = p THEN e ELSE l[k - 1]
  <2>1. p \in Nat /\ n \in Nat
    BY <1>1, <1>4
  <2>2. CASE j < p
    <3>1. i \in 1..n /\ j \in 1..n /\ i < p
      BY <1>4, <1>14, <2>1, <2>2
    <3>2. l[i] <= l[j]
      BY <1>7, <1>14, <3>1
    <3>3. QED
      BY <1>8, <2>2, <3>1, <3>2
  <2>3. CASE i < p /\ p <= j
    <3>1. i \in 1..n /\ l[i] <= e
      BY <1>4, <1>12, <2>1, <2>3
    <3>2. m(j) = e \/ (j - 1 \in 1..n /\ p <= j - 1 /\ m(j) = l[j - 1])
      BY <2>1, <2>3
    <3>3. e <= m(j) /\ m(j) \in Int
      BY <1>10, <1>11, <1>13, <3>2
    <3>4. m(i) = l[i] /\ l[i] \in Int
      BY <1>10, <2>3, <3>1
    <3>5. m(i) <= m(j)
      BY <1>11, <3>1, <3>3, <3>4
    <3>6. QED
      BY <1>8, <3>5
  <2>4. CASE i = p /\ p <= j
    <3>1. m(j) = e \/ (j - 1 \in 1..n /\ p <= j - 1 /\ m(j) = l[j - 1])
      BY <2>1, <2>4
    <3>2. m(i) = e /\ e <= m(j)
      BY <1>11, <1>13, <2>4, <3>1
    <3>3. QED
      BY <1>8, <3>2
  <2>5. CASE p < i
    <3>1. i - 1 \in 1..n /\ j - 1 \in 1..n /\ i - 1 <= j - 1
      BY <1>4, <1>14, <2>1, <2>5
    <3>2. m(i) = l[i - 1] /\ m(j) = l[j - 1]
      BY <1>14, <2>1, <2>5
    <3>3. m(i) <= m(j)
      BY <1>7, <3>1, <3>2
    <3>4. QED
      BY <1>8, <3>3
  <2>6. QED
    BY <1>14, <2>1, <2>2, <2>3, <2>4, <2>5
<1>15. QED
  BY <1>1, <1>9, <1>14 DEF Sorted
LEMMA Loosened ==
  ASSUME SetInv, now' = now, Late' <= Late, Late' \in Int,
         timeouts' \in Seq(Alarm), Sorted(timeouts'), InTime(timeouts')
  PROVE  Sorted(timeouts)' /\ InTime(timeouts)'
<1>1. Sorted(timeouts)'
  BY DEF Sorted
<1>2. Late \in Int
  BY Spans DEF SetInv, Forever, Late
<1>3. ASSUME NEW i \in DOMAIN timeouts'
      PROVE  /\ Late' - Slack(timeouts'[i].h) <= LeftAt(timeouts'[i].time, now)
             /\ LeftAt(timeouts'[i].time, now) <= Interval[timeouts'[i].h]
  <2>1. timeouts'[i] \in Alarm
    BY LenProperties, ElementOfSeq
  <2>2. timeouts'[i].h \in Handler /\ timeouts'[i].time \in Time /\ now \in Time
    BY <2>1 DEF Alarm, SetInv
  <2> DEFINE l == LeftAt(timeouts'[i].time, now)
             h == timeouts'[i].h
  <2>3. l \in Int /\ Slack(h) \in Int /\ h \in Handler
    BY <2>2, LeftAtIs, Spans
  <2>4. Within(h, l)
    BY DEF InTime
  <2> HIDE DEF l, h
  <2>5. Late' - Slack(h) <= l /\ l <= Interval[h]
    BY <1>2, <2>3, <2>4 DEF Within
  <2>6. QED
    BY <2>5 DEF l, h
<1>4. InTime(timeouts)'
  BY <1>3 DEF InTime, Within
<1>5. QED
  BY <1>1, <1>4

\* What a task or a message may do to the list.
LEMMA StackSets ==
  ASSUME SetInv, sleep <= A, pc = "fetch", Opens \/ Closes \/ UNCHANGED <<tcp, list>>
  PROVE  \/ timeouts' = timeouts
         \/ /\ tcp_timer \notin Armed
            /\ \E t \in Time :
                 /\ sys_timeout_abs(t, tcp_timer)
                 /\ LeftAt(t, now) = Interval[tcp_timer]
                 /\ Within(tcp_timer, LeftAt(t, now))
<1>1. CASE Opens /\ ~tcpip_tcp_timer_active
  <2> DEFINE t == After(Interval[tcp_timer])
             d == Interval[tcp_timer]
  <2>1. tcp_timer \notin Armed /\ tcp_timer \in Handler
    BY <1>1, Constants DEF Wanted, SetInv
  <2>2. now \in Time /\ sleep \in Nat /\ spent \in Nat
    BY Spans DEF SetInv, Forever
  <2>3. d \in 1..A /\ A \in Nat /\ A <= MaxTimeout
    BY <2>1, Spans
  <2>4. d \in 0..MaxTimeout /\ d \in -MaxTimeout..MaxTimeout
    BY <2>3, Spans
  <2> HIDE DEF d
  <2>5. After(d) \in Time /\ Off(After(d), now, d)
    BY <2>2, <2>4, AfterIs
  <2>6. LeftAt(After(d), now) = d
    BY <2>2, <2>4, <2>5, LeftAtIs
  <2>7. Within(tcp_timer, d)
    BY <2>2, <2>3 DEF Within, Late, Slack, d
  <2>8. sys_timeout_abs(After(d), tcp_timer)
    BY <1>1 DEF Opens, sys_timeout, d
  <2>9. QED
    BY <2>1, <2>5, <2>6, <2>7, <2>8 DEF d
<1>2. CASE Opens /\ tcpip_tcp_timer_active
  BY <1>2 DEF Opens, list
<1>3. CASE Closes
  BY <1>3 DEF Closes, list
<1>4. CASE UNCHANGED <<tcp, list>>
  BY <1>4 DEF list
<1>5. QED
  BY <1>1, <1>2, <1>3, <1>4

LEMMA StackInTime ==
  ASSUME SetInv, TimeInv, pc = "fetch", Opens \/ Closes \/ UNCHANGED <<tcp, list>>
  PROVE  timeouts' \in Seq(Alarm) /\ Sorted(timeouts') /\ InTime(timeouts')
<1>1. timeouts \in Seq(Alarm) /\ sleep <= A /\ Sorted(timeouts) /\ InTime(timeouts)
  BY DEF SetInv, ListInv, TimeInv
<1>2. CASE timeouts' = timeouts
  BY <1>1, <1>2
<1>3. ASSUME tcp_timer \notin Armed, NEW t \in Time, sys_timeout_abs(t, tcp_timer),
             Within(tcp_timer, LeftAt(t, now))
      PROVE  timeouts' \in Seq(Alarm) /\ Sorted(timeouts') /\ InTime(timeouts')
  <2>1. tcp_timer \in Handler /\ TypeOK /\ Once(timeouts) /\ Len(timeouts) + avail = PoolSize
    BY Constants, SetInvIs DEF SetInv, ListInv
  <2>2. timeouts' \in Seq(Alarm) /\ Inserts(timeouts', timeouts, Place(t), [h |-> tcp_timer, time |-> t])
    BY <1>3, <2>1, Arms
  <2>3. QED
    BY <1>1, <1>3, <2>1, <2>2, InsertSorted
<1>4. QED
  BY <1>1, <1>2, <1>3, StackSets

LEMMA DueAgain ==
  ASSUME NEW n \in Time, NEW y \in Time, NEW l \in -MaxTimeout..0, Off(y, n, l), NEW d \in 0..MaxTimeout
  PROVE  (y + d) % TimeModulus \in Time /\ Off((y + d) % TimeModulus, n, l + d)
<1> DEFINE x == y + d
<1>1. x \in Int /\ -TimeModulus <= x /\ x < 2 * TimeModulus /\ 0 <= x /\ x = y + d
  BY Width DEF Time
<1> HIDE DEF x
<1>2. x % TimeModulus = IF x < TimeModulus THEN x ELSE x - TimeModulus
  BY <1>1, Modulo
<1> DEFINE r == x % TimeModulus
<1>3. r = IF x < TimeModulus THEN x ELSE x - TimeModulus
  BY <1>2
<1> HIDE DEF r
<1>4. r \in Time
  BY <1>1, <1>3, Width DEF Time
<1>5. Off(r, n, l + d)
  BY <1>1, <1>3, <1>4, Width DEF Off, Time
<1>6. r = (y + d) % TimeModulus
  BY DEF r, x
<1>7. QED
  BY <1>4, <1>5, <1>6, Zenon

\* What a handler may do to the list.
LEMMA HandlerSetsAlarm ==
  ASSUME SetInv, TimeInv, HandlerEnds
  PROVE  \/ timeouts' = timeouts
         \/ \E t \in Time :
              /\ sys_timeout_abs(t, running.h)
              /\ LeftAt(t, now) \in 0..Interval[running.h]
<1> DEFINE h == running.h
           d == Interval[h]
           l == LeftAt(running.time, now)
<1>1. pc = "handler" /\ now \in Time /\ h \in Handler /\ running.time \in Time
  BY DEF HandlerEnds, SetInv, Alarm
<1>2. d \in 1..A /\ A \in Nat /\ A <= MaxTimeout
  BY <1>1, Spans
<1>3. d \in 0..MaxTimeout /\ d \in -MaxTimeout..MaxTimeout
  BY <1>2, Spans
<1>4. l \in -(MaxDelay + A)..A /\ l <= 0 /\ Off(running.time, now, l)
  <2>1. LeftAt(running.time, now) \in Int /\ Off(running.time, now, l)
    BY <1>1, LeftAtIs
  <2>2. Within(h, l) /\ l <= 0 /\ sleep <= A
    BY <1>1 DEF TimeInv
  <2>3. QED
    BY <1>1, <2>1, <2>2, WithinIs
<1> HIDE DEF d, l
<1>5. After(d) \in Time /\ Off(After(d), now, d)
  BY <1>1, <1>3, AfterIs
<1>6. LeftAt(After(d), now) = d
  BY <1>1, <1>3, <1>5, LeftAtIs
<1>7. LeftAt(After(d), now) \in 0..d
  BY <1>2, <1>6
<1>8. CASE CyclicTimer
  <2> DEFINE next == (running.time + d) % TimeModulus
  <2>1. sys_timeout_abs(IF LessThan(next, now) THEN After(d) ELSE next, h)
    BY <1>8 DEF CyclicTimer, d
  <2>2. l \in -MaxTimeout..0
    BY <1>4, Spans
  <2>4. next \in Time
    BY <1>1, <1>3, <1>4, <2>2, DueAgain
  <2>5. l + d \in -MaxTimeout..MaxTimeout
    BY <1>2, <1>4, Spans
  <2>7. Off(next, now, l + d)
    BY <1>1, <1>3, <1>4, <2>2, DueAgain
  <2> HIDE DEF next
  <2>8. LessThan(next, now) <=> l + d < 0
    BY <1>1, <2>4, <2>5, <2>7, LessThanIs
  <2>9. LeftAt(next, now) = l + d
    BY <1>1, <2>4, <2>5, <2>7, LeftAtIs
  <2>10. CASE LessThan(next, now)
    BY <1>5, <1>7, <2>1, <2>10 DEF d
  <2>11. CASE ~LessThan(next, now)
    <3>1. LeftAt(next, now) \in 0..d
      BY <1>2, <1>4, <2>5, <2>8, <2>9, <2>11, Spans
    <3>2. QED
      BY <2>1, <2>4, <2>11, <3>1 DEF d
  <2>12. QED
    BY <2>10, <2>11
<1>9. CASE ArpTimer
  BY <1>5, <1>7, <1>9 DEF ArpTimer, sys_timeout, d
<1>10. CASE TcpTimer
  BY <1>5, <1>7, <1>10 DEF TcpTimer, sys_timeout, list, d
<1>11. QED
  BY <1>8, <1>9, <1>10 DEF HandlerEnds

LEMMA HandlerInTime ==
  ASSUME SetInv, TimeInv, HandlerEnds
  PROVE  timeouts' \in Seq(Alarm) /\ Sorted(timeouts') /\ InTime(timeouts')
<1>1. timeouts \in Seq(Alarm) /\ sleep <= A /\ Sorted(timeouts) /\ InTime(timeouts)
  BY DEF SetInv, ListInv, TimeInv
<1>2. /\ running.h \in Handler /\ running.h \notin Armed /\ sleep = 0 /\ spent \in Nat /\ now \in Time
  BY Spans DEF HandlerEnds, SetInv, Alarm, TimeInv
<1>3. CASE timeouts' = timeouts
  BY <1>1, <1>3
<1>4. ASSUME NEW t \in Time, sys_timeout_abs(t, running.h), LeftAt(t, now) \in 0..Interval[running.h]
      PROVE  timeouts' \in Seq(Alarm) /\ Sorted(timeouts') /\ InTime(timeouts')
  <2>1. TypeOK /\ Once(timeouts) /\ Len(timeouts) + avail = PoolSize
    BY SetInvIs DEF SetInv, ListInv
  <2> DEFINE h == running.h
  <2>2. h \in Handler /\ h \notin Armed /\ sys_timeout_abs(t, h) /\ LeftAt(t, now) \in 0..Interval[h]
    BY <1>2, <1>4
  <2> HIDE DEF h
  <2>3. Slack(h) \in Nat /\ Interval[h] \in Nat
    BY <2>2, Spans
  <2>4. Within(h, LeftAt(t, now))
    BY <1>2, <2>2, <2>3 DEF Within, Late
  <2>5. timeouts' \in Seq(Alarm) /\ Inserts(timeouts', timeouts, Place(t), [h |-> h, time |-> t])
    BY <2>1, <2>2, Arms
  <2>6. QED
    BY <1>1, <2>2, <2>4, <2>5, InsertSorted
<1>5. QED
  BY <1>3, <1>4, HandlerSetsAlarm
LEMMA InitLeft ==
  ASSUME Init
  PROVE  \A i \in DOMAIN timeouts :
           /\ timeouts[i].h = InitialOrder[i] /\ InitialOrder[i] \in Periodic
           /\ LeftAt(timeouts[i].time, now) = Interval[InitialOrder[i]]
<1>1. /\ DOMAIN timeouts = DOMAIN InitialOrder /\ now = 0 /\ sleep = 0 /\ spent = 0 /\ pc = "loop"
      /\ \A i \in DOMAIN timeouts : timeouts[i].h = InitialOrder[i] /\ timeouts[i].time = Interval[InitialOrder[i]]
  BY DEF Init
<1>2. \A i \in DOMAIN timeouts : InitialOrder[i] \in Periodic
  <2>1. InitialOrder \in Seq(Periodic)
    BY TimeoutsAssumption, AppendProperties DEF InitialOrder, Periodic
  <2>2. QED
    BY <1>1, <2>1
<1>3. ASSUME NEW h \in Periodic PROVE LeftAt(Interval[h], now) = Interval[h]
  <2> DEFINE d == Interval[h]
  <2>1. d \in 1..A
    BY Spans, Constants
  <2> HIDE DEF d
  <2>2. 0 \in Time /\ d \in Time /\ d \in -MaxTimeout..MaxTimeout /\ Off(d, 0, d)
    BY <2>1, Spans, Width DEF Time, Off
  <2>3. LeftAt(d, 0) = d
    BY <2>2, LeftAtIs
  <2>4. QED
    BY <1>1, <2>3 DEF d
<1>4. QED
  BY <1>1, <1>2, <1>3

LEMMA InitInTime == Init => TimeInv
<1> SUFFICES ASSUME Init PROVE TimeInv
  OBVIOUS
<1>1. /\ DOMAIN timeouts = DOMAIN InitialOrder /\ now = 0 /\ sleep = 0 /\ spent = 0 /\ pc = "loop"
  BY DEF Init
<1>2. \A i \in DOMAIN timeouts :
        /\ timeouts[i].h = InitialOrder[i] /\ InitialOrder[i] \in Periodic
        /\ LeftAt(timeouts[i].time, now) = Interval[InitialOrder[i]]
  BY InitLeft
<1>3. Sorted(timeouts)
  BY <1>1, <1>2, TimeoutsAssumption DEF Sorted
<1>4. InTime(timeouts)
  <2>1. ASSUME NEW i \in DOMAIN timeouts PROVE Within(timeouts[i].h, LeftAt(timeouts[i].time, now))
    <3>1. InitialOrder[i] \in Periodic /\ Interval[InitialOrder[i]] \in Nat /\ Slack(InitialOrder[i]) = 0
      BY <1>2, Spans, Constants
    <3>2. QED
      BY <1>1, <1>2, <3>1 DEF Within, Late
  <2>2. QED
    BY <2>1 DEF InTime
<1>5. QED
  BY <1>1, <1>3, <1>4, Spans DEF TimeInv

LEMMA ListIs ==
  ASSUME SetInv, TimeInv
  PROVE  /\ timeouts \in Seq(Alarm) /\ DOMAIN timeouts = 1..Len(timeouts) /\ Len(timeouts) \in Nat
         /\ now \in Time /\ sleep \in 0..A /\ spent \in 0..MaxDelay /\ Late \in Int
         /\ \A i \in DOMAIN timeouts :
              /\ timeouts[i] \in Alarm /\ timeouts[i].h \in Handler /\ timeouts[i].time \in Time
              /\ Within(timeouts[i].h, LeftAt(timeouts[i].time, now))
              /\ LeftAt(timeouts[i].time, now) \in -(MaxDelay + A)..A
<1>1. /\ timeouts \in Seq(Alarm) /\ DOMAIN timeouts = 1..Len(timeouts) /\ Len(timeouts) \in Nat
      /\ now \in Time /\ sleep \in 0..A /\ spent \in 0..MaxDelay
  BY LenProperties, Spans DEF SetInv, ListInv, TimeInv, Forever
<1>2. Late \in Int
  BY <1>1, Spans DEF Late
<1>3. ASSUME NEW i \in DOMAIN timeouts
      PROVE  /\ timeouts[i] \in Alarm /\ timeouts[i].h \in Handler /\ timeouts[i].time \in Time
             /\ Within(timeouts[i].h, LeftAt(timeouts[i].time, now))
             /\ LeftAt(timeouts[i].time, now) \in -(MaxDelay + A)..A
  <2>1. timeouts[i] \in Alarm
    BY <1>1, ElementOfSeq
  <2>2. timeouts[i].h \in Handler /\ timeouts[i].time \in Time
    BY <2>1 DEF Alarm
  <2>3. Within(timeouts[i].h, LeftAt(timeouts[i].time, now))
    BY DEF TimeInv, InTime
  <2>4. LeftAt(timeouts[i].time, now) \in Int
    BY <1>1, <2>2, LeftAtIs
  <2>5. sleep <= A
    BY DEF TimeInv
  <2>6. QED
    BY <2>1, <2>2, <2>3, <2>4, <2>5, WithinIs
<1>4. QED
  BY <1>1, <1>2, <1>3

\* One millisecond for one alarm.
LEMMA TickWithin ==
  ASSUME SetInv, TimeInv, Tick, NEW h \in Handler, NEW t \in Time, Within(h, LeftAt(t, now))
  PROVE  /\ LeftAt(t, now') = LeftAt(t, now) - 1
         /\ Late' - Slack(h) <= LeftAt(t, now')
         /\ LeftAt(t, now') <= Interval[h]
<1>1. now \in Time /\ sleep \in 0..A /\ spent \in 0..MaxDelay /\ Late \in Int
  BY ListIs
<1>2. now' \in Time /\ Off(now', now, 1)
  <2>1. 1 \in 0..MaxTimeout
    BY Constants
  <2>2. QED
    BY <1>1, <2>1, AfterIs DEF Tick
<1> DEFINE l == LeftAt(t, now)
<1>3. l \in -(MaxDelay + A)..A /\ A >= 1
  BY <1>1, LeftAtIs, WithinIs, Spans
<1>4. LeftAt(t, now') = l - 1
  BY <1>1, <1>2, <1>3, OneLess, Spans
<1>5. Late' \in Int /\ Late' <= Late - 1
  <2>1. CASE sleep = 0
    <3>1. sleep' = 0 /\ spent' = spent + 1
      BY <2>1, Spans DEF Tick, Ready
    <3>2. QED
      BY <1>1, <2>1, <3>1, Spans DEF Late
  <2>2. CASE sleep > 0
    <3>1. pc = "fetch" /\ sleep \in 1..MaxTimeout
      BY <1>1, <2>2, Spans DEF TimeInv
    <3>2. sleep' = sleep - 1 /\ spent' \in Nat
      BY <1>1, <3>1, Spans DEF Tick
    <3>3. Late = sleep /\ Late' = IF sleep' = 0 THEN -spent' ELSE sleep'
      BY <2>2 DEF Late
    <3>4. sleep \in Nat
      BY <1>1, Spans
    <3>5. \A a, c \in Nat : \A b, old, new :
            a > 0 /\ b = a - 1 /\ old = a /\ (new = IF b = 0 THEN -c ELSE b) => new \in Int /\ new <= old - 1
      OBVIOUS
    <3>6. QED
      BY <2>2, <3>2, <3>3, <3>4, <3>5
  <2>3. QED
    BY <1>1, <2>1, <2>2, Spans
<1>6. Late - Slack(h) <= l /\ l <= Interval[h] /\ Slack(h) \in Int /\ Interval[h] \in Int
  BY Spans DEF Within
<1> HIDE DEF l
<1>7. Late' - Slack(h) <= l - 1 /\ l - 1 <= Interval[h]
  BY <1>1, <1>3, <1>5, <1>6, Spans
<1>8. QED
  BY <1>4, <1>7 DEF l

LEMMA Soonest ==
  ASSUME SetInv, TimeInv, timeouts # << >>
  PROVE  /\ 1 \in DOMAIN timeouts
         /\ \A i \in DOMAIN timeouts : LeftAt(timeouts[1].time, now) <= LeftAt(timeouts[i].time, now)
<1>1. 1 \in DOMAIN timeouts
  <2>1. Once(timeouts) /\ timeouts \in Seq(Alarm)
    BY DEF SetInv, ListInv
  <2>2. Len(timeouts) \in Nat /\ Len(timeouts) >= 1
    BY <2>1, Removed
  <2>3. QED
    BY <2>2, ListIs
<1>2. QED
  BY <1>1, ListIs DEF TimeInv, Sorted

LEMMA NeverEmpty == ASSUME SetInv, pc # "handler" PROVE timeouts # << >>
<1>1. arp_timer \in Armed
  BY Constants DEF SetInv, Wanted
<1>2. QED
  BY <1>1 DEF Armed

\* The wait lasts as long as the first alarm has left.
LEMMA WaitsForHead ==
  ASSUME SetInv, TimeInv, timeouts # << >>, ~LessThan(timeouts[1].time, now)
  PROVE  (timeouts[1].time - now) % TimeModulus = LeftAt(timeouts[1].time, now)
  BY DEF LeftAt

\* An alarm that the check takes off the list is due.
LEMMA DueIs ==
  ASSUME SetInv, TimeInv, pc = "check", NEW t \in Time, LeftAt(t, now) \in -(MaxDelay + A)..A,
         ~LessThan(checked, t)
  PROVE  LeftAt(t, now) <= 0
<1> DEFINE l == LeftAt(t, now)
<1>1. now \in Time /\ checked \in Time /\ spent \in 0..MaxDelay
  BY ListIs DEF SetInv
<1>2. PICK k \in 0..spent : Off(now, checked, k)
  BY DEF TimeInv
<1>3. l \in -(MaxDelay + A)..A /\ Off(t, now, l)
  BY <1>1, LeftAtIs
<1> HIDE DEF l
<1>4. checked - t \in Int /\ -TimeModulus < checked - t /\ checked - t < TimeModulus
  BY <1>1, Width DEF Time
<1>5. -(l + k) \in -MaxTimeout..MaxTimeout
  BY <1>1, <1>2, <1>3, Spans
<1>6. Off(checked, t, -(l + k))
  BY <1>1, <1>2, <1>3, <1>4, <1>5, Width DEF Off, Time
<1>7. ~(-(l + k) < 0)
  BY <1>1, <1>5, <1>6, LessThanIs
<1>8. QED
  BY <1>1, <1>2, <1>3, <1>7, Spans DEF l
LEMMA StepInTime == SetInv /\ TimeInv /\ [Next]_vars => TimeInv'
<1> SUFFICES ASSUME SetInv, TimeInv, [Next]_vars PROVE TimeInv'
  OBVIOUS
<1>1. /\ timeouts \in Seq(Alarm) /\ now \in Time /\ sleep \in 0..A /\ spent \in 0..MaxDelay /\ Late \in Int
      /\ pc \in {"loop", "fetch", "check", "handler"}
      /\ Sorted(timeouts) /\ InTime(timeouts) /\ sleep <= A
      /\ pc # "fetch" => sleep = 0
  BY ListIs DEF TimeInv, SetInv
<1>2. ASSUME UNCHANGED <<timeouts, now, sleep, spent>>
      PROVE  Sorted(timeouts)' /\ InTime(timeouts)'
  BY <1>1, <1>2 DEF Sorted, InTime, Within, Late
<1>3. ASSUME Check, UNCHANGED <<timeouts, now>>, sleep = 0 PROVE TimeInv'
  <2>1. 0 \in 0..spent' /\ Off(now', checked', 0)
    BY <1>1, <1>3 DEF Check, Off, Time
  <2>2. QED
    BY <1>1, <1>2, <1>3, <2>1 DEF Check, TimeInv
<1>4. ASSUME timeouts' \in Seq(Alarm), Sorted(timeouts'), InTime(timeouts'), now' = now, spent' = spent,
             sleep' = sleep \/ sleep' = 0
      PROVE  Sorted(timeouts)' /\ InTime(timeouts)'
  <2>1. Late' <= Late /\ Late' \in Int
    <3>1. sleep \in Nat /\ spent \in Nat
      BY <1>1, Spans
    <3>2. CASE sleep' = sleep
      BY <1>1, <1>4, <3>2 DEF Late
    <3>3. CASE sleep' = 0 /\ sleep > 0
      BY <1>4, <3>1, <3>3 DEF Late
    <3>4. QED
      BY <1>4, <3>1, <3>2, <3>3
  <2>2. QED
    BY <1>4, <2>1, Loosened
<1>5. CASE Loop
  <2>1. timeouts # << >> /\ UNCHANGED <<timeouts, now>> /\ sleep = 0 /\ pc = "loop"
    BY <1>1, <1>5, NeverEmpty DEF Loop, list
  <2> DEFINE t == timeouts[1].time
  <2>2. CASE t = now \/ LessThan(t, now)
    BY <1>3, <1>5, <2>1, <2>2 DEF Loop
  <2>3. CASE ~(t = now \/ LessThan(t, now))
    <3> DEFINE d == LeftAt(t, now)
    <3>1. (t - now) % TimeModulus = d
      BY <2>1, <2>3, WaitsForHead
    <3>2. Wait(d)
      BY <1>5, <2>1, <2>3, <3>1 DEF Loop
    <3>3. 1 \in DOMAIN timeouts /\ d \in -(MaxDelay + A)..A
      BY <2>1, Soonest, ListIs
    <3>4. t - now \in Int
      BY <1>1, <3>3, ListIs DEF Time
    <3>5. d >= 0
      <4>1. \A x \in Int : x % TimeModulus >= 0
        BY Width
      <4>2. QED
        BY <3>1, <3>4, <4>1
    <3>6. ASSUME NEW i \in DOMAIN timeouts
          PROVE  /\ d - Slack(timeouts[i].h) <= LeftAt(timeouts[i].time, now)
                 /\ LeftAt(timeouts[i].time, now) <= Interval[timeouts[i].h]
      <4>1. d <= LeftAt(timeouts[i].time, now) /\ timeouts[i].h \in Handler
        BY <2>1, Soonest, ListIs
      <4>2. Slack(timeouts[i].h) \in Nat /\ LeftAt(timeouts[i].time, now) \in Int /\ d \in Int
        BY <3>3, <4>1, ListIs, Spans
      <4>3. LeftAt(timeouts[i].time, now) <= Interval[timeouts[i].h]
        BY ListIs DEF Within
      <4>4. QED
        BY <4>1, <4>2, <4>3
    <3> HIDE DEF d, t
    <3>7. Late' = d /\ sleep' = d /\ d <= A /\ pc' = "fetch"
      BY <3>2, <3>3, <3>5, Spans DEF Wait, Late
    <3>8. InTime(timeouts)'
      BY <2>1, <3>6, <3>7 DEF InTime, Within
    <3>9. Sorted(timeouts)'
      BY <1>1, <2>1 DEF Sorted
    <3>10. QED
      BY <3>7, <3>8, <3>9, Spans DEF TimeInv
  <2>4. QED
    BY <2>2, <2>3
<1>6. CASE HandleMessage
  <2>1. timeouts' \in Seq(Alarm) /\ Sorted(timeouts') /\ InTime(timeouts')
    BY <1>6, StackInTime DEF HandleMessage
  <2>2. QED
    BY <1>1, <1>4, <1>6, <2>1, Spans DEF HandleMessage, TimeInv
<1>7. CASE FetchTimesOut
  BY <1>3, <1>7 DEF FetchTimesOut, list
<1>8. CASE Expire
  <2>1. /\ pc = "check" /\ timeouts # << >> /\ ~LessThan(checked, timeouts[1].time)
        /\ running' = timeouts[1] /\ timeouts' = Tail(timeouts) /\ pc' = "handler"
        /\ UNCHANGED <<now, checked, sleep, spent>>
    BY <1>8 DEF Expire
  <2>2. 1 \in DOMAIN timeouts
    BY <2>1, Soonest
  <2> DEFINE a == timeouts[1]
             r == Tail(timeouts)
  <2>3. /\ a \in Alarm /\ a.time \in Time /\ Within(a.h, LeftAt(a.time, now))
        /\ LeftAt(a.time, now) \in -(MaxDelay + A)..A
    BY <2>2, ListIs
  <2>4. LeftAt(a.time, now) <= 0
    BY <2>1, <2>3, DueIs
  <2>5. /\ Len(timeouts) \in Nat /\ r \in Seq(Alarm) /\ DOMAIN r = 1..Len(timeouts) - 1
        /\ \A j \in 1..Len(timeouts) - 1 : r[j] = timeouts[j + 1] /\ j + 1 \in DOMAIN timeouts
    <3>1. Once(timeouts)
      BY DEF SetInv, ListInv
    <3>2. /\ Len(timeouts) \in Nat /\ r \in Seq(Alarm) /\ Len(r) = Len(timeouts) - 1
          /\ \A j \in 1..Len(timeouts) - 1 : r[j] = timeouts[j + 1]
      BY <1>1, <2>1, <3>1, Removed
    <3> HIDE DEF r
    <3>3. DOMAIN timeouts = 1..Len(timeouts)
      BY ListIs
    <3>4. QED
      BY <3>2, <3>3, LenProperties
  <2> HIDE DEF r
  <2>6. Sorted(r)
    <3>1. ASSUME NEW i \in DOMAIN r, NEW j \in DOMAIN r, i <= j
          PROVE  LeftAt(r[i].time, now) <= LeftAt(r[j].time, now)
      <4>1. i + 1 \in DOMAIN timeouts /\ j + 1 \in DOMAIN timeouts /\ i + 1 <= j + 1
        BY <2>5, <3>1
      <4>2. LeftAt(timeouts[i + 1].time, now) <= LeftAt(timeouts[j + 1].time, now)
        BY <1>1, <4>1 DEF Sorted
      <4>3. QED
        BY <2>5, <4>2
    <3>2. QED
      BY <3>1 DEF Sorted
  <2>7. InTime(r)
    <3>1. ASSUME NEW i \in DOMAIN r PROVE Within(r[i].h, LeftAt(r[i].time, now))
      <4>1. i + 1 \in DOMAIN timeouts /\ r[i] = timeouts[i + 1]
        BY <2>5
      <4>2. QED
        BY <1>1, <4>1 DEF InTime
    <3>2. QED
      BY <3>1 DEF InTime
  <2>8. timeouts' \in Seq(Alarm) /\ Sorted(timeouts') /\ InTime(timeouts')
    BY <2>1, <2>5, <2>6, <2>7 DEF r
  <2>9. Sorted(timeouts)' /\ InTime(timeouts)'
    BY <1>4, <2>1, <2>8
  <2>10. Within(running.h, LeftAt(running.time, now))' /\ (LeftAt(running.time, now) <= 0)'
    <3>1. Late' = Late /\ now' = now /\ running' = a
      BY <2>1 DEF Late
    <3>2. QED
      BY <2>3, <2>4, <3>1 DEF Within
  <2>11. \E k \in 0..spent' : Off(now', checked', k)
    BY <2>1 DEF TimeInv
  <2>12. QED
    BY <1>1, <2>1, <2>9, <2>10, <2>11 DEF TimeInv
<1>9. CASE CheckDone
  BY <1>1, <1>2, <1>9 DEF CheckDone, TimeInv, list
<1>10. CASE HandlerEnds
  <2>1. timeouts' \in Seq(Alarm) /\ Sorted(timeouts') /\ InTime(timeouts')
    BY <1>10, HandlerInTime
  <2>2. Sorted(timeouts)' /\ InTime(timeouts)'
    BY <1>4, <1>10, <2>1 DEF HandlerEnds
  <2>3. \E k \in 0..spent' : Off(now', checked', k)
    BY <1>10 DEF HandlerEnds, TimeInv
  <2>4. QED
    BY <1>1, <1>10, <2>2, <2>3 DEF HandlerEnds, TimeInv
<1>11. CASE SocketCall
  <2>1. timeouts' \in Seq(Alarm) /\ Sorted(timeouts') /\ InTime(timeouts')
    BY <1>11, StackInTime DEF SocketCall
  <2>2. Sorted(timeouts)' /\ InTime(timeouts)'
    BY <1>4, <1>11, <2>1 DEF SocketCall
  <2>3. QED
    BY <1>1, <1>11, <2>2 DEF SocketCall, TimeInv
<1>12. CASE Post
  BY <1>1, <1>2, <1>12 DEF Post, TimeInv, list, thread, Within, Late
<1>13. CASE Tick
  <2>1. UNCHANGED <<timeouts, checked, running, pc>>
    BY <1>13 DEF Tick, list, thread
  <2>2. ASSUME NEW i \in DOMAIN timeouts
        PROVE  /\ LeftAt(timeouts[i].time, now') = LeftAt(timeouts[i].time, now) - 1
               /\ LeftAt(timeouts[i].time, now) \in Int
               /\ Late' - Slack(timeouts[i].h) <= LeftAt(timeouts[i].time, now')
               /\ LeftAt(timeouts[i].time, now') <= Interval[timeouts[i].h]
    BY <1>13, TickWithin, ListIs, Spans
  <2>3. Sorted(timeouts)'
    BY <1>1, <2>1, <2>2 DEF Sorted
  <2>4. InTime(timeouts)'
    BY <2>1, <2>2 DEF InTime, Within
  <2>5. sleep' <= A /\ (pc # "fetch" => sleep' = 0)
    BY <1>1, <1>13, Spans DEF Tick
  <2>6. ASSUME pc \in {"check", "handler"} PROVE \E k \in 0..spent' : Off(now', checked', k)
    <3>1. PICK k \in 0..spent : Off(now, checked, k)
      BY <2>6 DEF TimeInv
    <3>2. spent' = spent + 1 /\ spent < MaxDelay
      BY <1>13, <2>6 DEF Tick, Ready
    <3>3. Off(now', now, 1) /\ now' \in Time
      <4>1. 1 \in 0..MaxTimeout
        BY Constants
      <4>2. QED
        BY <1>1, <1>13, <4>1, AfterIs DEF Tick
    <3>4. checked \in Time
      BY DEF SetInv
    <3>5. k + 1 <= MaxDelay /\ MaxDelay < TimeModulus
      BY <1>1, <3>2, Spans, Width
    <3>6. k + 1 \in 0..spent'
      BY <1>1, <3>1, <3>2
    <3>7. k \in Nat /\ k + 1 < TimeModulus
      BY <1>1, <3>1, <3>2, <3>5, Spans, Width
    <3>8. Off(now', checked, k + 1)
      BY <1>1, <3>1, <3>3, <3>4, <3>7, OffSum
    <3>9. QED
      BY <2>1, <3>6, <3>8
  <2>7. ASSUME pc = "handler"
        PROVE  Within(running.h, LeftAt(running.time, now))' /\ (LeftAt(running.time, now) <= 0)'
    <3> DEFINE h == running.h
               t == running.time
    <3>1. h \in Handler /\ t \in Time
      BY <2>7 DEF SetInv, Alarm
    <3>2. Within(h, LeftAt(t, now)) /\ LeftAt(t, now) <= 0
      BY <2>7 DEF TimeInv
    <3>3. LeftAt(t, now) \in Int
      BY <1>1, <3>1, LeftAtIs
    <3>4. /\ LeftAt(t, now') = LeftAt(t, now) - 1
          /\ Late' - Slack(h) <= LeftAt(t, now') /\ LeftAt(t, now') <= Interval[h]
      BY <1>13, <3>1, <3>2, TickWithin
    <3>5. LeftAt(t, now') <= 0
      BY <3>2, <3>3, <3>4
    <3>6. QED
      BY <2>1, <3>4, <3>5 DEF Within
  <2>8. QED
    BY <2>1, <2>3, <2>4, <2>5, <2>6, <2>7 DEF TimeInv
<1>14. CASE UNCHANGED vars
  BY <1>1, <1>2, <1>14 DEF vars, TimeInv, list, thread, Within, Late
<1>15. QED
  BY <1>5, <1>6, <1>7, <1>8, <1>9, <1>10, <1>11, <1>12, <1>13, <1>14 DEF Next, Thread
-----------------------------------------------------------------------------
(* To those who set alarms *)

LeftOf(s, n) == [h \in Names(s) |-> LeftAt(s[CHOOSE i \in DOMAIN s : s[i].h = h].time, n)]

LEMMA Left0Is == Left0 = LeftOf(timeouts, now)
  BY DEF Left0, LeftOf, Names, Armed, Left, LeftAt

LEMMA LeftOfIs ==
  ASSUME NEW s, NEW n, Once(s)
  PROVE  /\ DOMAIN LeftOf(s, n) = Names(s)
         /\ \A i \in DOMAIN s : s[i].h \in Names(s) /\ LeftOf(s, n)[s[i].h] = LeftAt(s[i].time, n)
<1>1. ASSUME NEW i \in DOMAIN s PROVE (CHOOSE j \in DOMAIN s : s[j].h = s[i].h) = i
  BY DEF Once
<1>2. QED
  BY <1>1 DEF LeftOf, Names

\* Such a function is known by what it says of each element of the list.
Says(f, s, n) ==
  /\ DOMAIN f = Names(s) /\ f = [h \in DOMAIN f |-> f[h]]
  /\ \A i \in DOMAIN s : f[s[i].h] = LeftAt(s[i].time, n)

LEMMA LeftOfUnique ==
  ASSUME NEW s, NEW n, Once(s), NEW f, Says(f, s, n)
  PROVE  LeftOf(s, n) = f
<1>1. ASSUME NEW h \in Names(s) PROVE LeftOf(s, n)[h] = f[h]
  <2>1. PICK i \in DOMAIN s : s[i].h = h
    BY DEF Names
  <2>2. f[s[i].h] = LeftAt(s[i].time, n)
    BY DEF Says
  <2>3. LeftOf(s, n)[s[i].h] = LeftAt(s[i].time, n)
    BY LeftOfIs
  <2>4. QED
    BY <2>1, <2>2, <2>3
<1>2. LeftOf(s, n) = [h \in Names(s) |-> LeftOf(s, n)[h]]
  BY DEF LeftOf
<1>3. f = [h \in Names(s) |-> f[h]]
  BY DEF Says
<1>4. QED
  BY <1>1, <1>2, <1>3, Zenon

LEMMA SetIsSet ==
  ASSUME SetInv, TimeInv, now' = now, NEW h \in Handler, h \notin Armed,
         NEW t \in Time, sys_timeout_abs(t, h), LeftAt(t, now) \in 0..Interval[h]
  PROVE  Abstract!Set
<1> DEFINE e == [h |-> h, time |-> t]
           f == LeftOf(timeouts, now)
           g == [k \in DOMAIN f \cup {h} |-> IF k = h THEN LeftAt(t, now) ELSE f[k]]
<1>1. TypeOK /\ Once(timeouts) /\ Len(timeouts) + avail = PoolSize
  BY SetInvIs DEF SetInv, ListInv
<1>2. /\ timeouts' \in Seq(Alarm) /\ Inserts(timeouts', timeouts, Place(t), e)
      /\ Place(t) \in 1..Len(timeouts) + 1 /\ Once(timeouts)' /\ Armed' = Armed \cup {h}
  BY <1>1, Arms
<1>3. Armed = Names(timeouts) /\ DOMAIN f = Names(timeouts) /\ Once(timeouts')
      /\ Names(timeouts') = Names(timeouts) \cup {h}
  BY <1>1, <1>2, LeftOfIs DEF Armed, Names, Once
<1>4. \A i \in DOMAIN timeouts : timeouts[i].h \in Names(timeouts) /\ f[timeouts[i].h] = LeftAt(timeouts[i].time, now)
  BY <1>1, LeftOfIs
<1>5. h \notin Names(timeouts)
  BY <1>3
<1>6. DOMAIN timeouts = 1..Len(timeouts) /\ Len(timeouts) \in Nat /\ DOMAIN timeouts' = 1..Len(timeouts) + 1
  BY <1>2, ListIs, LenProperties DEF Inserts
<1> DEFINE p == Place(t)
<1>7. p \in 1..Len(timeouts) + 1
  BY <1>2
<1> HIDE DEF f, p
<1>8. ASSUME NEW j \in DOMAIN timeouts' PROVE g[timeouts'[j].h] = LeftAt(timeouts'[j].time, now)
  <2>1. timeouts'[j] = IF j < p THEN timeouts[j] ELSE IF j = p THEN e ELSE timeouts[j - 1]
    BY <1>2, <1>6 DEF Inserts, p
  <2>2. CASE j = p
    BY <1>7, <2>1, <2>2
  <2>3. CASE j # p
    <3>1. PICK i \in DOMAIN timeouts : timeouts'[j] = timeouts[i]
      <4>1. CASE j < p
        BY <1>6, <1>7, <2>1, <4>1
      <4>2. CASE j > p
        BY <1>6, <1>7, <2>1, <4>2
      <4>3. QED
        BY <1>6, <1>7, <2>3, <4>1, <4>2
    <3>2. timeouts[i].h \in DOMAIN f /\ timeouts[i].h # h
      BY <1>3, <1>4, <1>5
    <3>3. g[timeouts[i].h] = f[timeouts[i].h]
      BY <3>2
    <3>4. QED
      BY <1>4, <3>1, <3>3
  <2>4. QED
    BY <2>2, <2>3
<1>9. DOMAIN g = Names(timeouts') /\ g = [k \in DOMAIN g |-> g[k]]
  BY <1>3
<1> HIDE DEF g
<1>10. LeftOf(timeouts', now) = g
  <2>1. Says(g, timeouts', now)
    BY <1>8, <1>9 DEF Says
  <2>2. QED
    BY <1>3, <2>1, LeftOfUnique
<1>11. Left0 = f /\ Left0' = g
  BY <1>10, Left0Is DEF f, Left0, LeftOf, Names, Armed, Left, LeftAt
<1>12. h \in Handler \ DOMAIN f
  BY <1>3, <1>5
<1>13. QED
  BY <1>11, <1>12 DEF Abstract!Set, g

LEMMA SoundsFirst ==
  ASSUME SetInv, TimeInv, Expire
  PROVE  Abstract!Sound
<1> DEFINE a == timeouts[1]
           r == Tail(timeouts)
           f == LeftOf(timeouts, now)
           g == [k \in DOMAIN f \ {a.h} |-> f[k]]
<1>1. /\ pc = "check" /\ timeouts # << >> /\ ~LessThan(checked, timeouts[1].time)
      /\ timeouts' = r /\ now' = now
  BY DEF Expire
<1>2. 1 \in DOMAIN timeouts /\ \A i \in DOMAIN timeouts : LeftAt(a.time, now) <= LeftAt(timeouts[i].time, now)
  BY <1>1, Soonest
<1>3. LeftAt(a.time, now) <= 0
  BY <1>1, <1>2, ListIs, DueIs
<1>4. Once(timeouts) /\ timeouts \in Seq(Alarm)
  BY DEF SetInv, ListInv
<1>5. /\ Len(timeouts) \in Nat /\ r \in Seq(Alarm) /\ Len(r) = Len(timeouts) - 1
      /\ \A j \in 1..Len(timeouts) - 1 : r[j] = timeouts[j + 1]
      /\ Once(r) /\ Names(r) = Names(timeouts) \ {a.h}
  BY <1>1, <1>4, Removed
<1>6. /\ DOMAIN f = Names(timeouts)
      /\ \A i \in DOMAIN timeouts : timeouts[i].h \in Names(timeouts) /\ f[timeouts[i].h] = LeftAt(timeouts[i].time, now)
  BY <1>4, LeftOfIs
<1> HIDE DEF r, f
<1>7. ASSUME NEW j \in DOMAIN r PROVE g[r[j].h] = LeftAt(r[j].time, now)
  <2>1. DOMAIN r = 1..Len(timeouts) - 1 /\ DOMAIN timeouts = 1..Len(timeouts)
    BY <1>5, ListIs, LenProperties
  <2>2. r[j] = timeouts[j + 1] /\ j + 1 \in DOMAIN timeouts
    BY <1>5, <2>1
  <2>3. r[j].h \in Names(r)
    BY DEF Names
  <2>4. r[j].h \in DOMAIN f \ {a.h}
    BY <1>5, <1>6, <2>3
  <2>5. QED
    BY <1>6, <2>2, <2>4
<1>8. DOMAIN g = Names(r) /\ g = [k \in DOMAIN g |-> g[k]]
  BY <1>5, <1>6
<1> HIDE DEF g
<1>9. LeftOf(r, now) = g
  <2>1. Says(g, r, now)
    BY <1>5, <1>7, <1>8 DEF Says
  <2>2. QED
    BY <1>5, <2>1, LeftOfUnique
<1>10. Left0 = f /\ Left0' = g
  BY <1>1, <1>9, Left0Is DEF f, Left0, LeftOf, Names, Armed, Left, LeftAt
<1>11. a.h \in DOMAIN f /\ f[a.h] = LeftAt(a.time, now)
  BY <1>2, <1>6
<1>12. \A k \in DOMAIN f : f[a.h] <= f[k]
  BY <1>2, <1>6, <1>11 DEF Names
<1>13. QED
  BY <1>3, <1>10, <1>11, <1>12 DEF Abstract!Sound, g

LEMMA TickPasses ==
  ASSUME SetInv, TimeInv, Tick
  PROVE  Abstract!Pass
<1> DEFINE f == LeftOf(timeouts, now)
           g == [k \in DOMAIN f |-> f[k] - 1]
<1>1. timeouts' = timeouts /\ Once(timeouts)
  BY DEF Tick, list, SetInv, ListInv
<1>2. /\ DOMAIN f = Names(timeouts)
      /\ \A i \in DOMAIN timeouts : timeouts[i].h \in Names(timeouts) /\ f[timeouts[i].h] = LeftAt(timeouts[i].time, now)
  BY <1>1, LeftOfIs
<1>3. \A i \in DOMAIN timeouts : LeftAt(timeouts[i].time, now') = LeftAt(timeouts[i].time, now) - 1
  BY ListIs, TickWithin
<1> HIDE DEF f
<1>4. \A i \in DOMAIN timeouts : g[timeouts[i].h] = LeftAt(timeouts[i].time, now')
  BY <1>2, <1>3
<1>5. DOMAIN g = Names(timeouts) /\ g = [k \in DOMAIN g |-> g[k]]
  BY <1>2
<1> HIDE DEF g
<1>6. LeftOf(timeouts, now') = g
  BY <1>1, <1>4, <1>5, LeftOfUnique DEF Says
<1>7. Left0 = f /\ Left0' = g
  BY <1>1, <1>6, Left0Is DEF f, Left0, LeftOf, Names, Armed, Left, LeftAt
<1>8. QED
  BY <1>7 DEF Abstract!Pass, g

LEMMA SameLeft == ASSUME timeouts' = timeouts, now' = now PROVE Left0' = Left0
  BY DEF Left0, Armed, Left, LessThan

LEMMA InitAlarms == Init => Abstract!Init
<1> SUFFICES ASSUME Init PROVE Abstract!Init
  OBVIOUS
<1> DEFINE g == [h \in Periodic |-> Interval[h]]
<1>1. Once(timeouts) /\ Armed = Periodic
  BY InitSets DEF SetInv, ListInv, Wanted, Init
<1>2. \A i \in DOMAIN timeouts : g[timeouts[i].h] = LeftAt(timeouts[i].time, now)
  BY InitLeft
<1>3. DOMAIN g = Names(timeouts) /\ g = [k \in DOMAIN g |-> g[k]]
  BY <1>1 DEF Armed, Names
<1> HIDE DEF g
<1>4. LeftOf(timeouts, now) = g
  BY <1>1, <1>2, <1>3, LeftOfUnique DEF Says
<1>5. Left0 = g
  BY <1>4, Left0Is
<1>6. Periodic \in SUBSET Handler
  BY Constants
<1>7. QED
  BY <1>5, <1>6 DEF Abstract!Init, g

LEMMA StepAlarms == SetInv /\ TimeInv /\ [Next]_vars => [Abstract!Next]_Left0
<1> SUFFICES ASSUME SetInv, TimeInv, [Next]_vars PROVE Abstract!Next \/ Left0' = Left0
  OBVIOUS
<1>1. ASSUME pc = "fetch", now' = now, Opens \/ Closes \/ UNCHANGED <<tcp, list>>
      PROVE  Abstract!Next \/ Left0' = Left0
  <2>1. ASSUME tcp_timer \notin Armed, NEW t \in Time, sys_timeout_abs(t, tcp_timer),
               LeftAt(t, now) = Interval[tcp_timer]
        PROVE  Abstract!Set
    BY <1>1, <2>1, SetIsSet, Constants
  <2>2. sleep <= A
    BY DEF TimeInv
  <2>3. QED
    BY <1>1, <2>1, <2>2, StackSets, SameLeft DEF Abstract!Next
<1>2. CASE HandlerEnds
  <2>1. running.h \in Handler /\ running.h \notin Armed /\ now' = now
    BY <1>2 DEF HandlerEnds, SetInv, Alarm
  <2>2. ASSUME NEW t \in Time, sys_timeout_abs(t, running.h), LeftAt(t, now) \in 0..Interval[running.h]
        PROVE  Abstract!Set
    BY <2>1, <2>2, SetIsSet
  <2>3. QED
    BY <1>2, <2>1, <2>2, HandlerSetsAlarm, SameLeft DEF Abstract!Next
<1>3. CASE Expire
  BY <1>3, SoundsFirst DEF Abstract!Next
<1>4. CASE Tick
  BY <1>4, TickPasses DEF Abstract!Next
<1>5. CASE HandleMessage \/ SocketCall
  BY <1>1, <1>5 DEF HandleMessage, SocketCall
<1>6. CASE Loop \/ FetchTimesOut \/ CheckDone \/ Post \/ UNCHANGED vars
  BY <1>6, SameLeft DEF Loop, FetchTimesOut, CheckDone, Post, vars, list
<1>7. QED
  BY <1>2, <1>3, <1>4, <1>5, <1>6 DEF Next, Thread

-----------------------------------------------------------------------------
(* Theorems *)

\* The list and its pool are well formed.
THEOREM TimeoutsTyping == Spec => []TypeOK
<1>1. SetInv => TypeOK
  BY SetInvIs
<1>2. QED
  BY <1>1, InitSets, StepSets, PTL DEF Spec

\* Whichever task sets an alarm, none is lost, none is set twice and the pool never
\* runs dry (sys_timeout_abs, sys_check_timeouts, tcp_timer_needed).
THEOREM NothingForgottenTheorem == Spec => []NothingForgotten
<1>1. SetInv => NothingForgotten
  BY SetInvIs
<1>2. QED
  BY <1>1, InitSets, StepSets, PTL DEF Spec

\* No alarm is late by more than tcpip_thread was delayed, and that of TCP, which
\* another task may set while tcpip_thread sleeps, by what was left of that sleep
\* besides (tcpip_timeouts_mbox_fetch, sys_check_timeouts).
THEOREM NotTooLateTheorem == Spec => []NotTooLate
<1>1. ASSUME SetInv, TimeInv PROVE NotTooLate
  <2>1. ASSUME NEW i \in DOMAIN timeouts
        PROVE  -Left(timeouts[i].time) <= MaxDelay + Slack(timeouts[i].h)
    <3> DEFINE l == LeftAt(timeouts[i].time, now)
    <3>1. Within(timeouts[i].h, l) /\ l \in Int /\ timeouts[i].h \in Handler
      BY <1>1, ListIs, Spans
    <3>2. Late \in Int /\ Late >= -MaxDelay
      BY <1>1, ListIs, Spans DEF Late
    <3>3. Slack(timeouts[i].h) \in Int
      BY <3>1, Spans
    <3>4. Late - Slack(timeouts[i].h) <= l
      BY <3>1 DEF Within
    <3> HIDE DEF l
    <3>5. -l <= MaxDelay + Slack(timeouts[i].h)
      BY <3>1, <3>2, <3>3, <3>4, Spans
    <3>6. QED
      BY <3>5, LeftAtNow DEF l
  <2>2. QED
    BY <2>1 DEF NotTooLate, Slack, A
<1>2. QED
  BY <1>1, InitSets, InitInTime, StepSets, StepInTime, PTL DEF Spec

\* The sorted list and the wrapping comparison implement a set of alarms that sound
\* in the order of their times and never early.
THEOREM ImplementsAlarmsTheorem == Spec => ImplementsAlarms
  BY InitSets, InitInTime, InitAlarms, StepSets, StepInTime, StepAlarms, PTL
     DEF Spec, ImplementsAlarms, Abstract!Spec
=============================================================================
