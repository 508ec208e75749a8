--------------------------- MODULE LiveFeedProofs ---------------------------
(***************************************************************************)
(* The live feed, for any number of connections, events, scopes and drops.   *)
(***************************************************************************)
EXTENDS LiveFeed, SequenceTheorems, FiniteSetTheorems, WellFoundedInduction, TLAPS

LEMMA InSeq == ASSUME NEW S, NEW s \in Seq(S), NEW e
               PROVE  e \in ToSet(s) <=> \E n \in 1 .. Len(s) : s[n] = e
BY DEF ToSet

LEMMA WiderSeq == ASSUME NEW S, NEW T, S \subseteq T, NEW s \in Seq(S) PROVE s \in Seq(T)
<1>1. Len(s) \in Nat /\ s \in [1 .. Len(s) -> S]
  OBVIOUS
<1>2. s \in [1 .. Len(s) -> T]
  BY <1>1
<1> QED BY <1>1, <1>2

LEMMA SeqElements == ASSUME NEW S, NEW s \in Seq(S) PROVE ToSet(s) \subseteq S
BY InSeq

LEMMA AppendSet == ASSUME NEW S, NEW s \in Seq(S), NEW e \in S
                   PROVE  /\ Append(s, e) \in Seq(S) /\ \A x : x \in ToSet(Append(s, e)) <=> x \in ToSet(s) \/ x = e
                          /\ Len(Append(s, e)) = Len(s) + 1 /\ Append(s, e)[Len(s) + 1] = e
                          /\ \A n \in 1 .. Len(s) : Append(s, e)[n] = s[n]
<1>1. /\ Append(s, e) \in Seq(S) /\ Len(Append(s, e)) = Len(s) + 1 /\ Append(s, e)[Len(s) + 1] = e
      /\ \A n \in 1 .. Len(s) : Append(s, e)[n] = s[n]
  OBVIOUS
<1>2. ASSUME NEW x PROVE x \in ToSet(Append(s, e)) <=> x \in ToSet(s) \/ x = e
  <2>1. x \in ToSet(Append(s, e)) <=> \E n \in 1 .. Len(s) + 1 : Append(s, e)[n] = x
    <3> DEFINE r == Append(s, e)
    <3>1. r \in Seq(S) /\ Len(r) = Len(s) + 1
      BY <1>1
    <3> HIDE DEF r
    <3>2. x \in ToSet(r) <=> \E n \in 1 .. Len(r) : r[n] = x
      BY <3>1, InSeq
    <3> QED BY <3>1, <3>2 DEF r
  <2>2. x \in ToSet(s) <=> \E n \in 1 .. Len(s) : s[n] = x
    BY InSeq
  <2>3. Len(s) \in Nat
    OBVIOUS
  <2>4. 1 .. Len(s) + 1 = (1 .. Len(s)) \cup {Len(s) + 1}
    BY <2>3
  <2> QED BY <1>1, <2>1, <2>2, <2>4
<1> QED BY <1>1, <1>2

LEMMA AppendMembers == ASSUME NEW S, NEW s \in Seq(S), NEW e \in S
                       PROVE  \A x : x \in ToSet(Append(s, e)) <=> x \in ToSet(s) \/ x = e
BY AppendSet

(* The same of what a channel holds. *)
LEMMA BufferMembers == ASSUME NEW s \in Seq(0 .. MaxEvents), NEW e \in 0 .. MaxEvents
                       PROVE  \A x : x \in ToSet(Append(s, e)) <=> x \in ToSet(s) \/ x = e
<1> DEFINE T == 0 .. MaxEvents
<1>1. s \in Seq(T) /\ e \in T
  OBVIOUS
<1> HIDE DEF T
<1> QED BY <1>1, AppendMembers

LEMMA TailSet == ASSUME NEW S, NEW s \in Seq(S), s # <<>>
                 PROVE  /\ Tail(s) \in Seq(S) /\ Head(s) \in S /\ Len(Tail(s)) = Len(s) - 1 /\ Len(s) \in Nat \ {0}
                        /\ \A x : x \in ToSet(s) <=> x = Head(s) \/ x \in ToSet(Tail(s))
                        /\ \A n \in 1 .. Len(s) - 1 : Tail(s)[n] = s[n + 1]
                        /\ Head(s) = s[1]
<1>1. /\ Tail(s) \in Seq(S) /\ Head(s) \in S /\ Len(Tail(s)) = Len(s) - 1 /\ Len(s) \in Nat \ {0}
      /\ \A n \in 1 .. Len(s) - 1 : Tail(s)[n] = s[n + 1]
      /\ Head(s) = s[1]
  OBVIOUS
<1>2. ASSUME NEW x PROVE x \in ToSet(s) <=> x = Head(s) \/ x \in ToSet(Tail(s))
  <2>1. x \in ToSet(Tail(s)) <=> \E n \in 1 .. Len(s) - 1 : s[n + 1] = x
    <3> DEFINE r == Tail(s)
    <3>1. r \in Seq(S) /\ Len(r) = Len(s) - 1 /\ \A n \in 1 .. Len(s) - 1 : r[n] = s[n + 1]
      BY <1>1
    <3> HIDE DEF r
    <3>2. x \in ToSet(r) <=> \E n \in 1 .. Len(s) - 1 : r[n] = x
      BY <3>1, InSeq
    <3> QED BY <3>1, <3>2 DEF r
  <2>2. x \in ToSet(s) <=> \E n \in 1 .. Len(s) : s[n] = x
    BY InSeq
  <2>3. \A n \in 1 .. Len(s) : n = 1 \/ (n - 1 \in 1 .. Len(s) - 1 /\ (n - 1) + 1 = n)
    BY <1>1
  <2>4. \A n \in 1 .. Len(s) - 1 : n + 1 \in 1 .. Len(s)
    BY <1>1
  <2>5. 1 \in 1 .. Len(s)
    BY <1>1
  <2> QED BY <1>1, <2>1, <2>2, <2>3, <2>4, <2>5
<1> QED BY <1>1, <1>2

(* The rows of a replay can be put in order: the n-th is the one with n rows   *)
(* up to it.                                                                 *)
LEMMA Ordered ==
    ASSUME NEW rows \in SUBSET Nat, IsFiniteSet(rows)
    PROVE  /\ InOrder(rows) \in [1 .. Cardinality(rows) -> rows] /\ InOrder(rows) \in Seq(rows)
           /\ Len(InOrder(rows)) = Cardinality(rows)
           /\ \A x, y \in 1 .. Cardinality(rows) : x < y => InOrder(rows)[x] < InOrder(rows)[y]
           /\ ToSet(InOrder(rows)) = rows
<1> DEFINE N == Cardinality(rows)
           UpTo(x) == {y \in rows : y <= x}
           rank == [x \in rows |-> Cardinality(UpTo(x))]
<1>1. N \in Nat
  BY FS_CardinalityType
<1>2. ASSUME NEW x \in rows PROVE IsFiniteSet(UpTo(x)) /\ rank[x] \in 1 .. N /\ rank[x] = Cardinality(UpTo(x))
  <2>1. UpTo(x) \in SUBSET rows /\ x \in UpTo(x)
    OBVIOUS
  <2>2. IsFiniteSet(UpTo(x)) /\ Cardinality(UpTo(x)) <= N
    BY <2>1, FS_Subset
  <2>3. Cardinality(UpTo(x)) \in Nat /\ Cardinality(UpTo(x)) # 0
    BY <2>1, <2>2, FS_CardinalityType, FS_EmptySet
  <2> QED BY <1>1, <2>2, <2>3
<1>3. ASSUME NEW x \in rows, NEW y \in rows, x < y PROVE rank[x] < rank[y]
  <2>1. UpTo(x) \in SUBSET UpTo(y) /\ y \in UpTo(y) /\ y \notin UpTo(x)
    <3>1. \A e \in rows : e \in Int
      OBVIOUS
    <3>2. \A e \in rows : e <= x => e <= y
      BY <1>3, <3>1
    <3>3. y <= y /\ ~(y <= x)
      BY <1>3, <3>1
    <3> QED BY <3>2, <3>3, Zenon
  <2>2. IsFiniteSet(UpTo(y))
    BY <1>2
  <2>3. Cardinality(UpTo(x)) <= Cardinality(UpTo(y)) /\ Cardinality(UpTo(x)) # Cardinality(UpTo(y))
    BY <2>1, <2>2, FS_Subset
  <2> QED BY <1>1, <1>2, <2>3
<1>4. rank \in [rows -> 1 .. N]
  BY <1>2
<1> HIDE DEF rank, UpTo
<1>5. rank \in Injection(rows, 1 .. N)
  <2>1. ASSUME NEW x \in rows, NEW y \in rows, rank[x] = rank[y] PROVE x = y
    BY <1>2, <1>3, <2>1
  <2> QED BY <1>4, <2>1 DEF Injection, IsInjective
<1>6. rank \in Surjection(rows, 1 .. N)
  <2>1. IsFiniteSet(1 .. N) /\ Cardinality(1 .. N) = N
    BY <1>1, FS_Interval
  <2> QED BY <1>5, <2>1, FS_Injection
<1>7. \A n \in 1 .. N : \E x \in rows : rank[x] = n
  BY <1>6 DEF Surjection
<1> DEFINE f == [n \in 1 .. N |-> CHOOSE x \in rows : rank[x] = n]
<1>8. ASSUME NEW n \in 1 .. N PROVE f[n] \in rows /\ rank[f[n]] = n
  BY <1>7
<1>9. f \in [1 .. N -> rows]
  BY <1>7
<1>10. ASSUME NEW x \in 1 .. N, NEW y \in 1 .. N, x < y PROVE f[x] < f[y]
  <2>1. f[x] \in Nat /\ f[y] \in Nat /\ rank[f[x]] = x /\ rank[f[y]] = y
    BY <1>8
  <2>2. ~(f[y] < f[x]) /\ f[x] # f[y]
    BY <1>3, <1>8, <1>10, <2>1
  <2> QED BY <2>1, <2>2
<1> HIDE DEF f
<1>11. DOMAIN f = 1 .. N
  BY <1>9
<1>12. \A x, y \in DOMAIN f : x < y => f[x] < f[y]
  BY <1>10, <1>11
<1> DEFINE g == InOrder(rows)
<1>13. g \in [1 .. N -> rows] /\ \A x, y \in DOMAIN g : x < y => g[x] < g[y]
  BY <1>9, <1>12 DEF InOrder
<1> HIDE DEF g
<1>14. g \in Seq(rows) /\ Len(g) = N
  BY <1>1, <1>13
<1>15. ToSet(g) = rows
  <2>1. \A x, y \in 1 .. N : x # y => g[x] # g[y]
    <3> SUFFICES ASSUME NEW x \in 1 .. N, NEW y \in 1 .. N, x # y PROVE g[x] # g[y]
      OBVIOUS
    <3>1. x < y \/ y < x
      BY <1>1
    <3>2. g[x] \in Nat /\ g[y] \in Nat
      BY <1>13
    <3> QED BY <1>13, <3>1, <3>2
  <2>2. g \in Injection(1 .. N, rows)
    BY <1>13, <2>1 DEF Injection, IsInjective
  <2>3. Cardinality(1 .. N) = Cardinality(rows)
    BY <1>1, FS_Interval
  <2>4. g \in Surjection(1 .. N, rows)
    BY <2>2, <2>3, FS_Injection
  <2>5. \A e \in rows : \E n \in 1 .. N : g[n] = e
    BY <2>4 DEF Surjection
  <2>6. \A e : e \in ToSet(g) <=> \E n \in 1 .. N : g[n] = e
    BY <1>14, InSeq
  <2> QED BY <1>13, <2>5, <2>6
<1> QED BY <1>13, <1>14, <1>15 DEF g

LEMMA LeastOf == ASSUME NEW T \in SUBSET Nat, T # {} PROVE \E x \in T : \A y \in T : x <= y
<1> DEFINE R == OpToRel(<, Nat)
<1>1. IsWellFoundedOn(R, Nat)
  BY NatLessThanWellFounded
<1>2. \A x, y \in Nat : x < y => <<x, y>> \in R
  BY DEF OpToRel
<1> HIDE DEF R
<1>3. \E x \in T : \A y \in T : ~(<<y, x>> \in R)
  BY <1>1, WFMin
<1> PICK x \in T : \A y \in T : ~(<<y, x>> \in R)
  BY <1>3
<1>4. \A y \in T : x \in Nat /\ y \in Nat /\ ~(y < x)
  BY <1>2
<1> QED BY <1>4

(* The highest of some of the first n ids. *)
LEMMA TopExists ==
    ASSUME NEW n \in Nat, NEW S \in SUBSET (1 .. n), S # {}
    PROVE  \E x \in S : \A y \in S : y <= x
<1> DEFINE Below == {k \in Nat : \A y \in S : y <= k}
<1>1. S \subseteq Nat /\ n \in Below
  OBVIOUS
<1>2. PICK k \in Below : \A j \in Below : k <= j
  <2>1. Below \in SUBSET Nat /\ Below # {}
    BY <1>1
  <2> HIDE DEF Below
  <2> QED BY <2>1, LeastOf
<1>3. k \in S
  <2> SUFFICES ASSUME k \notin S PROVE FALSE
    OBVIOUS
  <2>1. k \in Nat /\ \A y \in S : y \in Nat /\ y # 0 /\ y <= k /\ y # k
    BY <1>1, <1>2
  <2>2. k > 0
    <3>1. PICK y \in S : TRUE
      OBVIOUS
    <3> QED BY <2>1, <3>1
  <2>3. k - 1 \in Below
    BY <2>1, <2>2
  <2> QED BY <1>2, <2>1, <2>2, <2>3
<1> QED BY <1>2, <1>3

-----------------------------------------------------------------------------
(* Types, and who holds which connection: the client has one while it waits,   *)
(* reads or fetches a snapshot; a handler that has returned is the client's     *)
(* until it has noticed; a tick sees no more events than there are.            *)
Phases == {"mounting", "handoff", "dialing", "waiting", "reading", "resyncing"}
Handler == [pc : {"free", "replay", "stream", "ended"}, after : 0 .. MaxEvents,
            unreplayed : SUBSET Ids, delivered : SUBSET Ids, sent : Seq(0 .. MaxEvents + 1)]
Channel == [open : BOOLEAN, buf : Seq(0 .. MaxEvents)]
Client == [pc : Phases, state : {"CONNECTING", "LIVE", "RECONNECTING", "RESYNCING"}, conn : Conns \cup {NoConn},
           read : Nat, cursor : 0 .. MaxEvents, seen : SUBSET Ids, newest : SUBSET Ids,
           ever : BOOLEAN, first : BOOLEAN, resync : BOOLEAN]
Page == [view : SUBSET Ids, timer : 0 .. 2, dirty : BOOLEAN]
Attached == client.pc \in {"waiting", "reading", "resyncing"}

Bursts == burst <= Len(log) /\ (Calm => burst <= Margin) /\ (~Calm => burst = 0)
Connection ==
    /\ Attached => client.conn \in Conns /\ handler[client.conn].pc # "free"
    /\ ~Attached => client.conn = NoConn
    /\ \A c \in Conns : handler[c].pc = "ended" => client.conn = c
TypeInv == TypeOK /\ client \in Client /\ Bursts /\ Connection

LEMMA Bounds ==
    /\ {MaxConns, MaxEvents, MaxDrops, Margin, Overlap, ReplayCap} \subseteq Nat /\ {Buffer, MaxPerKey} \subseteq Nat \ {0}
    /\ 0 \notin Conns /\ Conns \subseteq Nat /\ Ids \subseteq 0 .. MaxEvents /\ 0 \notin Ids
    /\ MaxEvents + 1 \notin 0 .. MaxEvents /\ 0 \in 0 .. MaxEvents /\ 0 .. MaxEvents \subseteq 0 .. MaxEvents + 1
    /\ Resync \in 0 .. MaxEvents + 1 /\ Resync \notin 0 .. MaxEvents /\ Summary \in 0 .. MaxEvents /\ Summary \notin Ids
    /\ 0 .. MaxEvents = Ids \cup {Summary} /\ 0 .. MaxEvents + 1 = Ids \cup {Summary, Resync} /\ Calm \in BOOLEAN
BY LiveAssumption DEF Conns, Ids, Resync, Summary

LEMMA TypesOf ==
    ASSUME TypeInv
    PROVE  /\ log \in Seq([kind : setting.kinds, stage : Stages]) /\ Len(log) \in 0 .. MaxEvents /\ DOMAIN log = 1 .. Len(log)
           /\ hub \in [Conns -> Channel] /\ handler \in [Conns -> Handler] /\ page \in Page /\ client \in Client
           /\ setting \in Settings /\ DOMAIN log \subseteq Ids
           /\ \A i \in DOMAIN log : log[i].kind \in setting.kinds /\ log[i].stage \in Stages
           /\ summary \in BOOLEAN /\ burst \in 0 .. MaxEvents /\ active \in Nat /\ drops \in 0 .. MaxDrops
           /\ Visible \subseteq DOMAIN log /\ Projected \subseteq Ids /\ Watermark \in 0 .. MaxEvents
<1>1. /\ log \in Seq([kind : setting.kinds, stage : Stages]) /\ Len(log) \in 0 .. MaxEvents /\ DOMAIN log = 1 .. Len(log)
      /\ hub \in [Conns -> Channel] /\ handler \in [Conns -> Handler] /\ page \in Page /\ client \in Client
      /\ setting \in Settings /\ DOMAIN log \subseteq Ids
      /\ summary \in BOOLEAN /\ burst \in 0 .. MaxEvents /\ active \in Nat /\ drops \in 0 .. MaxDrops
  <2>1. log \in Seq([kind : setting.kinds, stage : Stages]) /\ Len(log) <= MaxEvents
    BY DEF TypeInv, TypeOK
  <2>2. DOMAIN log = 1 .. Len(log) /\ Len(log) \in 0 .. MaxEvents /\ DOMAIN log \subseteq Ids
    BY <2>1, Bounds DEF Ids
  <2> QED BY <2>1, <2>2 DEF TypeInv, TypeOK, Handler, Channel, Page
<1>2. \A i \in DOMAIN log : log[i] \in [kind : setting.kinds, stage : Stages]
  <2> SUFFICES ASSUME NEW i \in 1 .. Len(log) PROVE log[i] \in [kind : setting.kinds, stage : Stages]
    BY <1>1
  <2> QED BY <1>1, ElementOfSeq
<1>3. Visible \subseteq DOMAIN log /\ Projected \subseteq Ids
  BY <1>1 DEF Visible, Projected
<1>4. Watermark \in 0 .. MaxEvents
  <2>1. CASE ~(Visible # {} /\ MaxOf(Visible) > Margin)
    BY <2>1, Bounds DEF Watermark
  <2>2. CASE Visible # {} /\ MaxOf(Visible) > Margin
    <3> DEFINE top == MaxOf(Visible)
    <3>1. Visible \in SUBSET (1 .. Len(log)) /\ Visible # {}
      BY <1>1, <1>3, <2>2
    <3>2. \E x \in Visible : \A y \in Visible : y <= x
      <4>1. Len(log) \in Nat
        BY <1>1
      <4> QED BY <3>1, <4>1, TopExists
    <3>3. top \in Visible
      BY <3>2 DEF MaxOf
    <3>4. Watermark = top - Margin /\ top > Margin
      BY <2>2 DEF Watermark
    <3> HIDE DEF top
    <3>5. top \in 1 .. MaxEvents /\ Margin \in Nat /\ MaxEvents \in Nat
      BY <1>1, <1>3, <3>3, Bounds DEF Ids
    <3> QED BY ONLY <3>4, <3>5
  <2> QED BY <2>1, <2>2
<1> QED BY <1>1, <1>2, <1>3, <1>4

LEMMA FreeTypes == Free \in Handler /\ Closed \in Channel
BY Bounds DEF Free, Closed, Handler, Channel

LEMMA TypeInit == Init => TypeInv
<1> SUFFICES ASSUME Init PROVE TypeInv
  OBVIOUS
<1>1. /\ hub \in [Conns -> Channel] /\ handler \in [Conns -> Handler] /\ page \in Page
      /\ \A c \in Conns : handler[c] = Free
  BY FreeTypes, Bounds DEF Init, Page
<1>2. client \in Client /\ client.pc = "mounting" /\ client.conn = NoConn /\ client.newest = {} /\ client.seen = {}
  BY Bounds DEF Init, Client, Phases, NoConn
<1>3. log \in Seq([kind : setting.kinds, stage : Stages]) /\ Len(log) = 0 /\ 0 <= MaxEvents
  BY Bounds DEF Init
<1>4. setting \in Settings /\ summary \in BOOLEAN /\ burst = 0 /\ 0 \in 0 .. MaxEvents /\ active \in Nat /\ drops \in 0 .. MaxDrops
  <2>1. MaxDrops \in Nat /\ MaxEvents \in Nat
    BY Bounds
  <2>2. 0 \in 0 .. MaxDrops /\ 0 \in 0 .. MaxEvents
    BY <2>1
  <2> QED BY <2>2 DEF Init
<1>5. TypeOK
  BY <1>1, <1>2, <1>3, <1>4 DEF TypeOK, Handler, Channel, Page, Client, Phases
<1>6. Bursts
  BY <1>3, <1>4, Bounds DEF Bursts
<1>7. Connection
  BY <1>1, <1>2, Bounds DEF Connection, Attached, Free
<1> QED BY <1>2, <1>5, <1>6, <1>7 DEF TypeInv

(* TypeInv' from its parts. *)
LEMMA TypeParts ==
    ASSUME log' \in Seq([kind : setting'.kinds, stage : Stages]), Len(log') \in 0 .. MaxEvents, setting' \in Settings,
           summary' \in BOOLEAN, burst' \in 0 .. MaxEvents, active' \in Nat, drops' \in 0 .. MaxDrops,
           hub' \in [Conns -> Channel], handler' \in [Conns -> Handler], page' \in Page,
           client' \in Client, (client.newest \subseteq client.seen)', Bursts', Connection'
    PROVE  TypeInv'
<1>1. Len(log') <= MaxEvents
  BY Bounds
<1>2. /\ client'.pc \in Phases /\ client'.state \in {"CONNECTING", "LIVE", "RECONNECTING", "RESYNCING"}
      /\ client'.conn \in Conns \cup {NoConn} /\ client'.read \in Nat /\ client'.cursor \in 0 .. MaxEvents
      /\ client'.seen \subseteq Ids /\ {client'.ever, client'.first, client'.resync} \subseteq BOOLEAN
  BY DEF Client
<1>3. hub' \in [Conns -> [open : BOOLEAN, buf : Seq(0 .. MaxEvents)]]
  BY DEF Channel
<1>4. handler' \in [Conns -> [pc : {"free", "replay", "stream", "ended"}, after : 0 .. MaxEvents,
                              unreplayed : SUBSET Ids, delivered : SUBSET Ids, sent : Seq(0 .. MaxEvents + 1)]]
  BY DEF Handler
<1>5. page' \in [view : SUBSET Ids, timer : 0 .. 2, dirty : BOOLEAN]
  BY DEF Page
<1>6. TypeOK'
  BY <1>1, <1>2, <1>3, <1>4, <1>5 DEF TypeOK, Phases
<1> QED BY <1>6 DEF TypeInv

(* What does not change keeps its type. *)
LEMMA LogKept ==
    ASSUME TypeInv, UNCHANGED <<log, setting, burst>>
    PROVE  /\ log' \in Seq([kind : setting'.kinds, stage : Stages]) /\ Len(log') \in 0 .. MaxEvents /\ setting' \in Settings
           /\ burst' \in 0 .. MaxEvents /\ Bursts'
<1>1. /\ log \in Seq([kind : setting.kinds, stage : Stages]) /\ Len(log) \in 0 .. MaxEvents /\ setting \in Settings
      /\ burst \in 0 .. MaxEvents
  BY TypesOf
<1>2. Bursts
  BY DEF TypeInv
<1>3. Bursts'
  BY <1>2 DEF Bursts
<1> QED BY <1>1, <1>3

LEMMA TypeLog == ASSUME TypeInv, Insert \/ LogStep PROVE TypeInv'
<1>t. /\ log \in Seq([kind : setting.kinds, stage : Stages]) /\ Len(log) \in 0 .. MaxEvents /\ DOMAIN log = 1 .. Len(log)
      /\ hub \in [Conns -> Channel] /\ handler \in [Conns -> Handler] /\ page \in Page /\ client \in Client
      /\ setting \in Settings /\ DOMAIN log \subseteq Ids
      /\ summary \in BOOLEAN /\ burst \in 0 .. MaxEvents /\ active \in Nat /\ drops \in 0 .. MaxDrops
  BY TypesOf
<1>b. MaxEvents \in Nat /\ Margin \in Nat /\ Calm \in BOOLEAN /\ Ids \subseteq 0 .. MaxEvents
  BY Bounds
<1>i. client.newest \subseteq client.seen /\ Bursts /\ Connection
  BY DEF TypeInv, TypeOK
<1>0. UNCHANGED <<handler, active, setting, page, client, drops>>
  BY DEF Insert, LogStep, Commit, Publish, server
<1>1. ASSUME NEW i \in DOMAIN log, NEW s \in Stages, SetStage(i, s)
      PROVE  log' \in Seq([kind : setting.kinds, stage : Stages]) /\ Len(log') = Len(log)
  <2>1. i \in 1 .. Len(log) /\ log[i] \in [kind : setting.kinds, stage : Stages]
    BY <1>t, ElementOfSeq
  <2>2. [log[i] EXCEPT !.stage = s] \in [kind : setting.kinds, stage : Stages]
    BY <2>1
  <2>3. log' = [log EXCEPT ![i] = [log[i] EXCEPT !.stage = s]]
    BY <1>1, <1>t DEF SetStage
  <2> QED BY <1>t, <2>1, <2>2, <2>3, ExceptSeq
<1>2. /\ log' \in Seq([kind : setting.kinds, stage : Stages]) /\ Len(log') \in 0 .. MaxEvents
      /\ burst' \in 0 .. MaxEvents /\ Bursts'
  <2>1. CASE Insert
    <3> PICK k \in setting.kinds : log' = Append(log, [kind |-> k, stage |-> "inserting"])
      BY <2>1 DEF Insert
    <3>1. [kind |-> k, stage |-> "inserting"] \in [kind : setting.kinds, stage : Stages]
      BY DEF Stages
    <3>2. log' \in Seq([kind : setting.kinds, stage : Stages]) /\ Len(log') = Len(log) + 1
      BY <3>1, <1>t, AppendProperties
    <3>3. Len(log) < MaxEvents /\ (Calm => burst < Margin) /\ burst' = IF Calm THEN burst + 1 ELSE burst
      BY <2>1 DEF Insert
    <3>4. burst <= Len(log) /\ (~Calm => burst = 0)
      BY <1>i DEF Bursts
    <3>5. burst' <= Len(log') /\ (Calm => burst' <= Margin) /\ (~Calm => burst' = 0) /\ burst' \in 0 .. MaxEvents
      BY <1>b, <1>t, <3>2, <3>3, <3>4
    <3> QED BY <1>t, <1>b, <3>2, <3>3, <3>5 DEF Bursts
  <2>3. CASE LogStep
    <3>1. UNCHANGED burst
      BY <2>3 DEF LogStep, Commit, Publish
    <3>2. \E i \in DOMAIN log, s \in Stages : SetStage(i, s)
      BY <2>3 DEF LogStep, Commit, Publish, Stages
    <3>3. log' \in Seq([kind : setting.kinds, stage : Stages]) /\ Len(log') = Len(log)
      BY <1>1, <3>2
    <3> QED BY <1>t, <1>i, <3>1, <3>3 DEF Bursts
  <2> QED BY <2>1, <2>3
<1>3. summary' \in BOOLEAN
  <2>1. WantsSummary(setting.scopes) \in BOOLEAN
    BY DEF WantsSummary
  <2> QED BY <1>t, <2>1 DEF Insert, LogStep, Commit, Publish
<1>4. hub' \in [Conns -> Channel]
  <2>1. ASSUME NEW ch \in Channel, NEW i \in DOMAIN log, NEW k PROVE Offer(ch, i, k) \in Channel
    <3>1. i \in 0 .. MaxEvents
      BY <1>t, <1>b
    <3>2. Append(ch.buf, i) \in Seq(0 .. MaxEvents)
      BY <3>1 DEF Channel
    <3> QED BY <3>2 DEF Offer, Channel
  <2>2. CASE UNCHANGED hub
    BY <1>t, <2>2
  <2>3. ASSUME NEW i \in DOMAIN log, Publish(i) PROVE hub' \in [Conns -> Channel]
    <3>1. UNCHANGED hub \/ hub' = [c \in Conns |-> IF hub[c].open /\ Matches(setting.scopes, log[i].kind)
                                                  THEN Offer(hub[c], i, log[i].kind) ELSE hub[c]]
      BY <2>3 DEF Publish
    <3> QED BY <1>t, <2>1, <3>1
  <2> QED BY <2>2, <2>3 DEF Insert, LogStep, Commit, server
<1>5. Connection'
  BY <1>0, <1>i DEF Connection, Attached
<1> QED BY <1>t, <1>i, <1>0, <1>2, <1>3, <1>4, <1>5, TypeParts

LEMMA TypeSummary == ASSUME TypeInv, FireSummary PROVE TypeInv'
<1>t. /\ hub \in [Conns -> Channel] /\ handler \in [Conns -> Handler] /\ page \in Page /\ client \in Client
      /\ active \in Nat /\ drops \in 0 .. MaxDrops
  BY TypesOf
<1>i. client.newest \subseteq client.seen /\ Connection
  BY DEF TypeInv, TypeOK
<1>0. UNCHANGED <<log, burst, handler, active, setting, page, client, drops>> /\ summary' \in BOOLEAN
  BY DEF FireSummary
<1>1. hub' \in [Conns -> Channel]
  <2>1. ASSUME NEW ch \in Channel PROVE [ch EXCEPT !.buf = Append(@, Summary)] \in Channel
    <3>1. Append(ch.buf, Summary) \in Seq(0 .. MaxEvents)
      BY Bounds DEF Channel
    <3> QED BY <3>1 DEF Channel
  <2> QED BY <1>t, <2>1 DEF FireSummary
<1>2. Connection'
  BY <1>0, <1>i DEF Connection, Attached
<1> QED BY <1>t, <1>i, <1>0, <1>1, <1>2, LogKept, TypeParts

LEMMA AfterType == ASSUME TypeInv PROVE After \in 0 .. MaxEvents /\ Projected \subseteq Ids
<1>1. client.cursor \in 0 .. MaxEvents /\ Overlap \in Nat /\ MaxEvents \in Nat
  BY TypesOf, Bounds DEF Client
<1> QED BY <1>1, TypesOf DEF After

LEMMA TypeAccept == ASSUME TypeInv, NEW c \in Conns, Accept(c) PROVE TypeInv'
<1>t. /\ hub \in [Conns -> Channel] /\ handler \in [Conns -> Handler] /\ page \in Page /\ client \in Client
      /\ active \in Nat /\ drops \in 0 .. MaxDrops /\ summary \in BOOLEAN
  BY TypesOf
<1>i. client.newest \subseteq client.seen /\ Connection
  BY DEF TypeInv, TypeOK
<1>0. UNCHANGED <<log, burst, setting, summary, page, drops>> /\ active' = active + 1
      /\ client.pc = "dialing" /\ handler[c] = Free
  BY DEF Accept, logger
<1>1. hub' \in [Conns -> Channel]
  <2>1. [open |-> TRUE, buf |-> <<>>] \in Channel
    BY DEF Channel
  <2> QED BY <1>t, <2>1 DEF Accept
<1>2. client' = [client EXCEPT !.pc = "waiting", !.conn = c, !.read = 0, !.first = ~client.ever]
  BY DEF Accept
<1>3. client' \in Client /\ client'.newest \subseteq client'.seen /\ client'.pc = "waiting" /\ client'.conn = c
  BY <1>t, <1>i, <1>2 DEF Client, Phases
<1>4. PICK a \in 0 .. MaxEvents, u \in SUBSET Ids :
        handler' = [handler EXCEPT ![c] = [Free EXCEPT !.pc = "replay", !.after = a, !.unreplayed = u]]
  <2>1. After \in 0 .. MaxEvents /\ {i \in Projected : i > After} \in SUBSET Ids
    BY <1>t, AfterType
  <2>2. handler' = [handler EXCEPT ![c] = [Free EXCEPT !.pc = "replay", !.after = After,
                                                     !.unreplayed = {i \in Projected : i > After}]]
    BY DEF Accept
  <2> QED BY <2>1, <2>2, Zenon
<1> DEFINE g == [Free EXCEPT !.pc = "replay", !.after = a, !.unreplayed = u]
<1>5. g \in Handler /\ g.pc = "replay"
  BY FreeTypes DEF Handler
<1> HIDE DEF g
<1>6. handler' \in [Conns -> Handler] /\ handler'[c].pc = "replay" /\ \A d \in Conns : d # c => handler'[d] = handler[d]
  BY <1>t, <1>4, <1>5 DEF g
<1>7. Connection'
  <2>1. ASSUME NEW d \in Conns, handler'[d].pc = "ended" PROVE client'.conn = d
    <3>1. d # c /\ handler[d].pc = "ended"
      BY <1>6, <2>1
    <3>2. client.conn = d /\ client.conn = NoConn
      BY <1>0, <1>i, <3>1 DEF Connection, Attached
    <3> QED BY <3>2, Bounds DEF NoConn
  <2> QED BY <1>3, <1>6, <2>1 DEF Connection, Attached
<1>8. active' \in Nat
  BY <1>t, <1>0
<1> QED BY <1>t, <1>0, <1>1, <1>3, <1>6, <1>7, <1>8, LogKept, TypeParts

(* The rows of a replay, in order, and the frames made of them. *)
LEMMA ReplayFrames ==
    ASSUME TypeInv, NEW c \in Conns
    PROVE  /\ ReplayRows(c) \in SUBSET Nat /\ IsFiniteSet(ReplayRows(c)) /\ ReplayRows(c) \subseteq DOMAIN log
           /\ ReplayRows(c) \subseteq Ids /\ InOrder(ReplayRows(c)) \in Seq(Ids)
           /\ InOrder(ReplayRows(c)) \in Seq(0 .. MaxEvents + 1)
           /\ Append(InOrder(ReplayRows(c)), Summary) \in Seq(0 .. MaxEvents + 1)
           /\ <<Resync>> \in Seq(0 .. MaxEvents + 1)
<1>t. DOMAIN log = 1 .. Len(log) /\ Len(log) \in 0 .. MaxEvents /\ DOMAIN log \subseteq Ids /\ Visible \subseteq DOMAIN log
  BY TypesOf
<1>b. Ids \subseteq 0 .. MaxEvents + 1 /\ Summary \in 0 .. MaxEvents + 1 /\ Resync \in 0 .. MaxEvents + 1 /\ MaxEvents \in Nat
  BY Bounds
<1> DEFINE rows == ReplayRows(c)
<1>1. rows \subseteq DOMAIN log
  BY <1>t DEF ReplayRows
<1> HIDE DEF rows
<1>2. rows \in SUBSET Nat /\ rows \in SUBSET Ids
  BY <1>1, <1>t
<1>3. IsFiniteSet(rows)
  <2>1. Len(log) \in Nat
    BY <1>t, <1>b
  <2>2. IsFiniteSet(1 .. Len(log))
    BY <2>1, FS_Interval
  <2> QED BY <1>1, <1>t, <2>2, FS_Subset
<1> DEFINE frames == InOrder(rows)
<1>4. frames \in Seq(rows)
  BY <1>2, <1>3, Ordered
<1> HIDE DEF frames
<1>5. frames \in Seq(Ids) /\ frames \in Seq(0 .. MaxEvents + 1)
  <2>1. frames \in Seq(Ids)
    BY <1>2, <1>4, WiderSeq
  <2> QED BY <1>b, <2>1, WiderSeq
<1>6. Append(frames, Summary) \in Seq(0 .. MaxEvents + 1) /\ <<Resync>> \in Seq(0 .. MaxEvents + 1)
  BY <1>b, <1>5
<1> QED BY <1>1, <1>2, <1>3, <1>5, <1>6 DEF frames, rows

(* The three ways a replay whose query succeeded can end. *)
LEMMA ReplayCases ==
    ASSUME NEW c \in Conns, Replay(c)
    PROVE  \E h : /\ handler' = [handler EXCEPT ![c] = h]
                  /\ \/ h = [handler[c] EXCEPT !.pc = "stream", !.unreplayed = {}, !.sent = <<Resync>>]
                     \/ h = [handler[c] EXCEPT !.pc = "stream", !.unreplayed = {}, !.delivered = ReplayRows(c),
                                               !.sent = InOrder(ReplayRows(c))]
                     \/ h = [handler[c] EXCEPT !.pc = "stream", !.unreplayed = {}, !.delivered = ReplayRows(c),
                                               !.sent = Append(InOrder(ReplayRows(c)), Summary)]
<1>1. CASE TooMany(ReplayRows(c))
  <2>1. handler' = [handler EXCEPT ![c] = [handler[c] EXCEPT !.pc = "stream", !.unreplayed = {}, !.sent = <<Resync>>]]
    BY <1>1 DEF Replay
  <2> QED BY <2>1, Zenon
<1>2. CASE ~TooMany(ReplayRows(c)) /\ ReplayRows(c) # {} /\ WantsSummary(setting.scopes)
  BY <1>2 DEF Replay
<1>3. CASE ~TooMany(ReplayRows(c)) /\ ~(ReplayRows(c) # {} /\ WantsSummary(setting.scopes))
  BY <1>3 DEF Replay
<1> QED BY <1>1, <1>2, <1>3

LEMMA TypeReplay == ASSUME TypeInv, NEW c \in Conns, Replay(c) PROVE TypeInv'
<1>t. /\ hub \in [Conns -> Channel] /\ handler \in [Conns -> Handler] /\ page \in Page /\ client \in Client
      /\ active \in Nat /\ drops \in 0 .. MaxDrops /\ summary \in BOOLEAN
  BY TypesOf
<1>i. client.newest \subseteq client.seen /\ Connection
  BY DEF TypeInv, TypeOK
<1>0. UNCHANGED <<log, burst, setting, summary, hub, active, page, client, drops>> /\ handler[c].pc = "replay"
  BY DEF Replay, logger
<1>1. PICK h : /\ handler' = [handler EXCEPT ![c] = h]
               /\ \/ h = [handler[c] EXCEPT !.pc = "stream", !.unreplayed = {}, !.sent = <<Resync>>]
                  \/ h = [handler[c] EXCEPT !.pc = "stream", !.unreplayed = {}, !.delivered = ReplayRows(c),
                                            !.sent = InOrder(ReplayRows(c))]
                  \/ h = [handler[c] EXCEPT !.pc = "stream", !.unreplayed = {}, !.delivered = ReplayRows(c),
                                            !.sent = Append(InOrder(ReplayRows(c)), Summary)]
  BY ReplayCases, Zenon
<1>2. /\ ReplayRows(c) \subseteq Ids /\ InOrder(ReplayRows(c)) \in Seq(0 .. MaxEvents + 1)
      /\ Append(InOrder(ReplayRows(c)), Summary) \in Seq(0 .. MaxEvents + 1) /\ <<Resync>> \in Seq(0 .. MaxEvents + 1)
  BY ReplayFrames
<1>3. handler[c] \in Handler
  BY <1>t
<1>4. h \in Handler /\ h.pc = "stream"
  <2> DEFINE rows == ReplayRows(c)
             one == InOrder(rows)
             two == Append(one, Summary)
             three == <<Resync>>
  <2>1. rows \in SUBSET Ids /\ {one, two, three} \subseteq Seq(0 .. MaxEvents + 1)
    BY <1>2
  <2>2. \/ h = [handler[c] EXCEPT !.pc = "stream", !.unreplayed = {}, !.sent = three]
        \/ h = [handler[c] EXCEPT !.pc = "stream", !.unreplayed = {}, !.delivered = rows, !.sent = one]
        \/ h = [handler[c] EXCEPT !.pc = "stream", !.unreplayed = {}, !.delivered = rows, !.sent = two]
    BY <1>1
  <2> HIDE DEF rows, one, two, three
  <2> QED BY <1>3, <2>1, <2>2 DEF Handler
<1>5. handler' \in [Conns -> Handler] /\ handler'[c].pc = "stream" /\ \A d \in Conns : d # c => handler'[d] = handler[d]
  BY <1>t, <1>1, <1>4
<1>6. Connection'
  BY <1>0, <1>i, <1>5 DEF Connection, Attached
<1> QED BY <1>t, <1>i, <1>0, <1>5, <1>6, LogKept, TypeParts

(* A replay that fails moves on and leaves the rest. *)
LEMMA FailedHandler ==
    ASSUME TypeInv, NEW c \in Conns, ReplayFails(c)
    PROVE  /\ handler' = [handler EXCEPT ![c] = [handler[c] EXCEPT !.pc = "stream"]]
           /\ handler' \in [Conns -> Handler] /\ handler[c].pc = "replay" /\ handler'[c].pc = "stream"
           /\ \A d \in Conns : /\ d # c => handler'[d] = handler[d]
                              /\ handler'[d].after = handler[d].after /\ handler'[d].unreplayed = handler[d].unreplayed
                              /\ handler'[d].delivered = handler[d].delivered /\ handler'[d].sent = handler[d].sent
           /\ UNCHANGED <<log, recent, summary, burst, hub, active, setting, page, client, drops>>
<1>t. handler \in [Conns -> Handler] /\ handler[c] \in Handler
  BY TypesOf
<1>1. handler' = [handler EXCEPT ![c] = [handler[c] EXCEPT !.pc = "stream"]]
  BY <1>t DEF ReplayFails
<1>2. [handler[c] EXCEPT !.pc = "stream"] \in Handler
  BY <1>t DEF Handler
<1>3. handler' \in [Conns -> Handler]
  BY <1>t, <1>1, <1>2
<1>4. \A d \in Conns : d # c => handler'[d] = handler[d]
  BY <1>t, <1>1
<1>5. handler'[c] = [handler[c] EXCEPT !.pc = "stream"]
  BY <1>t, <1>1
<1>6. handler[c].pc = "replay" /\ UNCHANGED <<log, recent, summary, burst, hub, active, setting, page, client, drops>>
  BY DEF ReplayFails, logger
<1>7. /\ handler'[c].pc = "stream" /\ handler'[c].after = handler[c].after
      /\ handler'[c].unreplayed = handler[c].unreplayed
      /\ handler'[c].delivered = handler[c].delivered /\ handler'[c].sent = handler[c].sent
  BY <1>t, <1>5 DEF Handler
<1>8. ASSUME NEW d \in Conns
      PROVE  /\ handler'[d].after = handler[d].after /\ handler'[d].unreplayed = handler[d].unreplayed
             /\ handler'[d].delivered = handler[d].delivered /\ handler'[d].sent = handler[d].sent
  <2>1. CASE d = c
    BY <1>7, <2>1
  <2>2. CASE d # c
    BY <1>4, <2>2
  <2> QED BY <2>1, <2>2
<1> QED BY <1>1, <1>3, <1>4, <1>6, <1>7, <1>8

LEMMA TypeFails == ASSUME TypeInv, NEW c \in Conns, ReplayFails(c) PROVE TypeInv'
<1>t. /\ hub \in [Conns -> Channel] /\ page \in Page /\ client \in Client
      /\ active \in Nat /\ drops \in 0 .. MaxDrops /\ summary \in BOOLEAN
  BY TypesOf
<1>i. client.newest \subseteq client.seen /\ Connection
  BY DEF TypeInv, TypeOK
<1>1. /\ handler' \in [Conns -> Handler] /\ handler[c].pc = "replay" /\ handler'[c].pc = "stream"
      /\ \A d \in Conns : d # c => handler'[d] = handler[d]
      /\ UNCHANGED <<log, recent, summary, burst, hub, active, setting, page, client, drops>>
  BY FailedHandler
<1>2. Connection'
  BY <1>i, <1>1 DEF Connection, Attached
<1> QED BY <1>t, <1>i, <1>1, <1>2, LogKept, TypeParts

LEMMA TypeStream == ASSUME TypeInv, NEW c \in Conns, Stream(c) PROVE TypeInv'
<1>t. /\ hub \in [Conns -> Channel] /\ handler \in [Conns -> Handler] /\ page \in Page /\ client \in Client
      /\ active \in Nat /\ drops \in 0 .. MaxDrops /\ summary \in BOOLEAN
  BY TypesOf
<1>i. client.newest \subseteq client.seen /\ Connection
  BY DEF TypeInv, TypeOK
<1>0. UNCHANGED <<log, burst, setting, summary, active, page, client, drops>> /\ handler[c].pc = "stream"
      /\ hub[c].buf # <<>>
  BY DEF Stream, logger
<1>1. hub[c].buf \in Seq(0 .. MaxEvents) /\ handler[c].sent \in Seq(0 .. MaxEvents + 1) /\ hub[c] \in Channel /\ handler[c] \in Handler
  BY <1>t DEF Channel, Handler
<1>2. Tail(hub[c].buf) \in Seq(0 .. MaxEvents) /\ Head(hub[c].buf) \in 0 .. MaxEvents
  BY <1>0, <1>1, TailSet
<1>3. hub' = [hub EXCEPT ![c] = [hub[c] EXCEPT !.buf = Tail(hub[c].buf)]]
  BY <1>t DEF Stream
<1>4. [hub[c] EXCEPT !.buf = Tail(hub[c].buf)] \in Channel
  BY <1>1, <1>2 DEF Channel
<1>5. hub' \in [Conns -> Channel]
  BY <1>t, <1>3, <1>4
<1>6. Append(handler[c].sent, Head(hub[c].buf)) \in Seq(0 .. MaxEvents + 1)
  <2> DEFINE T == 0 .. MaxEvents + 1
  <2>1. handler[c].sent \in Seq(T) /\ Head(hub[c].buf) \in T
    BY <1>1, <1>2, Bounds
  <2> HIDE DEF T
  <2>2. Append(handler[c].sent, Head(hub[c].buf)) \in Seq(T)
    BY ONLY <2>1
  <2> QED BY <2>2 DEF T
<1>7. PICK s \in Seq(0 .. MaxEvents + 1) : handler' = [handler EXCEPT ![c] = [handler[c] EXCEPT !.sent = s]]
  <2>1. CASE Forward(c, Head(hub[c].buf))
    BY <1>t, <1>6, <2>1 DEF Stream
  <2>2. CASE ~Forward(c, Head(hub[c].buf))
    BY <1>t, <1>1, <2>2 DEF Stream
  <2> QED BY <2>1, <2>2
<1>8. [handler[c] EXCEPT !.sent = s] \in Handler /\ [handler[c] EXCEPT !.sent = s].pc = handler[c].pc
  BY <1>1 DEF Handler
<1>9. handler' \in [Conns -> Handler] /\ \A d \in Conns : handler'[d].pc = handler[d].pc
  BY <1>t, <1>7, <1>8
<1>10. Connection'
  BY <1>0, <1>i, <1>9 DEF Connection, Attached
<1> QED BY <1>t, <1>i, <1>0, <1>5, <1>9, <1>10, LogKept, TypeParts

LEMMA TypeReturn == ASSUME TypeInv, NEW c \in Conns, Return(c) PROVE TypeInv'
<1>t. /\ hub \in [Conns -> Channel] /\ handler \in [Conns -> Handler] /\ page \in Page /\ client \in Client
      /\ active \in Nat /\ drops \in 0 .. MaxDrops /\ summary \in BOOLEAN
  BY TypesOf
<1>i. client.newest \subseteq client.seen /\ Connection
  BY DEF TypeInv, TypeOK
<1>0. UNCHANGED <<log, burst, setting, summary, page, client, drops>>
  BY DEF Return, logger
<1>1. hub' \in [Conns -> Channel]
  BY <1>t, FreeTypes DEF Return
<1>2. active' \in Nat
  BY <1>t DEF Return, Release
<1>3. handler' = [handler EXCEPT ![c] = IF client.conn = c THEN [handler[c] EXCEPT !.pc = "ended"] ELSE Free]
  BY DEF Return
<1>4. [handler[c] EXCEPT !.pc = "ended"] \in Handler /\ [handler[c] EXCEPT !.pc = "ended"].pc = "ended"
  BY <1>t DEF Handler
<1>5. /\ handler' \in [Conns -> Handler] /\ \A d \in Conns : d # c => handler'[d] = handler[d]
      /\ handler'[c] = IF client.conn = c THEN [handler[c] EXCEPT !.pc = "ended"] ELSE Free
  BY <1>t, <1>3, <1>4, FreeTypes
<1>6. Connection'
  <2>1. ASSUME NEW d \in Conns, handler'[d].pc = "ended" PROVE client'.conn = d
    <3>1. CASE d # c
      BY <1>0, <1>i, <1>5, <2>1, <3>1 DEF Connection
    <3>2. CASE d = c
      BY <1>0, <1>5, <2>1, <3>2 DEF Free
    <3> QED BY <3>1, <3>2
  <2>2. Attached => client.conn \in Conns /\ handler'[client.conn].pc # "free"
    <3>1. CASE client.conn = c
      BY <1>4, <1>5, <3>1
    <3>2. CASE client.conn # c
      BY <1>i, <1>5, <3>2 DEF Connection
    <3> QED BY <3>1, <3>2
  <2>3. Attached' = Attached /\ client' = client /\ (~Attached => client.conn = NoConn)
    BY <1>0, <1>i DEF Attached, Connection
  <2> QED BY <2>1, <2>2, <2>3 DEF Connection
<1> QED BY <1>t, <1>i, <1>0, <1>1, <1>2, <1>5, <1>6, LogKept, TypeParts

(* The page and the client alone; the connection stays. *)
LEMMA TypePage ==
    ASSUME TypeInv, UNCHANGED <<log, summary, burst, server, drops>>, page' \in Page, client' \in Client,
           client'.newest \subseteq client'.seen,
           client'.conn = client.conn, client'.pc \in {"waiting", "reading", "resyncing"} <=> Attached
    PROVE  TypeInv'
<1>t. /\ hub \in [Conns -> Channel] /\ handler \in [Conns -> Handler] /\ active \in Nat /\ drops \in 0 .. MaxDrops
      /\ summary \in BOOLEAN
  BY TypesOf
<1>1. UNCHANGED <<hub, handler, active, setting>>
  BY DEF server
<1>2. Connection'
  BY <1>1 DEF TypeInv, Connection, Attached
<1> QED BY <1>t, <1>1, <1>2, LogKept, TypeParts

LEMMA PageTypes ==
    ASSUME NEW p \in Page, NEW t \in 0 .. 2, NEW v \in SUBSET Ids, NEW d \in BOOLEAN
    PROVE  /\ [p EXCEPT !.timer = t] \in Page /\ [p EXCEPT !.view = v] \in Page /\ [p EXCEPT !.timer = t, !.view = v] \in Page
           /\ [p EXCEPT !.dirty = d] \in Page /\ [p EXCEPT !.dirty = d, !.timer = t] \in Page
BY DEF Page

LEMMA TypeClient ==
    ASSUME TypeInv, Mount \/ Handoff \/ Connected \/ ReadEvent \/ ReadResync \/ Reload \/ Poll \/ Tick
    PROVE  TypeInv'
<1>t. /\ page \in Page /\ client \in Client /\ Projected \subseteq Ids /\ Watermark \in 0 .. MaxEvents
      /\ client.newest \subseteq client.seen
  BY TypesOf DEF TypeInv, TypeOK
<1>1. CASE Mount
  <2>1. page' \in Page
    BY <1>t, <1>1 DEF Mount, Page
  <2>2. client' \in Client /\ client'.pc = "handoff" /\ client'.conn = client.conn /\ client'.newest \subseteq client'.seen
    BY <1>t, <1>1 DEF Mount, Client, Phases
  <2> QED BY <1>1, <2>1, <2>2, TypePage DEF Mount, Attached, logger
<1>2. CASE Handoff
  <2>1. client' \in Client /\ client'.pc = "dialing" /\ client'.conn = client.conn /\ client'.newest \subseteq client'.seen
    BY <1>t, <1>2 DEF Handoff, Client, Phases
  <2> QED BY <1>t, <1>2, <2>1, TypePage DEF Handoff, Attached, logger
<1>3. CASE Connected
  <2>1. page' \in Page
    <3>1. 2 \in 0 .. 2
      OBVIOUS
    <3> QED BY <1>t, <1>3, <3>1, PageTypes DEF Connected, CatchUp, Debounce
  <2>2. client' \in Client /\ client'.pc = "reading" /\ client'.conn = client.conn /\ client'.newest \subseteq client'.seen
    BY <1>t, <1>3 DEF Connected, Client, Phases
  <2> QED BY <1>3, <2>1, <2>2, TypePage DEF Connected, Attached, logger
<1>4. CASE ReadEvent
  <2>1. handler[client.conn].sent \in Seq(0 .. MaxEvents + 1) /\ client.read \in Nat
        /\ client.read < Len(handler[client.conn].sent)
    BY <1>4, <1>t, TypesOf DEF ReadEvent, HasFrame, TypeInv, Connection, Attached, Handler, Client
  <2>2. Frame \in 0 .. MaxEvents + 1 /\ Frame # Resync
    <3>1. client.read + 1 \in 1 .. Len(handler[client.conn].sent)
      BY <2>1
    <3> QED BY <2>1, <3>1, <1>4, ElementOfSeq DEF Frame, ReadEvent
  <2>3. Frame \in Ids \cup {Summary}
    BY <2>2, Bounds
  <2>4. PICK r \in Nat, s \in SUBSET Ids, n \in SUBSET Ids, k \in 0 .. MaxEvents :
          n \subseteq s /\ client' = [client EXCEPT !.read = r, !.seen = s, !.cursor = k, !.newest = n]
    <3> DEFINE new == Frame = Summary \/ Frame \notin client.seen
               accepted == new /\ (Frame = Summary \/ Fresh(Frame))
               s == client.seen \cup ({Frame} \ {Summary})
               n == IF accepted /\ Frame # Summary
                    THEN {j \in client.newest : Resource(log[j].kind) # Resource(log[Frame].kind)} \cup {Frame} ELSE client.newest
               k == IF new /\ Frame > client.cursor THEN Frame ELSE client.cursor
    <3>1. client' = [client EXCEPT !.read = client.read + 1, !.seen = s, !.cursor = k, !.newest = n]
      BY <1>4 DEF ReadEvent
    <3>2. s \in SUBSET Ids /\ n \in SUBSET Ids /\ n \subseteq s
      BY <1>t, <2>3, Bounds DEF Client
    <3>3. k \in 0 .. MaxEvents
      BY <1>t, <2>3, Bounds DEF Client
    <3>4. client.read + 1 \in Nat
      BY <2>1
    <3> HIDE DEF s, n, k
    <3> QED BY <3>1, <3>2, <3>3, <3>4
  <2>5. client' \in Client /\ client'.pc = client.pc /\ client'.conn = client.conn /\ client'.newest \subseteq client'.seen
    BY <1>t, <2>4 DEF Client
  <2>6. page' \in Page
    <3>1. page' = page \/ page' = [page EXCEPT !.timer = Debounce] \/ page' = [page EXCEPT !.timer = page.timer]
      BY <1>t, <1>4 DEF ReadEvent
    <3>2. 2 \in 0 .. 2 /\ page.timer \in 0 .. 2
      BY <1>t DEF Page
    <3> QED BY <1>t, <3>1, <3>2, PageTypes DEF Debounce
  <2> QED BY <1>4, <2>5, <2>6, TypePage DEF ReadEvent, Attached, logger
<1>5. CASE ReadResync
  <2>1. page' \in Page
    BY <1>t, <1>5 DEF ReadResync, Page
  <2>2. client' \in Client /\ client'.pc = "resyncing" /\ client'.conn = client.conn /\ client'.newest \subseteq client'.seen
        /\ client.pc = "reading"
    BY <1>t, <1>5 DEF ReadResync, HasFrame, Client, Phases
  <2> QED BY <1>5, <2>1, <2>2, TypePage DEF ReadResync, Attached, logger
<1>6. CASE Reload \/ Poll
  <2>1. page' \in Page /\ UNCHANGED <<client, log, summary, burst, server, drops>>
    <3>1. CASE Reload
      <4>1. page' = [page EXCEPT !.timer = 0, !.view = Projected] /\ 0 \in 0 .. 2
        BY <3>1 DEF Reload
      <4>2. page' \in Page
        BY <1>t, <4>1, PageTypes
      <4> QED BY <3>1, <4>2 DEF Reload, logger
    <3>2. CASE Poll
      BY <1>t, <3>2 DEF Poll, Page, logger
    <3> QED BY <1>6, <3>1, <3>2
  <2> QED BY <1>t, <2>1, TypePage DEF Attached
<1>7. CASE Tick
  <2>1. page' \in Page
    BY <1>t, <1>7 DEF Tick, Page
  <2>2. /\ log \in Seq([kind : setting.kinds, stage : Stages]) /\ Len(log) \in 0 .. MaxEvents /\ summary \in BOOLEAN
        /\ hub \in [Conns -> Channel] /\ handler \in [Conns -> Handler] /\ setting \in Settings
        /\ active \in Nat /\ drops \in 0 .. MaxDrops
    BY TypesOf
  <2>3. burst' = 0 /\ UNCHANGED <<log, summary, hub, handler, active, setting, client, drops>>
    BY <1>7 DEF Tick, server
  <2>4. Bursts' /\ burst' \in 0 .. MaxEvents
    BY <2>2, <2>3, Bounds DEF Bursts
  <2>5. Connection'
    BY <2>3 DEF TypeInv, Connection, Attached
  <2> QED BY <1>t, <2>1, <2>2, <2>3, <2>4, <2>5, TypeParts
<1> QED BY <1>1, <1>2, <1>3, <1>4, <1>5, <1>6, <1>7

(* The client is done with its connection. *)
LEMMA TypeLeave == ASSUME TypeInv, SnapshotArrives \/ EndOfStream \/ Drop PROVE TypeInv'
<1>t. /\ hub \in [Conns -> Channel] /\ handler \in [Conns -> Handler] /\ page \in Page /\ client \in Client
      /\ active \in Nat /\ drops \in 0 .. MaxDrops /\ summary \in BOOLEAN /\ Watermark \in 0 .. MaxEvents
      /\ client.newest \subseteq client.seen
  BY TypesOf DEF TypeInv, TypeOK
<1>0. /\ Leave /\ Attached /\ UNCHANGED <<log, burst, setting, summary, hub, active>>
  BY DEF SnapshotArrives, EndOfStream, Drop, HasFrame, Leave, Attached, logger
<1>1. drops' \in 0 .. MaxDrops
  BY <1>t, Bounds DEF SnapshotArrives, EndOfStream, Drop
<1>2. Redial \in Client /\ Redial.pc = "dialing" /\ Redial.conn = NoConn /\ Redial.newest = client.newest /\ Redial.seen = client.seen
  BY <1>t DEF Redial, Client, Phases, State, NoConn
<1>3. client' \in Client /\ client'.pc = "dialing" /\ client'.conn = NoConn /\ client'.newest \subseteq client'.seen
  <2>1. CASE client' = Redial
    BY <1>t, <1>2, <2>1
  <2>2. CASE client' = [Redial EXCEPT !.cursor = Watermark, !.seen = {}, !.newest = {}]
    BY <1>t, <1>2, <2>2 DEF Client
  <2> QED BY <2>1, <2>2 DEF SnapshotArrives, EndOfStream, Drop
<1>4. page' \in Page
  <2>1. (page.dirty \/ State(client.ever, client.resync) # "CONNECTING") \in BOOLEAN
    BY <1>t DEF Page
  <2> QED BY <1>t, <1>0, <2>1 DEF Leave, Page
<1>5. client.conn \in Conns
  BY <1>0 DEF TypeInv, Connection
<1>6. handler' = [handler EXCEPT ![client.conn] = IF handler[client.conn].pc = "ended" THEN Free ELSE handler[client.conn]]
  BY <1>0 DEF Leave
<1>7. handler' \in [Conns -> Handler]
  BY <1>t, <1>5, <1>6, FreeTypes
<1>8. ASSUME NEW d \in Conns PROVE handler'[d].pc # "ended"
  BY <1>t, <1>5, <1>6 DEF TypeInv, Connection, Free
<1>9. Connection'
  BY <1>3, <1>8 DEF Connection, Attached
<1> QED BY <1>t, <1>0, <1>1, <1>3, <1>4, <1>7, <1>9, LogKept, TypeParts

LEMMA TypeStep == ASSUME TypeInv, [Next]_vars PROVE TypeInv'
<1>1. CASE UNCHANGED vars
  <2>1. UNCHANGED <<log, recent, summary, burst, hub, handler, active, setting, page, client, drops>>
    BY <1>1 DEF vars
  <2> QED BY <2>1, TypePage, TypesOf DEF server, Attached, TypeInv, TypeOK
<1>2. CASE Next
  <2>1. Ping(1) \/ ~Ping(1)
    OBVIOUS
  <2>2. CASE \E c \in Conns : Ping(c)
    BY <2>2, <1>1 DEF Ping
  <2>3. CASE ServerStep
    BY <2>3, TypeReplay, TypeFails, TypeStream, TypeReturn DEF ServerStep
  <2>4. CASE ClientStep \/ Drop \/ Reload \/ Poll \/ Tick
    BY <2>4, TypeClient, TypeAccept, TypeLeave DEF ClientStep
  <2> QED BY <1>2, <2>2, <2>3, <2>4, TypeLog, TypeSummary DEF Next
<1> QED BY <1>1, <1>2

LEMMA TypeAlways == Spec => []TypeInv
<1>1. Init => TypeInv
  BY TypeInit
<1>2. TypeInv /\ [Next]_vars => TypeInv'
  BY TypeStep
<1> QED BY <1>1, <1>2, PTL DEF Spec

-----------------------------------------------------------------------------
(* The limiter's count is that of the handlers between Accept and Return, who   *)
(* alone take and give back a slot.                                          *)
Running == {c \in Conns : handler[c].pc \in {"replay", "stream"}}

LEMMA RunningFinite == IsFiniteSet(Running) /\ Cardinality(Running) \in Nat
<1>1. IsFiniteSet(Conns)
  BY Bounds, FS_Interval DEF Conns
<1>2. IsFiniteSet(Running)
  BY <1>1, FS_Subset DEF Running
<1> QED BY <1>2, FS_CardinalityType

LEMMA LimiterStep == ASSUME TypeInv, LimiterExact, [Next]_vars PROVE LimiterExact'
<1>t. handler \in [Conns -> Handler] /\ active \in Nat
  BY TypesOf
<1>l. active = Cardinality(Running) /\ active <= MaxPerKey
  BY DEF LimiterExact, Running
<1>f. IsFiniteSet(Running) /\ Cardinality(Running) \in Nat
  BY RunningFinite
<1>g. MaxPerKey \in Nat
  BY Bounds
<1>q. ASSUME active' = Cardinality(Running'), active' <= MaxPerKey PROVE LimiterExact'
  BY <1>q DEF LimiterExact, Running
<1>1. ASSUME UNCHANGED active, \A c \in Conns : handler'[c].pc \in {"replay", "stream"} <=> handler[c].pc \in {"replay", "stream"}
      PROVE  LimiterExact'
  <2>1. Running' = Running
    BY <1>1 DEF Running
  <2> QED BY <1>1, <1>l, <1>q, <2>1
<1>2. ASSUME NEW c \in Conns, Accept(c) PROVE LimiterExact'
  <2>1. handler[c].pc = "free" /\ active < MaxPerKey /\ active' = active + 1
    BY <1>2 DEF Accept, Acquire, Free
  <2>2. handler'[c].pc = "replay" /\ \A d \in Conns : d # c => handler'[d] = handler[d]
    BY <1>t, <1>2 DEF Accept, Free
  <2>3. c \notin Running /\ Running' = Running \cup {c}
    BY <2>1, <2>2 DEF Running
  <2>4. Cardinality(Running \cup {c}) = Cardinality(Running) + 1
    BY <1>f, <2>3, FS_AddElement
  <2> QED BY <1>l, <1>t, <1>g, <1>q, <2>1, <2>3, <2>4
<1>3. ASSUME NEW c \in Conns, Return(c) PROVE LimiterExact'
  <2>1. handler[c].pc = "stream" /\ active' = IF active <= 1 THEN 0 ELSE active - 1
    BY <1>3 DEF Return, Release
  <2>2. handler'[c].pc \in {"free", "ended"} /\ \A d \in Conns : d # c => handler'[d] = handler[d]
    BY <1>t, <1>3 DEF Return, Free, Handler
  <2>3. c \in Running /\ Running' = Running \ {c}
    BY <2>1, <2>2 DEF Running
  <2>4. Cardinality(Running \ {c}) = Cardinality(Running) - 1
    BY <1>f, <2>3, FS_RemoveElement
  <2>5. Cardinality(Running') \in Nat
    BY <1>f, <2>3, FS_RemoveElement, FS_CardinalityType
  <2> QED BY <1>l, <1>t, <1>f, <1>g, <1>q, <2>1, <2>3, <2>4, <2>5
<1>4. ASSUME NEW c \in Conns, Replay(c) \/ ReplayFails(c) \/ Stream(c) PROVE LimiterExact'
  <2>1. UNCHANGED active /\ handler[c].pc \in {"replay", "stream"}
    BY <1>4 DEF Replay, ReplayFails, Stream
  <2>2. handler'[c].pc = "stream" /\ \A d \in Conns : d # c => handler'[d] = handler[d]
    <3>1. CASE Replay(c)
      <4> PICK h : /\ handler' = [handler EXCEPT ![c] = h]
                   /\ \/ h = [handler[c] EXCEPT !.pc = "stream", !.unreplayed = {}, !.sent = <<Resync>>]
                      \/ h = [handler[c] EXCEPT !.pc = "stream", !.unreplayed = {}, !.delivered = ReplayRows(c),
                                                !.sent = InOrder(ReplayRows(c))]
                      \/ h = [handler[c] EXCEPT !.pc = "stream", !.unreplayed = {}, !.delivered = ReplayRows(c),
                                                !.sent = Append(InOrder(ReplayRows(c)), Summary)]
        BY <3>1, ReplayCases, Zenon
      <4> QED BY <1>t DEF Handler
    <3>2. CASE Stream(c)
      <4>1. handler' = [handler EXCEPT ![c].sent = IF Forward(c, Head(hub[c].buf)) THEN Append(@, Head(hub[c].buf)) ELSE @]
            /\ handler[c].pc = "stream"
        BY <3>2 DEF Stream
      <4> QED BY <1>t, <4>1 DEF Handler
    <3>3. CASE ReplayFails(c)
      BY <3>3, FailedHandler
    <3> QED BY <1>4, <3>1, <3>2, <3>3
  <2> QED BY <1>1, <2>1, <2>2
<1>5. CASE SnapshotArrives \/ EndOfStream \/ Drop
  <2>1. Leave /\ client.conn \in Conns
    BY <1>5 DEF SnapshotArrives, EndOfStream, Drop, HasFrame, TypeInv, Connection, Attached
  <2>2. UNCHANGED active /\ handler' = [handler EXCEPT ![client.conn] = IF @.pc = "ended" THEN Free ELSE @]
    BY <2>1 DEF Leave
  <2> QED BY <1>1, <1>t, <2>1, <2>2 DEF Free
<1>6. CASE UNCHANGED <<handler, active>>
  BY <1>1, <1>6
<1>7. CASE Next
  <2>1. CASE ServerStep
    BY <2>1, <1>3, <1>4 DEF ServerStep
  <2>2. CASE LogStep
    BY <2>2, <1>6 DEF LogStep, Commit, Publish, server
  <2>3. CASE Insert \/ FireSummary \/ Reload \/ Poll \/ Tick
    BY <2>3, <1>6 DEF Insert, FireSummary, Reload, Poll, Tick, server
  <2>4. CASE \E c \in Conns : Ping(c)
    BY <2>4, <1>6 DEF Ping, vars
  <2>5. CASE ClientStep
    <3>1. CASE Mount \/ Handoff \/ Connected \/ ReadEvent \/ ReadResync
      BY <3>1, <1>6 DEF Mount, Handoff, Connected, ReadEvent, ReadResync, server
    <3> QED BY <2>5, <3>1, <1>2, <1>5 DEF ClientStep
  <2>6. CASE Drop
    BY <2>6, <1>5
  <2> QED BY <1>7, <2>1, <2>2, <2>3, <2>4, <2>5, <2>6 DEF Next
<1> QED BY <1>6, <1>7 DEF vars

(* The limiter never counts another number of connections than there are, and   *)
(* never lets one more through than a key may have (live/limiter.go:44-75).   *)
THEOREM LimiterHolds == Spec => []LimiterExact
<1>1. Init => LimiterExact
  <2> SUFFICES ASSUME Init PROVE LimiterExact
    OBVIOUS
  <2>1. {c \in Conns : handler[c].pc \in {"replay", "stream"}} = {} /\ active = 0
    BY DEF Init, Free
  <2>2. Cardinality({c \in Conns : handler[c].pc \in {"replay", "stream"}}) = 0
    BY <2>1, FS_EmptySet
  <2>3. 0 <= MaxPerKey
    BY Bounds
  <2> QED BY <2>1, <2>2, <2>3 DEF LimiterExact
<1>2. TypeInv /\ LimiterExact /\ [Next]_vars => LimiterExact'
  BY LimiterStep
<1> QED BY <1>1, <1>2, TypeAlways, PTL DEF Spec

-----------------------------------------------------------------------------
(* What the hub decides in memory and the replay decides by its query are the   *)
(* same: which events a subscription takes, and which a caller may see.       *)
LEMMA SqlMatches ==
    ASSUME NEW scopes \in SUBSET Scopes, NEW e
    PROVE  e.type # "platform.summary" => (Matches(scopes, e) <=> ReplaySQL(scopes, e))
<1> SUFFICES ASSUME e.type # "platform.summary" PROVE Matches(scopes, e) <=> ReplaySQL(scopes, e)
  OBVIOUS
<1>1. ASSUME NEW s \in scopes PROVE ScopeMatches(s, e) <=> ScopeSQL(s, e)
  <2>1. CASE s.kind = "platform.summary"
    BY <2>1 DEF ScopeMatches, ScopeSQL, Families
  <2>2. CASE s.kind = "execution-chain"
    <3>1. s.id # ""
      BY <2>2 DEF Scopes, PlainKinds
    <3> QED BY <2>2, <3>1 DEF ScopeMatches, ScopeSQL, Families
  <2>3. CASE s.kind \notin {"platform.summary", "execution-chain"}
    BY <2>3 DEF ScopeMatches, ScopeSQL
  <2> QED BY <2>1, <2>2, <2>3
<1> QED BY <1>1 DEF Matches, ReplaySQL

LEMMA SqlHides == ASSUME NEW granted, NEW type PROVE HiddenEventSQL(granted, type) <=> ~CanSee(granted, type)
BY DEF HiddenEventSQL, CanSee, FirstFit

LEMMA KindTypes == ASSUME TypeInv, NEW i \in DOMAIN log
                   PROVE  /\ setting.scopes \in SUBSET Scopes /\ log[i].kind.type \in Types
                          /\ log[i].kind.type # "platform.summary"
<1>1. setting \in Settings /\ log[i].kind \in setting.kinds
  BY TypesOf
<1>2. setting.kinds \subseteq Events /\ setting.scopes \subseteq Scopes
  BY <1>1, LiveAssumption
<1>3. log[i].kind.type \in Types
  BY <1>1, <1>2 DEF Events
<1> QED BY <1>2, <1>3 DEF Types

(* What the caller of setting st is owed. *)
Owed(st, k) == Matches(st.scopes, k) /\ CanSee(st.granted, k.type) /\ ~IsNoise(k)

LEMMA RowsAreOwed ==
    ASSUME TypeInv, NEW c \in Conns, NEW i \in DOMAIN log
    PROVE  /\ i \in ReplayRows(c) => Owed(setting, log[i].kind)
           /\ (Owed(setting, log[i].kind) /\ log[i].stage = "published" /\ i > handler[c].after) => i \in ReplayRows(c)
<1>1. Matches(setting.scopes, log[i].kind) <=> ReplaySQL(setting.scopes, log[i].kind)
  BY KindTypes, SqlMatches
<1>2. HiddenEventSQL(setting.granted, log[i].kind.type) <=> ~CanSee(setting.granted, log[i].kind.type)
  BY SqlHides
<1>3. log[i].stage = "published" => i \in Visible
  BY DEF Visible
<1> QED BY <1>1, <1>2, <1>3 DEF ReplayRows, Owed

-----------------------------------------------------------------------------
(* One connection: its handler h and its channel ch, the log lg and the setting  *)
(* st.  A handler that does not run holds nothing open, one that has not        *)
(* replayed has sent nothing; what is buffered was published to it; what was    *)
(* sent is owed, and was replayed or published; what waits in the channel was   *)
(* not sent, unless it was replayed; what is published and not dropped is in    *)
(* one of them, or is still to be replayed, or was not by a query that failed.  *)
Life(h, ch) ==
    /\ h.pc \in {"free", "ended"} => ch = Closed
    /\ h.pc = "replay" => h.sent = <<>> /\ h.delivered = {}
Held(st, lg, ch) ==
    \A i \in ToSet(ch.buf) \ {Summary} : i \in DOMAIN lg /\ lg[i].stage = "published"
                                         /\ Matches(st.scopes, lg[i].kind) /\ ~IsNoise(lg[i].kind)
Single(s) == \A x, y \in DOMAIN s : x # y /\ s[x] # Summary => s[x] # s[y]
Given(st, lg, h) ==
    \A i \in ToSet(h.sent) \ {Summary, Resync} :
        i \in DOMAIN lg /\ Owed(st, lg[i].kind) /\ (i \in h.delivered \/ lg[i].stage = "published")
Apart(h, ch) == \A i \in ToSet(ch.buf) \ {Summary} : i \notin h.delivered => i \notin ToSet(h.sent)
Replayed(h) == h.delivered \subseteq ToSet(h.sent)
Heard(st, lg, h, ch) ==
    \A i \in DOMAIN lg :
        (/\ ch.open /\ Resync \notin ToSet(h.sent)
         /\ lg[i].stage = "published" /\ i > h.after /\ i \notin h.unreplayed
         /\ Owed(st, lg[i].kind) /\ PriorityOfEvent(lg[i].kind) # "informational")
        => i \in ToSet(h.sent) \cup ToSet(ch.buf)
Conn(st, lg, h, ch) ==
    /\ Life(h, ch) /\ Held(st, lg, ch) /\ Single(ch.buf) /\ Given(st, lg, h) /\ Single(h.sent)
    /\ Apart(h, ch) /\ Replayed(h) /\ Heard(st, lg, h, ch)
ConnInv == \A c \in Conns : Conn(setting, log, handler[c], hub[c])

LEMMA EmptySet == ToSet(<<>>) = {}
BY DEF ToSet

LEMMA SingleAppend ==
    ASSUME NEW S, NEW s \in Seq(S), NEW e \in S, Single(s), e = Summary \/ e \notin ToSet(s)
    PROVE  Single(Append(s, e))
<1>1. /\ Len(Append(s, e)) = Len(s) + 1 /\ Append(s, e)[Len(s) + 1] = e /\ Append(s, e) \in Seq(S)
      /\ \A n \in 1 .. Len(s) : Append(s, e)[n] = s[n]
  BY AppendSet
<1> DEFINE r == Append(s, e)
<1>2. DOMAIN r = 1 .. Len(s) + 1 /\ DOMAIN s = 1 .. Len(s) /\ Len(s) \in Nat
  BY <1>1
<1>3. \A n \in 1 .. Len(s) : s[n] \in ToSet(s)
  BY InSeq
<1>4. r[Len(s) + 1] = e /\ \A n \in 1 .. Len(s) : r[n] = s[n]
  BY <1>1
<1> HIDE DEF r
<1> SUFFICES ASSUME NEW x \in 1 .. Len(s) + 1, NEW y \in 1 .. Len(s) + 1, x # y, r[x] # Summary PROVE r[x] # r[y]
  BY <1>2 DEF Single, r
<1>5. CASE x \in 1 .. Len(s) /\ y \in 1 .. Len(s)
  BY <1>2, <1>4, <1>5 DEF Single
<1>6. CASE x = Len(s) + 1 /\ y \in 1 .. Len(s)
  BY <1>2, <1>3, <1>4, <1>6
<1>7. CASE y = Len(s) + 1 /\ x \in 1 .. Len(s)
  BY <1>2, <1>3, <1>4, <1>7
<1> QED BY <1>2, <1>5, <1>6, <1>7

LEMMA SingleTail ==
    ASSUME NEW S, NEW s \in Seq(S), s # <<>>, Single(s)
    PROVE  Single(Tail(s)) /\ (Head(s) # Summary => Head(s) \notin ToSet(Tail(s)))
<1>1. /\ Tail(s) \in Seq(S) /\ Len(Tail(s)) = Len(s) - 1 /\ Len(s) \in Nat \ {0}
      /\ \A n \in 1 .. Len(s) - 1 : Tail(s)[n] = s[n + 1]
      /\ Head(s) = s[1]
  BY TailSet
<1> DEFINE r == Tail(s)
<1>2. DOMAIN r = 1 .. Len(s) - 1 /\ DOMAIN s = 1 .. Len(s) /\ Len(r) = Len(s) - 1 /\ r \in Seq(S)
  BY <1>1
<1>3. \A n \in 1 .. Len(s) - 1 : r[n] = s[n + 1] /\ n + 1 \in 1 .. Len(s) /\ n + 1 # 1
  BY <1>1
<1> HIDE DEF r
<1>4. Single(r)
  <2> SUFFICES ASSUME NEW x \in 1 .. Len(s) - 1, NEW y \in 1 .. Len(s) - 1, x # y, r[x] # Summary PROVE r[x] # r[y]
    BY <1>2 DEF Single
  <2>1. r[x] = s[x + 1] /\ r[y] = s[y + 1] /\ x + 1 \in DOMAIN s /\ y + 1 \in DOMAIN s
    BY <1>2, <1>3
  <2>2. x + 1 # y + 1
    OBVIOUS
  <2> QED BY <2>1, <2>2 DEF Single
<1>5. ASSUME s[1] # Summary, s[1] \in ToSet(r) PROVE FALSE
  <2>1. PICK n \in 1 .. Len(s) - 1 : r[n] = s[1]
    BY <1>2, <1>5, InSeq
  <2>2. 1 \in DOMAIN s
    BY <1>1, <1>2
  <2> QED BY <1>2, <1>3, <1>5, <2>1, <2>2 DEF Single
<1> QED BY <1>1, <1>4, <1>5 DEF r

(* The log moves on, and nothing is published. *)
LEMMA ConnLog ==
    ASSUME NEW st, NEW lg, NEW lg2, NEW h, NEW ch, Conn(st, lg, h, ch), DOMAIN lg \subseteq DOMAIN lg2,
           \A i \in DOMAIN lg : lg2[i].kind = lg[i].kind /\ (lg[i].stage = "published" => lg2[i].stage = "published"),
           \A i \in DOMAIN lg2 : lg2[i].stage = "published" => i \in DOMAIN lg /\ lg[i].stage = "published"
    PROVE  Conn(st, lg2, h, ch)
<1>1. Held(st, lg2, ch)
  BY DEF Conn, Held
<1>2. Given(st, lg2, h)
  BY DEF Conn, Given
<1>3. Heard(st, lg2, h, ch)
  BY DEF Conn, Heard
<1> QED BY <1>1, <1>2, <1>3 DEF Conn

(* An event is published: into the channel, or dropped, or the channel is cut. *)
LEMMA ConnPublish ==
    ASSUME NEW st, NEW lg, NEW lg2, NEW h \in Handler, NEW ch \in Channel, NEW ch2, NEW i \in Ids,
           Conn(st, lg, h, ch), DOMAIN lg2 = DOMAIN lg, i \in DOMAIN lg, lg[i].stage = "recorded", lg2[i].stage = "published",
           \A j \in DOMAIN lg : lg2[j].kind = lg[j].kind /\ (j # i => lg2[j] = lg[j]), ~IsNoise(lg[i].kind),
           ch2 = IF ch.open /\ Matches(st.scopes, lg[i].kind) THEN Offer(ch, i, lg[i].kind) ELSE ch
    PROVE  Conn(st, lg2, h, ch2)
<1>b. i # Summary /\ i # Resync /\ i \in 0 .. MaxEvents
  BY Bounds
<1>c. ch.buf \in Seq(0 .. MaxEvents) /\ ch.open \in BOOLEAN
  BY DEF Channel
<1>0. i \notin ToSet(ch.buf) /\ (i \in ToSet(h.sent) => i \in h.delivered)
  BY <1>b DEF Conn, Held, Given
<1>1. Given(st, lg2, h)
  <2> SUFFICES ASSUME NEW j \in ToSet(h.sent) \ {Summary, Resync}
               PROVE  j \in DOMAIN lg2 /\ Owed(st, lg2[j].kind) /\ (j \in h.delivered \/ lg2[j].stage = "published")
    BY DEF Given
  <2>1. j \in DOMAIN lg /\ Owed(st, lg[j].kind) /\ (j \in h.delivered \/ lg[j].stage = "published")
    BY DEF Conn, Given
  <2> QED BY <2>1
<1>2. Held(st, lg2, ch)
  <2> SUFFICES ASSUME NEW j \in ToSet(ch.buf) \ {Summary}
               PROVE  j \in DOMAIN lg2 /\ lg2[j].stage = "published" /\ Matches(st.scopes, lg2[j].kind) /\ ~IsNoise(lg2[j].kind)
    BY DEF Held
  <2>1. j \in DOMAIN lg /\ lg[j].stage = "published" /\ Matches(st.scopes, lg[j].kind) /\ ~IsNoise(lg[j].kind)
    BY DEF Conn, Held
  <2> QED BY <2>1
<1>3. CASE ch.open /\ Matches(st.scopes, lg[i].kind) /\ Len(ch.buf) < Buffer
  <2>1. ch2 = [ch EXCEPT !.buf = Append(ch.buf, i)]
    BY <1>3 DEF Offer
  <2> DEFINE b == Append(ch.buf, i)
  <2>2. ch2.buf = b /\ ch2.open = ch.open
    BY <2>1 DEF Channel
  <2>3. (\A x : x \in ToSet(b) <=> x \in ToSet(ch.buf) \/ x = i) /\ Single(b)
    <3>1. \A x : x \in ToSet(Append(ch.buf, i)) <=> x \in ToSet(ch.buf) \/ x = i
      <4>1. ch.buf \in Seq(0 .. MaxEvents) /\ i \in 0 .. MaxEvents
        BY <1>b, <1>c
      <4> QED BY ONLY <4>1, BufferMembers
    <3>2. Single(b)
      BY <1>b, <1>c, <1>0, SingleAppend DEF Conn
    <3> QED BY <3>1, <3>2
  <2> HIDE DEF b
  <2>4. Held(st, lg2, ch2)
    BY <1>2, <1>3, <2>2, <2>3 DEF Held
  <2>5. Apart(h, ch2)
    BY <1>0, <2>2, <2>3 DEF Conn, Apart
  <2>6. Life(h, ch2)
    <3>1. h.pc \notin {"free", "ended"}
      BY <1>3 DEF Conn, Life, Closed
    <3> QED BY <3>1 DEF Conn, Life
  <2>7. Heard(st, lg2, h, ch2)
    <3> SUFFICES ASSUME NEW j \in DOMAIN lg2, ch2.open, Resync \notin ToSet(h.sent),
                        lg2[j].stage = "published", j > h.after, j \notin h.unreplayed, Owed(st, lg2[j].kind),
                        PriorityOfEvent(lg2[j].kind) # "informational"
                 PROVE  j \in ToSet(h.sent) \cup ToSet(ch2.buf)
      BY DEF Heard
    <3>1. CASE j = i
      BY <2>2, <2>3, <3>1
    <3>2. CASE j # i
      <4>1. j \in ToSet(h.sent) \cup ToSet(ch.buf)
        BY <2>2, <3>2 DEF Conn, Heard
      <4> QED BY <2>2, <2>3, <4>1
    <3> QED BY <3>1, <3>2
  <2> QED BY <1>1, <2>2, <2>3, <2>4, <2>5, <2>6, <2>7 DEF Conn
<1>4. ASSUME ch2.buf = ch.buf, ch2.open => ch.open, h.pc \in {"free", "ended"} => ch2 = ch,
             ch2.open => (~Matches(st.scopes, lg[i].kind) \/ PriorityOfEvent(lg[i].kind) = "informational")
      PROVE  Conn(st, lg2, h, ch2)
  <2>1. Held(st, lg2, ch2) /\ Apart(h, ch2) /\ Single(ch2.buf)
    BY <1>2, <1>4 DEF Conn, Held, Apart
  <2>2. Life(h, ch2)
    BY <1>4 DEF Conn, Life
  <2>3. Heard(st, lg2, h, ch2)
    <3> SUFFICES ASSUME NEW j \in DOMAIN lg2, ch2.open, Resync \notin ToSet(h.sent),
                        lg2[j].stage = "published", j > h.after, j \notin h.unreplayed, Owed(st, lg2[j].kind),
                        PriorityOfEvent(lg2[j].kind) # "informational"
                 PROVE  j \in ToSet(h.sent) \cup ToSet(ch2.buf)
      BY DEF Heard
    <3>1. j # i
      BY <1>4 DEF Owed
    <3> QED BY <1>4, <3>1 DEF Conn, Heard
  <2> QED BY <1>1, <2>1, <2>2, <2>3 DEF Conn
<1>5. CASE ~(ch.open /\ Matches(st.scopes, lg[i].kind))
  BY <1>4, <1>5
<1>6. CASE ch.open /\ Matches(st.scopes, lg[i].kind) /\ ~(Len(ch.buf) < Buffer)
  <2>1. h.pc \notin {"free", "ended"}
    BY <1>6 DEF Conn, Life, Closed
  <2>2. CASE PriorityOfEvent(lg[i].kind) = "informational"
    BY <1>4, <1>6, <2>2 DEF Offer
  <2>3. CASE PriorityOfEvent(lg[i].kind) # "informational"
    <3>1. ch2 = [ch EXCEPT !.open = FALSE]
      BY <1>6, <2>3 DEF Offer
    <3>2. ch2.buf = ch.buf /\ ~ch2.open
      BY <3>1 DEF Channel
    <3> QED BY <1>4, <2>1, <3>2
  <2> QED BY <2>2, <2>3
<1> QED BY <1>3, <1>5, <1>6

(* The summary is put into an open channel. *)
LEMMA ConnSummary ==
    ASSUME NEW st, NEW lg, NEW h \in Handler, NEW ch \in Channel, Conn(st, lg, h, ch), ch.open
    PROVE  Conn(st, lg, h, [ch EXCEPT !.buf = Append(@, Summary)])
<1> DEFINE b == Append(ch.buf, Summary)
           ch2 == [ch EXCEPT !.buf = Append(@, Summary)]
<1>1. ch.buf \in Seq(0 .. MaxEvents) /\ ch2.buf = b /\ ch2.open = ch.open /\ Summary \in 0 .. MaxEvents
  BY Bounds DEF Channel
<1>2. (\A x : x \in ToSet(b) <=> x \in ToSet(ch.buf) \/ x = Summary) /\ Single(b)
  <2>1. \A x : x \in ToSet(Append(ch.buf, Summary)) <=> x \in ToSet(ch.buf) \/ x = Summary
    BY <1>1, AppendMembers, Zenon
  <2>2. Single(b)
    BY <1>1, SingleAppend DEF Conn
  <2> QED BY <2>1, <2>2
<1>3. h.pc \notin {"free", "ended"}
  BY DEF Conn, Life, Closed
<1> HIDE DEF b, ch2
<1>4. Life(h, ch2) /\ Held(st, lg, ch2) /\ Apart(h, ch2)
  BY <1>1, <1>2, <1>3 DEF Conn, Life, Held, Apart
<1>5. Heard(st, lg, h, ch2)
  BY <1>1, <1>2 DEF Conn, Heard
<1> QED BY <1>1, <1>2, <1>4, <1>5 DEF Conn, ch2

(* A connection that does not run, and one that is just accepted. *)
LEMMA ConnClosed ==
    ASSUME NEW st, NEW lg
    PROVE  /\ Conn(st, lg, Free, Closed)
           /\ \A a \in 0 .. MaxEvents, u \in SUBSET Ids :
                (\A i \in DOMAIN lg : lg[i].stage = "published" /\ i > a => i \in u)
                => Conn(st, lg, [Free EXCEPT !.pc = "replay", !.after = a, !.unreplayed = u], [open |-> TRUE, buf |-> <<>>])
           /\ \A h \in Handler : \A ch : Conn(st, lg, h, ch) => Conn(st, lg, [h EXCEPT !.pc = "ended"], Closed)
<1>1. Conn(st, lg, Free, Closed)
  BY EmptySet DEF Conn, Life, Held, Single, Given, Apart, Replayed, Heard, Free, Closed
<1>2. ASSUME NEW a \in 0 .. MaxEvents, NEW u \in SUBSET Ids, \A i \in DOMAIN lg : lg[i].stage = "published" /\ i > a => i \in u
      PROVE  Conn(st, lg, [Free EXCEPT !.pc = "replay", !.after = a, !.unreplayed = u], [open |-> TRUE, buf |-> <<>>])
  BY <1>2, EmptySet DEF Conn, Life, Held, Single, Given, Apart, Replayed, Heard, Free
<1>3. ASSUME NEW h \in Handler, NEW ch, Conn(st, lg, h, ch) PROVE Conn(st, lg, [h EXCEPT !.pc = "ended"], Closed)
  <2> DEFINE g == [h EXCEPT !.pc = "ended"]
  <2>1. g.pc = "ended" /\ g.sent = h.sent /\ g.delivered = h.delivered /\ g.after = h.after
    BY DEF Handler
  <2>2. ToSet(Closed.buf) = {} /\ Single(Closed.buf)
    BY EmptySet DEF Closed, Single
  <2> HIDE DEF g
  <2>3. Life(g, Closed)
    BY <2>1 DEF Life
  <2>4. Held(st, lg, Closed) /\ Apart(g, Closed)
    BY <2>2 DEF Held, Apart
  <2>5. Given(st, lg, g) /\ Replayed(g) /\ Single(g.sent)
    BY <1>3, <2>1 DEF Conn, Given, Replayed
  <2>6. Heard(st, lg, g, Closed)
    BY DEF Heard, Closed
  <2> QED BY <2>2, <2>3, <2>4, <2>5, <2>6 DEF Conn, g
<1> QED BY <1>1, <1>2, <1>3

(* The loop forwards the head of the channel, or passes it over. *)
LEMMA ConnStream ==
    ASSUME NEW lg, NEW st, NEW h \in Handler, NEW ch \in Channel, NEW s, Conn(st, lg, h, ch), ch.buf # <<>>, h.pc = "stream",
           s = IF Head(ch.buf) = Summary
                  \/ (CanSee(st.granted, lg[Head(ch.buf)].kind.type) /\ Head(ch.buf) \notin h.delivered)
               THEN Append(h.sent, Head(ch.buf)) ELSE h.sent
    PROVE  Conn(st, lg, [h EXCEPT !.sent = s], [ch EXCEPT !.buf = Tail(@)])
<1> DEFINE e == Head(ch.buf)
           b == Tail(ch.buf)
           h2 == [h EXCEPT !.sent = s]
           ch2 == [ch EXCEPT !.buf = Tail(@)]
<1>1. ch.buf \in Seq(0 .. MaxEvents) /\ h.sent \in Seq(0 .. MaxEvents + 1)
  BY DEF Channel, Handler
<1>2. /\ b \in Seq(0 .. MaxEvents) /\ e \in 0 .. MaxEvents /\ (\A x : x \in ToSet(ch.buf) <=> x = e \/ x \in ToSet(b))
      /\ Single(b) /\ (e # Summary => e \notin ToSet(b))
  BY <1>1, TailSet, SingleTail DEF Conn
<1>3. h2.pc = h.pc /\ h2.sent = s /\ h2.delivered = h.delivered /\ h2.after = h.after
      /\ h2.unreplayed = h.unreplayed /\ ch2.buf = b /\ ch2.open = ch.open
  BY DEF Handler, Channel
<1>4. e \in 0 .. MaxEvents + 1 /\ e # Resync
  BY <1>2, Bounds
<1> DEFINE forward == e = Summary \/ (CanSee(st.granted, lg[e].kind.type) /\ e \notin h.delivered)
<1>5. s = IF forward THEN Append(h.sent, e) ELSE h.sent
  OBVIOUS
<1>6. forward => (\A x : x \in ToSet(Append(h.sent, e)) <=> x \in ToSet(h.sent) \/ x = e)
  <2>1. \A x : x \in ToSet(Append(h.sent, e)) <=> x \in ToSet(h.sent) \/ x = e
    <3>1. ASSUME NEW q \in 0 .. MaxEvents + 1
          PROVE  \A x : x \in ToSet(Append(h.sent, q)) <=> x \in ToSet(h.sent) \/ x = q
      <4> DEFINE T == 0 .. MaxEvents + 1
      <4>1. h.sent \in Seq(T) /\ q \in T
        BY <1>1
      <4> HIDE DEF T
      <4> QED BY ONLY <4>1, AppendMembers
    <3> QED BY <1>4, <3>1
  <2> QED BY <2>1
<1>h. e # Summary => e \in DOMAIN lg /\ lg[e].stage = "published" /\ Matches(st.scopes, lg[e].kind) /\ ~IsNoise(lg[e].kind)
  BY <1>2 DEF Conn, Held
<1>a. e # Summary /\ e \notin h.delivered => e \notin ToSet(h.sent)
  BY <1>2 DEF Conn, Apart
<1> HIDE DEF e, b, h2, ch2
<1>7. Single(s) /\ \A x : x \in ToSet(s) <=> x \in ToSet(h.sent) \/ (x = e /\ forward)
  <2>1. CASE forward
    <3>1. e = Summary \/ e \notin ToSet(h.sent)
      BY <1>a, <2>1
    <3>2. Single(h.sent)
      BY DEF Conn
    <3> QED BY <1>1, <1>4, <1>5, <1>6, <2>1, <3>1, <3>2, SingleAppend
  <2>2. CASE ~forward
    BY <1>5, <2>2 DEF Conn
  <2> QED BY <2>1, <2>2
<1>8. Life(h2, ch2) /\ Held(st, lg, ch2) /\ Replayed(h2) /\ Apart(h2, ch2)
  <2>1. Life(h2, ch2)
    BY <1>2, <1>3 DEF Conn, Life
  <2>2. Held(st, lg, ch2)
    BY <1>2, <1>3 DEF Conn, Held
  <2>3. Replayed(h2)
    BY <1>3, <1>7 DEF Conn, Replayed
  <2>4. Apart(h2, ch2)
    BY <1>2, <1>3, <1>7 DEF Conn, Apart
  <2> QED BY <2>1, <2>2, <2>3, <2>4
<1>9. Given(st, lg, h2)
  <2> SUFFICES ASSUME NEW j \in ToSet(s) \ {Summary, Resync}
               PROVE  j \in DOMAIN lg /\ Owed(st, lg[j].kind) /\ (j \in h.delivered \/ lg[j].stage = "published")
    BY <1>3 DEF Given
  <2>1. CASE j \in ToSet(h.sent)
    BY <2>1 DEF Conn, Given
  <2>2. CASE j = e /\ forward
    BY <1>h, <2>2 DEF Owed
  <2> QED BY <1>7, <2>1, <2>2
<1>10. Heard(st, lg, h2, ch2)
  <2> SUFFICES ASSUME NEW j \in DOMAIN lg, ch.open, Resync \notin ToSet(s),
                      lg[j].stage = "published", j > h.after, j \notin h.unreplayed, Owed(st, lg[j].kind),
                      PriorityOfEvent(lg[j].kind) # "informational"
               PROVE  j \in ToSet(s) \cup ToSet(b)
    BY <1>3 DEF Heard
  <2>1. j \in ToSet(h.sent) \cup ToSet(ch.buf)
    BY <1>7 DEF Conn, Heard
  <2>2. CASE j \in ToSet(h.sent) \cup ToSet(b)
    BY <1>7, <2>2
  <2>3. CASE j = e
    <3>1. CASE e \in h.delivered
      BY <1>7, <2>3, <3>1 DEF Conn, Replayed
    <3>2. CASE e \notin h.delivered
      BY <1>7, <2>3, <3>2 DEF Owed
    <3> QED BY <3>1, <3>2
  <2> QED BY <1>2, <2>1, <2>2, <2>3
<1> QED BY <1>2, <1>3, <1>7, <1>8, <1>9, <1>10 DEF Conn, h2, ch2

(* The replay sends what is owed and visible, once, or only the resync frame. *)
LEMMA ConnReplay ==
    ASSUME TypeInv, NEW c \in Conns, Conn(setting, log, handler[c], hub[c]), Replay(c)
    PROVE  Conn(setting, log, handler'[c], hub[c])
<1>t. handler \in [Conns -> Handler] /\ hub \in [Conns -> Channel]
  BY TypesOf
<1>0. handler[c].pc = "replay"
  BY DEF Replay
<1> DEFINE rows == ReplayRows(c)
           one == InOrder(rows)
           two == Append(one, Summary)
           h == handler[c]
           ch == hub[c]
<1>1. PICK h2 : /\ handler' = [handler EXCEPT ![c] = h2]
                /\ \/ h2 = [h EXCEPT !.pc = "stream", !.unreplayed = {}, !.sent = <<Resync>>]
                   \/ h2 = [h EXCEPT !.pc = "stream", !.unreplayed = {}, !.delivered = rows, !.sent = one]
                   \/ h2 = [h EXCEPT !.pc = "stream", !.unreplayed = {}, !.delivered = rows, !.sent = two]
  BY ReplayCases, Zenon
<1>2. handler'[c] = h2
  BY <1>t, <1>1
<1>3. /\ rows \in SUBSET Nat /\ IsFiniteSet(rows) /\ rows \subseteq DOMAIN log /\ rows \subseteq Ids
      /\ one \in Seq(0 .. MaxEvents + 1)
  BY ReplayFrames
<1>4. ToSet(one) = rows /\ Len(one) = Cardinality(rows) /\ \A x, y \in 1 .. Cardinality(rows) : x < y => one[x] < one[y]
  BY <1>3, Ordered
<1>5. \A n \in 1 .. Len(one) : one[n] \in rows
  <2>1. one \in [1 .. Cardinality(rows) -> rows]
    BY <1>3, Ordered
  <2> QED BY <1>4, <2>1
<1>o. \A i \in DOMAIN log : /\ i \in rows => Owed(setting, log[i].kind)
                            /\ (Owed(setting, log[i].kind) /\ log[i].stage = "published" /\ i > h.after) => i \in rows
  BY RowsAreOwed
<1>c. /\ Held(setting, log, ch) /\ Single(ch.buf) /\ Life(h, ch) /\ h.sent = <<>> /\ h.delivered = {} /\ h \in Handler
      /\ ch.buf \in Seq(0 .. MaxEvents)
  BY <1>0, <1>t DEF Conn, Life, Channel
<1>b. Resync \notin Ids /\ Summary \notin Ids /\ Resync # Summary /\ ToSet(ch.buf) \subseteq 0 .. MaxEvents
      /\ Resync \notin 0 .. MaxEvents
  BY <1>c, SeqElements, Bounds
<1> HIDE DEF rows, one, two, h, ch
<1>6. Single(one)
  <2>1. DOMAIN one = 1 .. Len(one) /\ Len(one) \in Nat
    BY <1>3
  <2>2. \A x, y \in 1 .. Len(one) : x # y => one[x] # one[y]
    <3> SUFFICES ASSUME NEW x \in 1 .. Len(one), NEW y \in 1 .. Len(one), x # y PROVE one[x] # one[y]
      OBVIOUS
    <3>1. x < y \/ y < x
      BY <2>1
    <3>2. one[x] \in Nat /\ one[y] \in Nat
      BY <1>3, <1>5
    <3> QED BY <1>4, <3>1, <3>2
  <2> QED BY <2>1, <2>2 DEF Single
<1>7. Single(two) /\ \A x : x \in ToSet(two) <=> x \in rows \/ x = Summary
  <2> DEFINE T == 0 .. MaxEvents + 1
  <2>1. one \in Seq(T) /\ Summary \in T
    BY <1>3, Bounds
  <2> HIDE DEF T
  <2>2. \A x : x \in ToSet(Append(one, Summary)) <=> x \in ToSet(one) \/ x = Summary
    BY ONLY <2>1, AppendMembers
  <2>3. Single(Append(one, Summary))
    BY <1>6, <2>1, SingleAppend
  <2> QED BY <1>4, <2>2, <2>3 DEF two
<1>8. ASSUME NEW s, h2 = [h EXCEPT !.pc = "stream", !.unreplayed = {}, !.delivered = rows, !.sent = s], Single(s),
             \A x : x \in rows => x \in ToSet(s), \A x : x \in ToSet(s) => x \in rows \/ x = Summary
      PROVE  Conn(setting, log, h2, ch)
  <2>1. h2.pc = "stream" /\ h2.sent = s /\ h2.delivered = rows /\ h2.after = h.after
    BY <1>c, <1>8 DEF Handler
  <2>2. Life(h2, ch) /\ Replayed(h2) /\ Apart(h2, ch)
    BY <1>8, <2>1 DEF Life, Replayed, Apart
  <2>3. Given(setting, log, h2)
    <3> SUFFICES ASSUME NEW i \in ToSet(s) \ {Summary, Resync}
                 PROVE  i \in DOMAIN log /\ Owed(setting, log[i].kind) /\ i \in rows
      BY <2>1 DEF Given
    <3>1. i \in rows
      BY <1>8
    <3> QED BY <1>3, <1>o, <3>1
  <2>4. Heard(setting, log, h2, ch)
    BY <1>8, <1>o, <2>1 DEF Heard
  <2> QED BY <1>8, <1>c, <2>1, <2>2, <2>3, <2>4 DEF Conn
<1>9. CASE h2 = [h EXCEPT !.pc = "stream", !.unreplayed = {}, !.sent = <<Resync>>]
  <2>1. h2.pc = "stream" /\ h2.sent = <<Resync>> /\ h2.delivered = {} /\ h2.after = h.after
    BY <1>c, <1>9 DEF Handler
  <2>2. ToSet(<<Resync>>) = {Resync} /\ Single(<<Resync>>)
    BY DEF ToSet, Single
  <2>3. Life(h2, ch) /\ Replayed(h2) /\ Given(setting, log, h2)
    BY <2>1, <2>2 DEF Life, Replayed, Given
  <2>4. Apart(h2, ch)
    BY <1>b, <2>1, <2>2 DEF Apart
  <2>5. Heard(setting, log, h2, ch)
    BY <2>1, <2>2 DEF Heard
  <2>6. Conn(setting, log, h2, ch)
    BY <1>c, <2>1, <2>2, <2>3, <2>4, <2>5 DEF Conn
  <2> QED BY <1>2, <2>6 DEF ch
<1>10. CASE h2 = [h EXCEPT !.pc = "stream", !.unreplayed = {}, !.delivered = rows, !.sent = one]
  <2>1. Conn(setting, log, h2, ch)
    BY <1>4, <1>6, <1>8, <1>10
  <2> QED BY <1>2, <2>1 DEF ch
<1>11. CASE h2 = [h EXCEPT !.pc = "stream", !.unreplayed = {}, !.delivered = rows, !.sent = two]
  <2>1. Conn(setting, log, h2, ch)
    BY <1>7, <1>8, <1>11
  <2> QED BY <1>2, <2>1 DEF ch
<1> QED BY <1>1, <1>9, <1>10, <1>11

(* A step in which the log does not move. *)
LEMMA ConnOthers ==
    ASSUME TypeInv, ConnInv, NEW c \in Conns, UNCHANGED <<log, setting>>,
           \A d \in Conns : d # c => handler'[d] = handler[d] /\ hub'[d] = hub[d],
           Conn(setting, log, handler'[c], hub'[c])
    PROVE  ConnInv'
<1>1. ASSUME NEW d \in Conns PROVE Conn(setting, log, handler'[d], hub'[d])
  BY DEF ConnInv
<1>2. ASSUME NEW d \in Conns PROVE Conn(setting', log', handler'[d], hub'[d])
  BY <1>1
<1> QED BY <1>2 DEF ConnInv

(* A step of the log: nothing is published, or one event is. *)
LEMMA ConnLogStep == ASSUME TypeInv, ConnInv, Insert \/ LogStep PROVE ConnInv'
<1>t. /\ log \in Seq([kind : setting.kinds, stage : Stages]) /\ Len(log) \in 0 .. MaxEvents /\ DOMAIN log = 1 .. Len(log)
      /\ hub \in [Conns -> Channel] /\ handler \in [Conns -> Handler] /\ DOMAIN log \subseteq Ids
      /\ \A i \in DOMAIN log : log[i].kind \in setting.kinds /\ log[i].stage \in Stages
  BY TypesOf
<1>u. UNCHANGED <<handler, setting>>
  BY DEF Insert, LogStep, Commit, Publish, server
<1>1. ASSUME UNCHANGED hub, DOMAIN log \subseteq DOMAIN log',
             \A i \in DOMAIN log : log'[i].kind = log[i].kind /\ (log[i].stage = "published" => log'[i].stage = "published"),
             \A i \in DOMAIN log' : log'[i].stage = "published" => i \in DOMAIN log /\ log[i].stage = "published"
      PROVE  ConnInv'
  <2> SUFFICES ASSUME NEW c \in Conns PROVE Conn(setting', log', handler'[c], hub'[c])
    BY DEF ConnInv
  <2>1. Conn(setting, log, handler[c], hub[c])
    BY DEF ConnInv
  <2>2. Conn(setting, log', handler[c], hub[c])
    BY <1>1, <2>1, ConnLog
  <2> QED BY <1>1, <1>u, <2>2
<1>2. CASE Insert
  <2> PICK k \in setting.kinds : log' = Append(log, [kind |-> k, stage |-> "inserting"])
    BY <1>2 DEF Insert
  <2>1. [kind |-> k, stage |-> "inserting"] \in [kind : setting.kinds, stage : Stages]
    BY DEF Stages
  <2>2. /\ Len(log') = Len(log) + 1 /\ log'[Len(log) + 1] = [kind |-> k, stage |-> "inserting"]
        /\ \A n \in 1 .. Len(log) : log'[n] = log[n]
        /\ log' \in Seq([kind : setting.kinds, stage : Stages])
    BY <1>t, <2>1, AppendSet
  <2>3. DOMAIN log' = 1 .. Len(log) + 1 /\ Len(log) \in Nat
    BY <1>t, <2>2, Bounds
  <2>4. \A i \in DOMAIN log' : i \in DOMAIN log \/ i = Len(log) + 1
    BY <1>t, <2>3
  <2>5. log'[Len(log) + 1].stage # "published"
    BY <2>2
  <2>6. DOMAIN log \subseteq DOMAIN log'
    BY <1>t, <2>3
  <2>7. UNCHANGED hub
    BY <1>2 DEF Insert, server
  <2> QED BY <1>1, <1>t, <2>2, <2>4, <2>5, <2>6, <2>7
<1>3. ASSUME NEW i \in DOMAIN log, NEW s \in Stages, SetStage(i, s)
      PROVE  /\ DOMAIN log' = DOMAIN log /\ log'[i].kind = log[i].kind /\ log'[i].stage = s
             /\ \A j \in DOMAIN log : j # i => log'[j] = log[j]
  <2>1. log[i] \in [kind : setting.kinds, stage : Stages]
    BY <1>t, ElementOfSeq
  <2>2. log' = [log EXCEPT ![i] = [log[i] EXCEPT !.stage = s]]
    BY <1>3 DEF SetStage
  <2>3. log \in [1 .. Len(log) -> [kind : setting.kinds, stage : Stages]]
    <3> DEFINE S == [kind : setting.kinds, stage : Stages]
    <3>1. log \in Seq(S)
      BY <1>t
    <3> HIDE DEF S
    <3>2. log \in [1 .. Len(log) -> S]
      BY ONLY <3>1
    <3> QED BY <3>2 DEF S
  <2> QED BY <1>t, <2>1, <2>2, <2>3
<1>4. ASSUME NEW i \in DOMAIN log, NEW s \in Stages \ {"published"}, SetStage(i, s), log[i].stage # "published", UNCHANGED hub
      PROVE  ConnInv'
  <2>1. DOMAIN log' = DOMAIN log /\ log'[i].kind = log[i].kind /\ log'[i].stage = s /\ \A j \in DOMAIN log : j # i => log'[j] = log[j]
    BY <1>3, <1>4
  <2>2. \A j \in DOMAIN log : log'[j].kind = log[j].kind /\ (log[j].stage = "published" => log'[j].stage = "published")
    BY <1>4, <2>1
  <2>3. \A j \in DOMAIN log' : log'[j].stage = "published" => j \in DOMAIN log /\ log[j].stage = "published"
    BY <1>4, <2>1
  <2> QED BY <1>1, <1>4, <2>1, <2>2, <2>3
<1>5. ASSUME NEW i \in DOMAIN log, Commit(i) PROVE ConnInv'
  BY <1>4, <1>5 DEF Commit, Stages, server
<1>6. ASSUME NEW i \in DOMAIN log, Publish(i) PROVE ConnInv'
  <2>1. log[i].stage = "recorded"
    BY <1>6 DEF Publish
  <2>2. CASE UNCHANGED hub /\ (SetStage(i, "unstreamed") \/ SetStage(i, "coalesced"))
    BY <1>4, <2>1, <2>2 DEF Stages
  <2>3. CASE /\ SetStage(i, "published") /\ ~IsNoise(log[i].kind)
             /\ hub' = [c \in Conns |-> IF hub[c].open /\ Matches(setting.scopes, log[i].kind)
                                        THEN Offer(hub[c], i, log[i].kind) ELSE hub[c]]
    <3> SUFFICES ASSUME NEW c \in Conns PROVE Conn(setting', log', handler'[c], hub'[c])
      BY DEF ConnInv
    <3>1. Conn(setting, log, handler[c], hub[c])
      BY DEF ConnInv
    <3>2. "published" \in Stages
      BY DEF Stages
    <3>3. DOMAIN log' = DOMAIN log /\ log'[i].kind = log[i].kind /\ log'[i].stage = "published"
          /\ \A j \in DOMAIN log : j # i => log'[j] = log[j]
      BY <1>3, <2>3, <3>2
    <3>4. \A j \in DOMAIN log : log'[j].kind = log[j].kind /\ (j # i => log'[j] = log[j])
      BY <3>3
    <3>5. hub'[c] = IF hub[c].open /\ Matches(setting.scopes, log[i].kind) THEN Offer(hub[c], i, log[i].kind) ELSE hub[c]
      BY <2>3
    <3>6. handler[c] \in Handler /\ hub[c] \in Channel /\ i \in Ids
      BY <1>t
    <3>7. Conn(setting, log', handler[c], hub'[c])
      BY <2>1, <2>3, <3>1, <3>3, <3>4, <3>5, <3>6, ConnPublish, ZenonT(60)
    <3> QED BY <1>u, <3>7
  <2> QED BY <1>6, <2>2, <2>3 DEF Publish
<1> QED BY <1>2, <1>5, <1>6 DEF LogStep

LEMMA ConnServerStep == ASSUME TypeInv, ConnInv, FireSummary \/ ServerStep \/ \E c \in Conns : Accept(c) PROVE ConnInv'
<1>t. hub \in [Conns -> Channel] /\ handler \in [Conns -> Handler]
  BY TypesOf
<1>u. UNCHANGED <<log, setting>>
  BY DEF FireSummary, ServerStep, Accept, Replay, ReplayFails, Stream, Return, logger
<1>1. CASE FireSummary
  <2> SUFFICES ASSUME NEW c \in Conns PROVE Conn(setting', log', handler'[c], hub'[c])
    BY DEF ConnInv
  <2>1. Conn(setting, log, handler[c], hub[c]) /\ hub[c] \in Channel /\ handler[c] \in Handler
    BY <1>t DEF ConnInv
  <2>2. hub'[c] = IF hub[c].open /\ WantsSummary(setting.scopes) /\ Len(hub[c].buf) < Buffer
                  THEN [hub[c] EXCEPT !.buf = Append(@, Summary)] ELSE hub[c]
    BY <1>1 DEF FireSummary
  <2>3. hub[c].open => Conn(setting, log, handler[c], [hub[c] EXCEPT !.buf = Append(@, Summary)])
    BY <2>1, ConnSummary
  <2>4. Conn(setting, log, handler[c], hub'[c])
    BY <2>1, <2>2, <2>3
  <2> QED BY <1>1, <1>u, <2>4 DEF FireSummary
<1>2. ASSUME NEW c \in Conns, Accept(c) PROVE ConnInv'
  <2> DEFINE u == {i \in Projected : i > After}
  <2>1. /\ hub'[c] = [open |-> TRUE, buf |-> <<>>]
        /\ handler'[c] = [Free EXCEPT !.pc = "replay", !.after = After, !.unreplayed = u]
        /\ \A d \in Conns : d # c => handler'[d] = handler[d] /\ hub'[d] = hub[d]
    BY <1>t, <1>2 DEF Accept
  <2>2. After \in 0 .. MaxEvents /\ u \in SUBSET Ids
    BY AfterType
  <2>3. \A i \in DOMAIN log : log[i].stage = "published" /\ i > After => i \in u
    BY DEF Projected, Visible
  <2> HIDE DEF u
  <2>4. Conn(setting, log, [Free EXCEPT !.pc = "replay", !.after = After, !.unreplayed = u], [open |-> TRUE, buf |-> <<>>])
    <3>1. \A a \in 0 .. MaxEvents, v \in SUBSET Ids :
             (\A i \in DOMAIN log : log[i].stage = "published" /\ i > a => i \in v)
             => Conn(setting, log, [Free EXCEPT !.pc = "replay", !.after = a, !.unreplayed = v], [open |-> TRUE, buf |-> <<>>])
      BY ConnClosed
    <3> QED BY <2>2, <2>3, <3>1, Zenon
  <2>5. Conn(setting, log, handler'[c], hub'[c])
    BY <2>1, <2>4
  <2> QED BY <1>u, <2>1, <2>5, ConnOthers
<1>3. ASSUME NEW c \in Conns, Return(c) PROVE ConnInv'
  <2>1. hub'[c] = Closed /\ handler'[c] = (IF client.conn = c THEN [handler[c] EXCEPT !.pc = "ended"] ELSE Free)
        /\ \A d \in Conns : d # c => handler'[d] = handler[d] /\ hub'[d] = hub[d]
    BY <1>t, <1>3 DEF Return
  <2>2. Conn(setting, log, handler[c], hub[c]) /\ handler[c] \in Handler
    BY <1>t DEF ConnInv
  <2>3. Conn(setting, log, [handler[c] EXCEPT !.pc = "ended"], Closed)
    BY <2>2, ConnClosed
  <2>4. Conn(setting, log, handler'[c], hub'[c])
    BY <2>1, <2>3, ConnClosed
  <2> QED BY <1>u, <2>1, <2>4, ConnOthers
<1>4. ASSUME NEW c \in Conns, Replay(c) PROVE ConnInv'
  <2>1. Conn(setting, log, handler[c], hub[c])
    BY DEF ConnInv
  <2>2. Conn(setting, log, handler'[c], hub[c])
    BY <1>4, <2>1, ConnReplay
  <2>3. UNCHANGED hub
    BY <1>4 DEF Replay
  <2>4. \A d \in Conns : d # c => handler'[d] = handler[d]
    BY <1>t, <1>4 DEF Replay
  <2> QED BY <1>u, <2>2, <2>3, <2>4, ConnOthers
<1>6. ASSUME NEW c \in Conns, ReplayFails(c) PROVE ConnInv'
  <2>1. /\ handler[c].pc = "replay" /\ handler'[c].pc = "stream" /\ UNCHANGED hub
        /\ \A d \in Conns : d # c => handler'[d] = handler[d]
        /\ handler'[c].after = handler[c].after /\ handler'[c].unreplayed = handler[c].unreplayed
        /\ handler'[c].delivered = handler[c].delivered /\ handler'[c].sent = handler[c].sent
    BY <1>6, FailedHandler
  <2>2. Conn(setting, log, handler[c], hub[c])
    BY DEF ConnInv
  <2>3. Conn(setting, log, handler'[c], hub[c])
    BY <2>1, <2>2 DEF Conn, Life, Given, Apart, Replayed, Heard
  <2> QED BY <1>u, <2>1, <2>3, ConnOthers
<1>5. ASSUME NEW c \in Conns, Stream(c) PROVE ConnInv'
  <2> DEFINE s == IF Head(hub[c].buf) = Summary
                     \/ (CanSee(setting.granted, log[Head(hub[c].buf)].kind.type) /\ Head(hub[c].buf) \notin handler[c].delivered)
                  THEN Append(handler[c].sent, Head(hub[c].buf)) ELSE handler[c].sent
  <2>1. /\ handler[c].pc = "stream" /\ hub[c].buf # <<>>
        /\ hub'[c] = [hub[c] EXCEPT !.buf = Tail(@)] /\ handler'[c] = [handler[c] EXCEPT !.sent = s]
        /\ \A d \in Conns : d # c => handler'[d] = handler[d] /\ hub'[d] = hub[d]
    BY <1>t, <1>5 DEF Stream, Forward
  <2>2. Conn(setting, log, handler[c], hub[c]) /\ handler[c] \in Handler /\ hub[c] \in Channel
    BY <1>t DEF ConnInv
  <2>3. Conn(setting, log, [handler[c] EXCEPT !.sent = s], [hub[c] EXCEPT !.buf = Tail(@)])
    BY <2>1, <2>2, ConnStream
  <2>4. Conn(setting, log, handler'[c], hub'[c])
    BY <2>1, <2>3
  <2> QED BY <1>u, <2>1, <2>4, ConnOthers
<1> QED BY <1>1, <1>2, <1>3, <1>4, <1>5, <1>6 DEF ServerStep

LEMMA ConnStep == ASSUME TypeInv, ConnInv, [Next]_vars PROVE ConnInv'
<1>1. CASE UNCHANGED <<log, setting, handler, hub>>
  BY <1>1 DEF ConnInv
<1>2. CASE SnapshotArrives \/ EndOfStream \/ Drop
  <2>1. Leave /\ client.conn \in Conns /\ UNCHANGED <<log, setting, hub>>
    BY <1>2 DEF SnapshotArrives, EndOfStream, Drop, HasFrame, TypeInv, Connection, Attached, Leave, logger
  <2>2. handler \in [Conns -> Handler]
    BY TypesOf
  <2>3. handler' = [handler EXCEPT ![client.conn] = IF handler[client.conn].pc = "ended" THEN Free ELSE handler[client.conn]]
    BY <2>1 DEF Leave
  <2>4. Conn(setting, log, handler[client.conn], hub[client.conn])
    BY <2>1 DEF ConnInv
  <2>5. handler[client.conn].pc = "ended" => hub[client.conn] = Closed
    BY <2>4 DEF Conn, Life
  <2>6. handler'[client.conn] = (IF handler[client.conn].pc = "ended" THEN Free ELSE handler[client.conn])
        /\ \A d \in Conns : d # client.conn => handler'[d] = handler[d]
    BY <2>1, <2>2, <2>3
  <2>7. Conn(setting, log, handler'[client.conn], hub'[client.conn])
    BY <2>1, <2>4, <2>5, <2>6, ConnClosed
  <2> QED BY <2>1, <2>6, <2>7, ConnOthers
<1>3. CASE Next
  <2>1. CASE ServerStep
    BY <2>1, ConnServerStep
  <2>2. CASE LogStep \/ Insert
    BY <2>2, ConnLogStep
  <2>3. CASE FireSummary
    BY <2>3, ConnServerStep
  <2>4. CASE Reload \/ Poll \/ Tick
    BY <2>4, <1>1 DEF Reload, Poll, Tick, server, logger
  <2>5. CASE \E c \in Conns : Ping(c)
    BY <2>5, <1>1 DEF Ping, vars
  <2>6. CASE ClientStep
    <3>1. CASE Mount \/ Handoff \/ Connected \/ ReadEvent \/ ReadResync
      BY <3>1, <1>1 DEF Mount, Handoff, Connected, ReadEvent, ReadResync, server, logger
    <3>2. CASE \E c \in Conns : Accept(c)
      BY <3>2, ConnServerStep
    <3> QED BY <2>6, <3>1, <3>2, <1>2 DEF ClientStep
  <2>7. CASE Drop
    BY <2>7, <1>2
  <2> QED BY <1>3, <2>1, <2>2, <2>3, <2>4, <2>5, <2>6, <2>7 DEF Next
<1> QED BY <1>1, <1>3 DEF vars

LEMMA ConnAlways == Spec => []ConnInv
<1>1. Init => ConnInv
  BY ConnClosed DEF Init, ConnInv
<1>2. TypeInv /\ ConnInv /\ [Next]_vars => ConnInv'
  BY ConnStep
<1> QED BY <1>1, <1>2, TypeAlways, PTL DEF Spec

(* Every connection is sent exactly what its caller is owed: no published fact   *)
(* between the replay and the channel is left out, none is sent twice, and      *)
(* nothing that the caller may not read or did not ask for                    *)
(* (live_handler.go:117-215, live_hub.go:330-378).  A replay query may fail at  *)
(* any subscription (live_handler.go:195-196): what was projected after the   *)
(* cursor before that subscription is then not sent, and that is all.         *)
THEOREM StreamHolds == Spec => []StreamExact
<1>1. TypeInv /\ ConnInv => StreamExact
  <2> SUFFICES ASSUME TypeInv, ConnInv PROVE StreamExact
    OBVIOUS
  <2>1. \A k : Due(k) <=> Owed(setting, k)
    BY DEF Due, Owed
  <2>2. NoUnheardFact
    BY <2>1 DEF ConnInv, Conn, Heard, NoUnheardFact, Sent
  <2>3. SentOnce
    BY DEF ConnInv, Conn, Single, SentOnce
  <2>4. OnlyAuthorised
    BY <2>1 DEF ConnInv, Conn, Given, OnlyAuthorised, Sent
  <2> QED BY <2>2, <2>3, <2>4 DEF StreamExact, TypeInv
<1> QED BY <1>1, TypeAlways, ConnAlways, PTL

-----------------------------------------------------------------------------
(* The page: what a step does to the log, and to what is derived from it. *)
LEMMA InsertFacts ==
    ASSUME TypeInv, Insert
    PROVE  \E k \in setting.kinds :
             /\ DOMAIN log' = DOMAIN log \cup {Len(log) + 1} /\ Len(log) + 1 \notin DOMAIN log /\ Len(log') = Len(log) + 1
             /\ Len(log) \in Nat
             /\ log'[Len(log) + 1] = [kind |-> k, stage |-> "inserting"]
             /\ \A n \in DOMAIN log : log'[n] = log[n]
             /\ Visible' = Visible /\ Projected' = Projected /\ InLog' = InLog \cup {Len(log) + 1}
<1>t. /\ log \in Seq([kind : setting.kinds, stage : Stages]) /\ Len(log) \in 0 .. MaxEvents /\ DOMAIN log = 1 .. Len(log)
  BY TypesOf
<1> PICK k \in setting.kinds : log' = Append(log, [kind |-> k, stage |-> "inserting"])
  BY DEF Insert
<1>1. [kind |-> k, stage |-> "inserting"] \in [kind : setting.kinds, stage : Stages]
  BY DEF Stages
<1>2. /\ Len(log') = Len(log) + 1 /\ log'[Len(log) + 1] = [kind |-> k, stage |-> "inserting"]
      /\ \A n \in 1 .. Len(log) : log'[n] = log[n]
      /\ log' \in Seq([kind : setting.kinds, stage : Stages])
  BY <1>t, <1>1, AppendSet
<1>3. DOMAIN log' = 1 .. Len(log) + 1 /\ Len(log) \in Nat
  BY <1>t, <1>2, Bounds
<1>4. 1 .. Len(log) + 1 = (1 .. Len(log)) \cup {Len(log) + 1} /\ Len(log) + 1 \notin 1 .. Len(log)
  BY <1>3
<1> DEFINE n0 == Len(log) + 1
<1>5. /\ DOMAIN log' = DOMAIN log \cup {n0} /\ n0 \notin DOMAIN log /\ log'[n0].stage = "inserting"
      /\ \A n \in DOMAIN log : log'[n] = log[n]
  BY <1>t, <1>2, <1>3, <1>4
<1> HIDE DEF n0
<1>6. Visible' = Visible
  BY <1>5 DEF Visible
<1>7. Projected' = Projected
  BY <1>5, <1>6 DEF Projected, Visible
<1>8. InLog' = InLog \cup {n0}
  BY <1>5 DEF InLog
<1> QED BY <1>2, <1>3, <1>5, <1>6, <1>7, <1>8 DEF n0

LEMMA StageSet ==
    ASSUME TypeInv, NEW i \in DOMAIN log, NEW s \in Stages, SetStage(i, s)
    PROVE  /\ DOMAIN log' = DOMAIN log /\ log'[i].kind = log[i].kind /\ log'[i].stage = s /\ Len(log') = Len(log)
           /\ \A j \in DOMAIN log : j # i => log'[j] = log[j]
<1>t. /\ log \in Seq([kind : setting.kinds, stage : Stages]) /\ DOMAIN log = 1 .. Len(log)
  BY TypesOf
<1>1. log[i] \in [kind : setting.kinds, stage : Stages]
  BY <1>t, ElementOfSeq
<1>2. log' = [log EXCEPT ![i] = [log[i] EXCEPT !.stage = s]]
  BY DEF SetStage
<1>3. log \in [1 .. Len(log) -> [kind : setting.kinds, stage : Stages]]
  <2> DEFINE S == [kind : setting.kinds, stage : Stages]
  <2>1. log \in Seq(S)
    BY <1>t
  <2> HIDE DEF S
  <2>2. log \in [1 .. Len(log) -> S]
    BY ONLY <2>1
  <2> QED BY <2>2 DEF S
<1>4. [log[i] EXCEPT !.stage = s] \in [kind : setting.kinds, stage : Stages]
  BY <1>1
<1>5. Len(log') = Len(log)
  BY <1>t, <1>2, <1>4, ExceptSeq
<1> QED BY <1>t, <1>1, <1>2, <1>3, <1>5

LEMMA StageFacts ==
    ASSUME TypeInv, NEW i \in DOMAIN log, Commit(i) \/ Publish(i)
    PROVE  /\ DOMAIN log' = DOMAIN log /\ Len(log') = Len(log) /\ \A j \in DOMAIN log : log'[j].kind = log[j].kind
           /\ \A j \in DOMAIN log : j # i => log'[j] = log[j]
           /\ Visible \subseteq Visible' /\ Projected \subseteq Projected' /\ InLog' \subseteq InLog
           /\ i \in InLog /\ Projected' \subseteq Projected \cup {i}
           /\ Commit(i) => Projected' = Projected
           /\ Publish(i) => log'[i].stage \notin {"inserting", "recorded"}
           /\ UNCHANGED <<burst, handler, active, setting, page, client, drops>>
<1>1. CASE Commit(i)
  <2>1. "recorded" \in Stages /\ SetStage(i, "recorded") /\ log[i].stage = "inserting"
    BY <1>1 DEF Commit, Stages
  <2>2. /\ DOMAIN log' = DOMAIN log /\ log'[i].kind = log[i].kind /\ log'[i].stage = "recorded" /\ Len(log') = Len(log)
        /\ \A j \in DOMAIN log : j # i => log'[j] = log[j]
    BY <2>1, StageSet
  <2>3. Visible \subseteq Visible' /\ Projected' = Projected /\ InLog' \subseteq InLog /\ i \in InLog
    BY <2>1, <2>2 DEF Visible, Projected, InLog
  <2>4. ~Publish(i)
    BY <2>1 DEF Publish
  <2> QED BY <1>1, <2>2, <2>3, <2>4 DEF Commit, server
<1>2. CASE Publish(i)
  <2>1. log[i].stage = "recorded" /\ \E s \in {"unstreamed", "coalesced", "published"} : s \in Stages /\ SetStage(i, s)
    BY <1>2 DEF Publish, Stages
  <2>2. PICK s \in {"unstreamed", "coalesced", "published"} :
        /\ DOMAIN log' = DOMAIN log /\ log'[i].kind = log[i].kind /\ log'[i].stage = s /\ Len(log') = Len(log)
        /\ \A j \in DOMAIN log : j # i => log'[j] = log[j]
    BY <2>1, StageSet
  <2>3. Visible \subseteq Visible' /\ Projected \subseteq Projected' /\ Projected' \subseteq Projected \cup {i}
        /\ InLog' \subseteq InLog /\ i \in InLog
    BY <2>1, <2>2 DEF Visible, Projected, InLog
  <2>4. ~Commit(i)
    BY <2>1 DEF Commit
  <2> QED BY <1>2, <2>2, <2>3, <2>4 DEF Publish
<1> QED BY <1>1, <1>2

(* No step of the server, the page or the client but Insert and LogStep touches *)
(* the log, and none but Publish and Tick the windows of coalescing.          *)
LEMMA LogStill ==
    ASSUME [Next]_vars, ~Insert, ~LogStep
    PROVE  UNCHANGED <<log, setting>> /\ (~Tick => UNCHANGED <<recent, burst>>)
<1>1. CASE UNCHANGED vars
  BY <1>1 DEF vars
<1>2. CASE ServerStep
  BY <1>2 DEF ServerStep, Replay, ReplayFails, Stream, Return, logger
<1>3. CASE ClientStep
  <2>1. CASE Mount \/ Handoff \/ Connected \/ ReadEvent \/ ReadResync
    BY <2>1 DEF Mount, Handoff, Connected, ReadEvent, ReadResync, logger, server
  <2>2. CASE \E c \in Conns : Accept(c)
    BY <2>2 DEF Accept, logger
  <2>3. CASE SnapshotArrives \/ EndOfStream
    BY <2>3 DEF SnapshotArrives, EndOfStream, Leave, logger
  <2> QED BY <1>3, <2>1, <2>2, <2>3 DEF ClientStep
<1>4. CASE FireSummary \/ Drop
  BY <1>4 DEF FireSummary, Drop, Leave, logger
<1>5. CASE Reload \/ Poll \/ Tick
  BY <1>5 DEF Reload, Poll, Tick, logger, server
<1>6. CASE \E c \in Conns : Ping(c)
  BY <1>6 DEF Ping, vars
<1> QED BY <1>1, <1>2, <1>3, <1>4, <1>5, <1>6 DEF Next

(* The steps that are not the client's leave it alone, and the page too. *)
LEMMA PageStill ==
    ASSUME [Next]_vars, ~(Mount \/ Handoff \/ Connected \/ ReadEvent \/ ReadResync \/ SnapshotArrives \/ EndOfStream \/ Drop),
           ~(Reload \/ Poll \/ Tick)
    PROVE  UNCHANGED page /\ (client' = client \/ \E c \in Conns : Accept(c))
<1>1. CASE UNCHANGED vars
  BY <1>1 DEF vars
<1>2. CASE ServerStep \/ FireSummary
  BY <1>2 DEF ServerStep, FireSummary, Replay, ReplayFails, Stream, Return
<1>3. CASE Insert \/ LogStep
  BY <1>3 DEF Insert, LogStep, Commit, Publish
<1>4. CASE ClientStep
  BY <1>4 DEF ClientStep, Accept
<1>5. CASE \E c \in Conns : Ping(c)
  BY <1>5 DEF Ping, vars
<1> QED BY <1>1, <1>2, <1>3, <1>4, <1>5 DEF Next

-----------------------------------------------------------------------------
(* The ids of this tick.  What is not projected yet is among them, when Calm;   *)
(* a key whose window is open was published in it.                           *)
Window == {i \in DOMAIN log : i > Len(log) - burst}
WindowInv == InLog \subseteq Window /\ page.view \subseteq Projected /\ client.seen \subseteq DOMAIN log
SourceInv == \A key \in recent : \E j \in Window : log[j].stage = "published" /\ Key(log[j].kind) = key

LEMMA WindowMoves ==
    ASSUME TypeInv, Calm, [Next]_vars
    PROVE  /\ Insert => Window' = Window \cup {Len(log) + 1}
           /\ LogStep => Window' = Window
           /\ Tick => Window' = {}
           /\ ~(Insert \/ LogStep \/ Tick) => Window' = Window
           /\ Len(log) - burst <= Len(log') - burst'
<1>t. Len(log) \in 0 .. MaxEvents /\ DOMAIN log = 1 .. Len(log) /\ burst \in 0 .. MaxEvents
  BY TypesOf
<1>b. MaxEvents \in Nat
  BY Bounds
<1>1. ASSUME Insert PROVE Window' = Window \cup {Len(log) + 1} /\ Len(log) - burst <= Len(log') - burst'
  <2>1. DOMAIN log' = DOMAIN log \cup {Len(log) + 1} /\ Len(log') = Len(log) + 1 /\ burst' = burst + 1
    BY <1>1, InsertFacts DEF Insert
  <2>2. Len(log') - burst' = Len(log) - burst /\ Len(log) + 1 > Len(log) - burst
    BY <1>t, <1>b, <2>1
  <2> QED BY <1>t, <2>1, <2>2 DEF Window
<1>2. ASSUME LogStep PROVE Window' = Window /\ Len(log) - burst <= Len(log') - burst'
  <2>1. DOMAIN log' = DOMAIN log /\ Len(log') = Len(log) /\ burst' = burst
    BY <1>2, StageFacts DEF LogStep
  <2> QED BY <1>t, <1>b, <2>1 DEF Window
<1>3. ASSUME Tick, ~Insert, ~LogStep PROVE Window' = {} /\ Len(log) - burst <= Len(log') - burst'
  <2>1. log' = log /\ burst' = 0
    BY <1>3 DEF Tick
  <2> QED BY <1>t, <1>b, <2>1 DEF Window
<1>4. ASSUME ~Insert, ~LogStep, ~Tick PROVE Window' = Window /\ Len(log) - burst <= Len(log') - burst'
  <2>1. log' = log /\ burst' = burst
    BY <1>4, LogStill
  <2> QED BY <1>t, <1>b, <2>1 DEF Window
<1>5. Tick => ~Insert /\ ~LogStep
  <2>1. ASSUME Tick, Insert PROVE FALSE
    <3>1. Len(log') = Len(log) + 1 /\ log' = log
      BY <2>1, InsertFacts DEF Tick
    <3> QED BY <1>t, <1>b, <3>1
  <2>2. ASSUME Tick, LogStep PROVE FALSE
    <3>1. PICK i \in DOMAIN log : Commit(i) \/ Publish(i)
      BY <2>2 DEF LogStep
    <3>2. i \in InLog /\ InLog = {}
      BY <2>2, <3>1, StageFacts DEF Tick
    <3> QED BY <3>2
  <2> QED BY <2>1, <2>2
<1> QED BY <1>1, <1>2, <1>3, <1>4, <1>5

(* The frame that is read names an event of the log, or is the summary. *)
LEMMA FrameKnown ==
    ASSUME TypeInv, ConnInv, HasFrame, Frame # Resync
    PROVE  /\ Frame = Summary \/ (Frame \in DOMAIN log /\ Due(log[Frame].kind))
           /\ client.conn \in Conns
           /\ client.read + 1 \in 1 .. Len(handler[client.conn].sent) /\ client.read \in Nat
<1>1. client.conn \in Conns /\ client.read < Len(handler[client.conn].sent) /\ client.read \in Nat
      /\ handler[client.conn].sent \in Seq(0 .. MaxEvents + 1)
  BY TypesOf DEF HasFrame, TypeInv, Connection, Attached, Handler, Client
<1>2. client.read + 1 \in 1 .. Len(handler[client.conn].sent)
  BY <1>1
<1>3. Frame \in ToSet(handler[client.conn].sent)
  BY <1>1, <1>2, InSeq DEF Frame
<1>4. Frame = Summary \/ (Frame \in DOMAIN log /\ Owed(setting, log[Frame].kind))
  BY <1>1, <1>3 DEF ConnInv, Conn, Given
<1> QED BY <1>1, <1>2, <1>4 DEF Due, Owed

LEMMA WindowStep ==
    ASSUME TypeInv, ConnInv, Calm, WindowInv, SourceInv, [Next]_vars
    PROVE  WindowInv' /\ SourceInv'
<1>t. Len(log) \in 0 .. MaxEvents /\ DOMAIN log = 1 .. Len(log) /\ Projected \subseteq Visible /\ Visible \subseteq DOMAIN log
  BY TypesOf DEF Projected
<1>w. /\ Insert => Window' = Window \cup {Len(log) + 1}
      /\ LogStep => Window' = Window
      /\ Tick => Window' = {}
      /\ ~(Insert \/ LogStep \/ Tick) => Window' = Window
  BY WindowMoves
<1>1. CASE Insert
  <2>1. /\ DOMAIN log' = DOMAIN log \cup {Len(log) + 1} /\ \A n \in DOMAIN log : log'[n] = log[n]
        /\ Projected' = Projected /\ InLog' = InLog \cup {Len(log) + 1}
    BY <1>1, InsertFacts
  <2>2. UNCHANGED <<recent, page, client>>
    BY <1>1 DEF Insert
  <2>3. Window \subseteq DOMAIN log
    BY DEF Window
  <2>4. WindowInv'
    BY <1>1, <1>w, <2>1, <2>2 DEF WindowInv
  <2>5. SourceInv'
    BY <1>1, <1>w, <2>1, <2>2, <2>3 DEF SourceInv
  <2> QED BY <2>4, <2>5
<1>2. CASE LogStep
  <2> PICK i \in DOMAIN log : Commit(i) \/ Publish(i)
    BY <1>2 DEF LogStep
  <2>1. /\ DOMAIN log' = DOMAIN log /\ \A j \in DOMAIN log : log'[j].kind = log[j].kind
        /\ \A j \in DOMAIN log : j # i => log'[j] = log[j]
        /\ Projected \subseteq Projected' /\ InLog' \subseteq InLog /\ i \in InLog
        /\ UNCHANGED <<page, client>>
    BY StageFacts
  <2>2. WindowInv'
    BY <1>2, <1>w, <2>1 DEF WindowInv
  <2>3. i \in Window /\ Window \subseteq DOMAIN log
    BY <2>1 DEF WindowInv, Window
  <2>4. log[i].stage # "published"
    BY <2>1 DEF InLog
  <2>5. \A j \in Window : log[j].stage = "published" => log'[j] = log[j]
    BY <2>1, <2>3, <2>4
  <2>6. \A key \in recent' : key \in recent \/ (key = Key(log[i].kind) /\ log'[i].stage = "published")
    <3>1. CASE Commit(i)
      BY <3>1 DEF Commit
    <3>2. CASE Publish(i)
      <4>1. recent' = recent \/ (SetStage(i, "published") /\ recent' = recent \cup {Key(log[i].kind)})
        BY <3>2 DEF Publish
      <4>2. "published" \in Stages
        BY DEF Stages
      <4> QED BY <4>1, <4>2, StageSet
    <3> QED BY <3>1, <3>2
  <2>7. SourceInv'
    <3> SUFFICES ASSUME NEW key \in recent' PROVE \E j \in Window' : log'[j].stage = "published" /\ Key(log'[j].kind) = key
      BY DEF SourceInv
    <3>1. CASE key \in recent
      <4> PICK j \in Window : log[j].stage = "published" /\ Key(log[j].kind) = key
        BY <3>1 DEF SourceInv
      <4>1. log'[j] = log[j] /\ j \in Window'
        BY <1>2, <1>w, <2>5
      <4> QED BY <4>1
    <3>2. CASE key = Key(log[i].kind) /\ log'[i].stage = "published"
      BY <1>2, <1>w, <2>1, <2>3, <3>2
    <3> QED BY <2>6, <3>1, <3>2
  <2> QED BY <2>2, <2>7
<1>3. CASE ~Insert /\ ~LogStep
  <2>1. UNCHANGED log /\ (~Tick => UNCHANGED <<recent, burst>>)
    BY <1>3, LogStill
  <2>2. Projected' = Projected /\ InLog' = InLog
    BY <2>1 DEF Projected, Visible, InLog
  <2>3. SourceInv' /\ (Tick => InLog = {} /\ recent' = {})
    BY <1>3, <1>w, <2>1 DEF SourceInv, Tick
  <2>4. InLog' \subseteq Window'
    BY <1>3, <1>w, <2>2, <2>3 DEF WindowInv
  <2>5. page'.view = page.view \/ page'.view = Projected
    <3>1. page \in Page
      BY TypesOf
    <3>2. CASE Mount \/ Reload \/ Poll
      BY <3>1, <3>2 DEF Mount, Reload, Poll, Page
    <3>3. CASE Connected \/ ReadResync
      BY <3>1, <3>3 DEF Connected, CatchUp, ReadResync, Page
    <3>4. CASE ReadEvent
      <4>1. \E x : page' = [page EXCEPT !.timer = x]
        BY <3>4 DEF ReadEvent
      <4> QED BY <3>1, <4>1 DEF Page
    <3>5. CASE SnapshotArrives \/ EndOfStream \/ Drop
      <4>1. \E x : page' = [page EXCEPT !.dirty = x]
        BY <3>5 DEF SnapshotArrives, EndOfStream, Drop, Leave
      <4> QED BY <3>1, <4>1 DEF Page
    <3>6. CASE Tick
      <4>1. \E x : page' = [page EXCEPT !.timer = x]
        BY <3>6 DEF Tick
      <4> QED BY <3>1, <4>1 DEF Page
    <3>7. CASE Handoff
      BY <3>7 DEF Handoff
    <3> QED BY <3>2, <3>3, <3>4, <3>5, <3>6, <3>7, PageStill
  <2>6. client'.seen \subseteq DOMAIN log
    <3>1. client \in Client /\ client.seen \subseteq DOMAIN log
      BY TypesOf DEF WindowInv
    <3>2. CASE Mount \/ Handoff \/ Connected \/ ReadResync
      BY <3>1, <3>2 DEF Mount, Handoff, Connected, ReadResync, Client
    <3>3. CASE ReadEvent
      <4>1. client'.seen = client.seen \cup ({Frame} \ {Summary})
        BY <3>1, <3>3 DEF ReadEvent, Client
      <4>2. Frame = Summary \/ Frame \in DOMAIN log
        BY <3>3, FrameKnown DEF ReadEvent
      <4> QED BY <3>1, <4>1, <4>2
    <3>4. CASE SnapshotArrives \/ EndOfStream \/ Drop
      BY <3>1, <3>4 DEF SnapshotArrives, EndOfStream, Drop, Redial, Client
    <3>5. CASE Reload \/ Poll \/ Tick
      BY <3>1, <3>5 DEF Reload, Poll, Tick
    <3>6. CASE \E c \in Conns : Accept(c)
      BY <3>1, <3>6 DEF Accept, Client
    <3> QED BY <3>1, <3>2, <3>3, <3>4, <3>5, <3>6, PageStill
  <2> QED BY <2>1, <2>2, <2>3, <2>4, <2>5, <2>6 DEF WindowInv
<1> QED BY <1>1, <1>2, <1>3

(* A step of the server's on one connection leaves the others alone; on the     *)
(* client's it only adds to what was sent.                                   *)
LEMMA OtherConns ==
    ASSUME TypeInv, NEW c \in Conns, NEW d \in Conns, c # d, Replay(c) \/ ReplayFails(c) \/ Stream(c) \/ Return(c) \/ Accept(c)
    PROVE  handler'[d] = handler[d] /\ hub'[d] = hub[d]
<1>t. hub \in [Conns -> Channel] /\ handler \in [Conns -> Handler]
  BY TypesOf
<1> QED BY <1>t DEF Replay, ReplayFails, Stream, Return, Accept

LEMMA SentGrows ==
    ASSUME TypeInv, ConnInv, NEW c \in Conns, Replay(c) \/ ReplayFails(c) \/ Stream(c) \/ Return(c), client.conn = c
    PROVE  /\ Len(handler[c].sent) <= Len(handler'[c].sent) /\ handler'[c].pc # "free"
           /\ \A n \in 1 .. Len(handler[c].sent) : handler'[c].sent[n] = handler[c].sent[n]
<1>t. hub \in [Conns -> Channel] /\ handler \in [Conns -> Handler] /\ handler[c] \in Handler
  BY TypesOf
<1>s. handler[c].sent \in Seq(0 .. MaxEvents + 1) /\ Len(handler[c].sent) \in Nat
  BY <1>t DEF Handler
<1>1. CASE Replay(c)
  <2>1. handler[c].sent = <<>>
    BY <1>1 DEF ConnInv, Conn, Life, Replay
  <2>2. \E x : handler'[c] = x /\ (\E s \in Seq(0 .. MaxEvents + 1) : x.sent = s) /\ x.pc = "stream"
    <3> PICK h : /\ handler' = [handler EXCEPT ![c] = h]
                 /\ \/ h = [handler[c] EXCEPT !.pc = "stream", !.unreplayed = {}, !.sent = <<Resync>>]
                    \/ h = [handler[c] EXCEPT !.pc = "stream", !.unreplayed = {}, !.delivered = ReplayRows(c),
                                              !.sent = InOrder(ReplayRows(c))]
                    \/ h = [handler[c] EXCEPT !.pc = "stream", !.unreplayed = {}, !.delivered = ReplayRows(c),
                                              !.sent = Append(InOrder(ReplayRows(c)), Summary)]
      BY <1>1, ReplayCases, Zenon
    <3>1. /\ InOrder(ReplayRows(c)) \in Seq(0 .. MaxEvents + 1)
          /\ Append(InOrder(ReplayRows(c)), Summary) \in Seq(0 .. MaxEvents + 1) /\ <<Resync>> \in Seq(0 .. MaxEvents + 1)
      BY ReplayFrames
    <3> DEFINE one == InOrder(ReplayRows(c))
               two == Append(one, Summary)
               three == <<Resync>>
    <3>2. h.pc = "stream" /\ h.sent \in {one, two, three}
      BY <1>t DEF Handler
    <3>3. handler'[c] = h
      BY <1>t
    <3> QED BY <3>1, <3>2, <3>3
  <2>3. Len(handler'[c].sent) \in Nat
    BY <2>2
  <2> QED BY <2>1, <2>2, <2>3
<1>2. CASE Stream(c)
  <2>1. \/ handler'[c] = [handler[c] EXCEPT !.sent = Append(handler[c].sent, Head(hub[c].buf))]
        \/ handler'[c] = handler[c]
    <3>1. CASE Forward(c, Head(hub[c].buf))
      BY <1>t, <1>2, <3>1 DEF Stream
    <3>2. CASE ~Forward(c, Head(hub[c].buf))
      BY <1>t, <1>2, <3>2 DEF Stream, Handler
    <3> QED BY <3>1, <3>2
  <2>2. Head(hub[c].buf) \in 0 .. MaxEvents + 1
    <3>1. hub[c].buf \in Seq(0 .. MaxEvents) /\ hub[c].buf # <<>>
      BY <1>t, <1>2 DEF Stream, Channel
    <3>2. Head(hub[c].buf) \in 0 .. MaxEvents
      BY <3>1, TailSet
    <3> QED BY <3>2, Bounds
  <2>3. /\ Len(Append(handler[c].sent, Head(hub[c].buf))) = Len(handler[c].sent) + 1
        /\ \A n \in 1 .. Len(handler[c].sent) : Append(handler[c].sent, Head(hub[c].buf))[n] = handler[c].sent[n]
    BY <1>s, <2>2, AppendSet
  <2>4. handler[c].pc = "stream"
    BY <1>2 DEF Stream
  <2>5. CASE handler'[c] = [handler[c] EXCEPT !.sent = Append(handler[c].sent, Head(hub[c].buf))]
    <3>1. handler'[c].sent = Append(handler[c].sent, Head(hub[c].buf)) /\ handler'[c].pc = "stream"
      BY <1>t, <2>4, <2>5 DEF Handler
    <3> QED BY <1>s, <2>3, <3>1
  <2>6. CASE handler'[c] = handler[c]
    BY <1>s, <2>4, <2>6
  <2> QED BY <2>1, <2>5, <2>6
<1>3. CASE Return(c)
  <2>1. handler'[c] = [handler[c] EXCEPT !.pc = "ended"]
    BY <1>t, <1>3 DEF Return
  <2>2. handler'[c].sent = handler[c].sent /\ handler'[c].pc = "ended"
    BY <1>t, <2>1 DEF Handler
  <2> QED BY <1>s, <2>2
<1>4. CASE ReplayFails(c)
  BY <1>s, <1>4, FailedHandler
<1> QED BY <1>1, <1>2, <1>3, <1>4

-----------------------------------------------------------------------------
(* What the client's phase says of the rest: only a client that reads is LIVE    *)
(* and not away; one that once read and does not, reloads when it does again.  *)
Modes ==
    /\ client.pc = "reading" => client.ever /\ ~page.dirty
    /\ client.pc = "resyncing" => client.ever /\ client.resync /\ page.dirty
    /\ client.pc \in {"dialing", "waiting"} /\ client.ever => page.dirty
    /\ client.pc \in {"mounting", "handoff"} => ~client.ever
    /\ client.state = "LIVE" => client.pc = "reading"
    /\ Attached => client.read <= Len(handler[client.conn].sent)

LEMMA ModesStep == ASSUME TypeInv, ConnInv, Modes, [Next]_vars PROVE Modes'
<1>t. client \in Client /\ page \in Page /\ handler \in [Conns -> Handler]
  BY TypesOf
<1>a. Attached => client.conn \in Conns
  BY DEF TypeInv, Connection
<1>1. ASSUME UNCHANGED client, page'.dirty = page.dirty,
             Attached => /\ Len(handler[client.conn].sent) <= Len(handler'[client.conn].sent)
                         /\ Len(handler'[client.conn].sent) \in Nat
      PROVE  Modes'
  <2>1. Attached => client.read \in Nat /\ Len(handler[client.conn].sent) \in Nat /\ client.read <= Len(handler[client.conn].sent)
    <3>1. client.read \in Nat
      BY <1>t DEF Client
    <3>2. Attached => handler[client.conn] \in Handler
      BY <1>t, <1>a
    <3>3. Attached => Len(handler[client.conn].sent) \in Nat
      BY <3>2 DEF Handler
    <3>4. Attached => client.read <= Len(handler[client.conn].sent)
      BY DEF Modes
    <3> QED BY <3>1, <3>3, <3>4
  <2>2. Attached => client.read <= Len(handler'[client.conn].sent)
    <3> DEFINE had == Len(handler[client.conn].sent)
               has == Len(handler'[client.conn].sent)
    <3>1. Attached => client.read \in Nat /\ had \in Nat /\ has \in Nat /\ client.read <= had /\ had <= has
      BY <1>1, <2>1
    <3> HIDE DEF had, has
    <3>2. Attached => client.read <= has
      BY ONLY <3>1
    <3> QED BY <3>2 DEF has
  <2> QED BY <1>1, <2>2 DEF Modes, Attached
<1>2. ASSUME UNCHANGED client, page'.dirty = page.dirty, UNCHANGED handler PROVE Modes'
  BY <1>1, <1>2, <1>t, <1>a DEF Handler
<1>3. ASSUME NEW c \in Conns, Replay(c) \/ ReplayFails(c) \/ Stream(c) \/ Return(c) PROVE Modes'
  <2>1. UNCHANGED <<client, page>>
    BY <1>3 DEF Replay, ReplayFails, Stream, Return
  <2>2. Attached => /\ Len(handler[client.conn].sent) <= Len(handler'[client.conn].sent)
                    /\ Len(handler'[client.conn].sent) \in Nat
    <3> SUFFICES ASSUME Attached PROVE /\ Len(handler[client.conn].sent) <= Len(handler'[client.conn].sent)
                                       /\ Len(handler'[client.conn].sent) \in Nat
      OBVIOUS
    <3>0. TypeInv'
      BY <1>3, TypeReplay, TypeFails, TypeStream, TypeReturn
    <3>1. handler' \in [Conns -> Handler]
      BY <3>0, TypesOf DEF TypeInv, TypeOK, Handler
    <3>2. Len(handler'[client.conn].sent) \in Nat
      BY <1>a, <3>1 DEF Handler
    <3>3. CASE client.conn = c
      BY <1>3, <3>2, <3>3, SentGrows
    <3>4. CASE client.conn # c
      <4>1. handler'[client.conn] = handler[client.conn]
        BY <1>3, <1>a, <3>4, OtherConns
      <4> QED BY <3>2, <4>1
    <3> QED BY <3>3, <3>4
  <2> QED BY <1>1, <2>1, <2>2
<1>4. ASSUME NEW c \in Conns, Accept(c) PROVE Modes'
  <2>1. /\ client' = [client EXCEPT !.pc = "waiting", !.conn = c, !.read = 0, !.first = ~client.ever] /\ UNCHANGED page
        /\ client.pc = "dialing"
        /\ handler' = [handler EXCEPT ![c] = [Free EXCEPT !.pc = "replay", !.after = After,
                                                         !.unreplayed = {i \in Projected : i > After}]]
    BY <1>4 DEF Accept
  <2>2. client'.pc = "waiting" /\ client'.conn = c /\ client'.read = 0 /\ client'.ever = client.ever /\ client'.state = client.state
    BY <1>t, <2>1 DEF Client
  <2>3. handler'[c].sent = <<>>
    BY <1>t, <2>1 DEF Free
  <2>4. 0 <= Len(<<>>)
    OBVIOUS
  <2> QED BY <2>1, <2>2, <2>3, <2>4 DEF Modes, Attached
<1>5. CASE SnapshotArrives \/ EndOfStream \/ Drop
  <2>1. page'.dirty = (page.dirty \/ State(client.ever, client.resync) # "CONNECTING")
    BY <1>t, <1>5 DEF SnapshotArrives, EndOfStream, Drop, Leave, Page
  <2>2. client'.pc = "dialing" /\ client'.ever = client.ever /\ client'.state = State(client.ever, client.resync)
    BY <1>t, <1>5 DEF SnapshotArrives, EndOfStream, Drop, Redial, Client
  <2>3. client.ever => page'.dirty
    BY <2>1 DEF State
  <2>4. client'.state # "LIVE"
    BY <2>2 DEF State
  <2> QED BY <2>2, <2>3, <2>4 DEF Modes, Attached
<1>6. CASE Mount \/ Handoff
  <2>1. client'.pc \in {"handoff", "dialing"} /\ client'.ever = client.ever /\ client'.state = client.state
        /\ client.pc \in {"mounting", "handoff"}
    BY <1>t, <1>6 DEF Mount, Handoff, Client
  <2> QED BY <2>1 DEF Modes, Attached
<1>7. CASE Connected
  <2>1. client'.pc = "reading" /\ client'.ever /\ client'.conn = client.conn /\ client'.read = client.read
        /\ client.pc = "waiting" /\ UNCHANGED handler
    BY <1>t, <1>7 DEF Connected, Client, server
  <2>2. ~page'.dirty
    BY <1>t, <1>7 DEF Connected, CatchUp, Page
  <2> QED BY <2>1, <2>2 DEF Modes, Attached
<1>8. CASE ReadEvent
  <2>1. page'.dirty = page.dirty /\ UNCHANGED handler /\ client.pc = "reading"
    <3>1. \E x : page' = [page EXCEPT !.timer = x]
      BY <1>8 DEF ReadEvent
    <3> QED BY <1>t, <1>8, <3>1 DEF ReadEvent, HasFrame, server, Page
  <2>2. client'.read = client.read + 1 /\ client'.pc = client.pc /\ client'.conn = client.conn /\ client'.ever = client.ever
        /\ client'.state = client.state
    BY <1>t, <1>8 DEF ReadEvent, Client
  <2>3. client.read + 1 \in 1 .. Len(handler[client.conn].sent)
    BY <1>8, FrameKnown DEF ReadEvent
  <2>4. client'.read <= Len(handler'[client'.conn].sent)
    BY <1>t, <1>a, <2>1, <2>2, <2>3
  <2> QED BY <2>1, <2>2, <2>4 DEF Modes, Attached
<1>9. CASE ReadResync
  <2>1. page'.dirty /\ UNCHANGED handler /\ client.pc = "reading"
    BY <1>t, <1>9 DEF ReadResync, HasFrame, server, Page
  <2>2. client'.read = client.read /\ client'.pc = "resyncing" /\ client'.conn = client.conn /\ client'.ever = client.ever
        /\ client'.resync /\ client'.state = "RESYNCING"
    BY <1>t, <1>9 DEF ReadResync, Client
  <2> QED BY <2>1, <2>2 DEF Modes, Attached
<1>10. CASE Reload \/ Poll \/ Tick
  <2>1. UNCHANGED <<client, handler>>
    BY <1>10 DEF Reload, Poll, Tick, server
  <2>2. page'.dirty = page.dirty
    <3>1. \E x, y : page' = [page EXCEPT !.timer = x, !.view = y] \/ page' = [page EXCEPT !.timer = x] \/ page' = [page EXCEPT !.view = y]
      BY <1>10 DEF Reload, Poll, Tick
    <3> QED BY <1>t, <3>1 DEF Page
  <2> QED BY <1>2, <2>1, <2>2
<1>11. CASE Insert \/ LogStep \/ FireSummary \/ (\E c \in Conns : Ping(c)) \/ UNCHANGED vars
  <2>1. UNCHANGED <<client, handler, page>>
    BY <1>11 DEF Insert, LogStep, Commit, Publish, FireSummary, Ping, vars, server
  <2> QED BY <1>2, <2>1
<1> QED BY <1>3, <1>4, <1>5, <1>6, <1>7, <1>8, <1>9, <1>10, <1>11 DEF Next, ServerStep, ClientStep

-----------------------------------------------------------------------------
(* A later event of the same resource concerns the page when the earlier does. *)
LEMMA SameResource ==
    ASSUME NEW k, NEW l, k.type \in Types, l.type \in Types, Resource(k) = Resource(l),
           k.type \notin {"task.progress", "worker.heartbeat_age"}
    PROVE  PrefixesOf(k.type) \subseteq PrefixesOf(l.type)
<1> DEFINE Four == {"task.", "worker.", "alert.", "pii."}
           Family(e) == CHOOSE p \in PrefixesOf(e.type) \cap Four : TRUE
<1>1. ASSUME NEW e, e.type \in Types PROVE Family(e) \in PrefixesOf(e.type) \cap Four
  <2>1. PrefixesOf(e.type) \cap Four # {}
    BY <1>1 DEF Types, PrefixesOf
  <2> HIDE DEF Four
  <2> QED BY <2>1
<1>2. Resource(k)[1] = Family(k) /\ Resource(l)[1] = Family(l)
  BY DEF Resource
<1>3. Resource(k)[2] = (IF "pii.policy" \in PrefixesOf(k.type) THEN k.type ELSE "")
      /\ Resource(l)[2] = (IF "pii.policy" \in PrefixesOf(l.type) THEN l.type ELSE "")
  BY DEF Resource
<1> HIDE DEF Family
<1>4. Family(k) = Family(l) /\ Family(k) \in PrefixesOf(k.type) \cap Four /\ Family(l) \in PrefixesOf(l.type)
  BY <1>1, <1>2
<1>5. CASE k.type # "pii.policy_activated"
  <2>1. \E p : PrefixesOf(k.type) = {p}
    BY <1>5 DEF Types, PrefixesOf
  <2> QED BY <1>4, <2>1
<1>6. CASE k.type = "pii.policy_activated"
  <2>1. "pii.policy" \in PrefixesOf(k.type)
    BY <1>6 DEF PrefixesOf
  <2>2. "pii.policy" \in PrefixesOf(l.type) /\ l.type = k.type
    BY <1>3, <1>6, <2>1
  <2> QED BY <2>2
<1> QED BY <1>5, <1>6

LEMMA ConcernsTypes ==
    ASSUME NEW k, k.type \in Types, Concerns(k)
    PROVE  k.type \notin {"task.progress", "worker.heartbeat_age"} /\ PrefixesOf(k.type) \cap setting.prefixes # {}
<1>1. PriorityOfEvent(k) # "informational" /\ PrefixesOf(k.type) \cap setting.prefixes # {}
  BY DEF Concerns
<1>2. CASE k.type \in {"task.progress", "worker.heartbeat_age"}
  <2>1. PrefixesOf(k.type) \cap {"task.progress", "worker.heartbeat_age"} # {}
    BY <1>2 DEF PrefixesOf
  <2>2. PriorityOf(k.type) = "informational"
    BY <1>2, <2>1 DEF PriorityOf
  <2>3. PriorityOfEvent(k) = "informational"
    BY <1>2, <2>2 DEF PriorityOfEvent
  <2> QED BY <1>1, <2>3
<1> QED BY <1>1, <1>2

(* What reading a frame does. *)
Accepted(i) == (i = Summary \/ i \notin client.seen) /\ (i = Summary \/ Fresh(i))

LEMMA ReadFacts ==
    ASSUME TypeInv, ConnInv, ReadEvent
    PROVE  /\ Frame = Summary \/ (Frame \in DOMAIN log /\ Due(log[Frame].kind))
           /\ client'.seen = client.seen \cup ({Frame} \ {Summary})
           /\ client'.newest = IF Accepted(Frame) /\ Frame # Summary
                               THEN {j \in client.newest : Resource(log[j].kind) # Resource(log[Frame].kind)} \cup {Frame}
                               ELSE client.newest
           /\ client'.read = client.read + 1 /\ client'.pc = client.pc /\ client'.conn = client.conn /\ client'.ever = client.ever
           /\ Accepted(Frame) /\ Frame # Summary /\ PrefixesOf(log[Frame].kind.type) \cap setting.prefixes # {} => page'.timer = 2
           /\ client.pc = "reading" /\ client.conn \in Conns
           /\ UNCHANGED <<log, recent, burst, setting, handler, hub>>
<1>t. client \in Client /\ page \in Page
  BY TypesOf
<1>1. /\ client'.seen = client.seen \cup ({Frame} \ {Summary})
      /\ client'.read = client.read + 1 /\ client'.pc = client.pc /\ client'.conn = client.conn /\ client'.ever = client.ever
  BY <1>t DEF ReadEvent, Client
<1>2. client'.newest = IF Accepted(Frame) /\ Frame # Summary
                       THEN {j \in client.newest : Resource(log[j].kind) # Resource(log[Frame].kind)} \cup {Frame}
                       ELSE client.newest
  BY <1>t DEF ReadEvent, Client, Accepted
<1>3. Accepted(Frame) /\ Frame # Summary /\ PrefixesOf(log[Frame].kind.type) \cap setting.prefixes # {} => page'.timer = 2
  BY <1>t DEF ReadEvent, Page, Accepted, Debounce
<1>4. Frame = Summary \/ (Frame \in DOMAIN log /\ Due(log[Frame].kind))
  BY FrameKnown DEF ReadEvent
<1> QED BY <1>1, <1>2, <1>3, <1>4, FrameKnown DEF ReadEvent, HasFrame, logger, server

(* What a step does to the page: its data only becomes newer; its debounce is   *)
(* started anew, runs down with a tick or ends with a reload.                *)
LEMMA PageMoves ==
    ASSUME TypeInv, [Next]_vars
    PROVE  /\ page'.view = page.view \/ page'.view = Projected
           /\ Reload => page.timer = 1 /\ page'.timer = 0 /\ page'.view = Projected
           /\ Tick => page'.timer = (IF page.timer > 1 THEN page.timer - 1 ELSE page.timer) /\ page'.view = page.view
           /\ ~(Reload \/ Tick) => page'.timer \in {page.timer, 2}
<1>1. page \in Page
  BY TypesOf
<1>2. CASE Mount \/ Poll
  BY <1>1, <1>2 DEF Mount, Poll, Page, Reload, Tick
<1>3. CASE Connected \/ ReadResync
  BY <1>1, <1>3 DEF Connected, CatchUp, ReadResync, Page, Debounce, Reload, Tick
<1>4. CASE ReadEvent
  <2>1. \E x \in {page.timer, 2} : page' = [page EXCEPT !.timer = x]
    BY <1>4 DEF ReadEvent, Debounce
  <2> QED BY <1>1, <2>1 DEF Page, Reload, Tick
<1>5. CASE SnapshotArrives \/ EndOfStream \/ Drop
  <2>1. \E x : page' = [page EXCEPT !.dirty = x]
    BY <1>5 DEF SnapshotArrives, EndOfStream, Drop, Leave
  <2> QED BY <1>1, <2>1 DEF Page, Reload, Tick
<1>6. CASE Tick
  BY <1>1, <1>6 DEF Tick, Page, Reload
<1>7. CASE Handoff
  BY <1>1, <1>7 DEF Handoff, Page, Reload, Tick
<1>8. CASE Reload
  BY <1>1, <1>8 DEF Reload, Page, Tick
<1>9. CASE UNCHANGED page
  BY <1>1, <1>9 DEF Page, Reload, Tick
<1> QED BY <1>2, <1>3, <1>4, <1>5, <1>6, <1>7, <1>8, <1>9, PageStill

-----------------------------------------------------------------------------
(* What the client has seen, or knows something newer of, is on the page or will  *)
(* be after a reload, and not before the tick in which it was written is over. *)
Handled(j) == IF j \in Window THEN page.timer = 2 ELSE page.timer > 0 \/ j \in page.view
HandledInv ==
    /\ \A j \in client.seen : Concerns(log[j].kind) => Handled(j)
    /\ \A k \in client.newest, j \in DOMAIN log :
         j <= k /\ Concerns(log[j].kind) /\ Resource(log[j].kind) = Resource(log[k].kind) => Handled(j)

LEMMA SettledIds ==
    ASSUME TypeInv, WindowInv, NEW j \in DOMAIN log, j \notin Window
    PROVE  j \in Projected
<1>1. j \notin InLog /\ log[j].stage \in Stages
  BY TypesOf DEF WindowInv
<1> QED BY <1>1 DEF InLog, Projected, Visible, Stages

LEMMA HandledKept ==
    ASSUME TypeInv, WindowInv, Calm, [Next]_vars, NEW j \in DOMAIN log, Handled(j)
    PROVE  Handled(j)'
<1>t. page \in Page /\ page.timer \in 0 .. 2 /\ Len(log) + 1 \notin DOMAIN log /\ page.view \subseteq Projected
  <2>1. page \in Page /\ Len(log) \in 0 .. MaxEvents /\ DOMAIN log = 1 .. Len(log) /\ MaxEvents \in Nat
    BY TypesOf, Bounds
  <2>2. Len(log) + 1 \notin 1 .. Len(log)
    BY ONLY <2>1
  <2>3. page.view \subseteq Projected
    BY DEF WindowInv
  <2> QED BY <2>1, <2>2, <2>3 DEF Page
<1>w. /\ Insert => Window' = Window \cup {Len(log) + 1}
      /\ LogStep => Window' = Window
      /\ Tick => Window' = {}
      /\ ~(Insert \/ LogStep \/ Tick) => Window' = Window
  BY WindowMoves
<1>p. /\ page'.view = page.view \/ page'.view = Projected
      /\ Reload => page.timer = 1 /\ page'.timer = 0 /\ page'.view = Projected
      /\ Tick => page'.timer = (IF page.timer > 1 THEN page.timer - 1 ELSE page.timer) /\ page'.view = page.view
      /\ ~(Reload \/ Tick) => page'.timer \in {page.timer, 2}
  BY PageMoves
<1>1. CASE Tick
  <2>1. page.timer > 0 => page'.timer > 0
    BY <1>1, <1>p, <1>t
  <2> QED BY <1>1, <1>p, <1>w, <2>1 DEF Handled
<1>2. CASE ~Tick
  <2>1. j \in Window' <=> j \in Window
    BY <1>2, <1>t, <1>w
  <2>2. CASE Reload
    <3>1. j \notin Window
      BY <1>p, <2>2 DEF Handled
    <3>2. j \in page'.view
      BY <1>p, <2>2, <3>1, SettledIds
    <3> QED BY <2>1, <3>1, <3>2 DEF Handled
  <2>3. CASE ~Reload
    <3>1. page'.timer \in {page.timer, 2} /\ page.view \subseteq page'.view
      BY <1>2, <1>p, <1>t, <2>3
    <3> QED BY <1>t, <2>1, <3>1 DEF Handled
  <2> QED BY <2>2, <2>3
<1> QED BY <1>1, <1>2

LEMMA LogKinds ==
    ASSUME TypeInv, [Next]_vars
    PROVE  /\ DOMAIN log \subseteq DOMAIN log' /\ UNCHANGED setting
           /\ \A j \in DOMAIN log : log'[j].kind = log[j].kind /\ (Concerns(log[j].kind)' <=> Concerns(log[j].kind))
<1>1. DOMAIN log \subseteq DOMAIN log' /\ UNCHANGED setting /\ \A j \in DOMAIN log : log'[j].kind = log[j].kind
  <2>1. CASE Insert
    BY <2>1, InsertFacts DEF Insert, server
  <2>2. CASE LogStep
    BY <2>2, StageFacts DEF LogStep
  <2>3. CASE ~Insert /\ ~LogStep
    BY <2>3, LogStill
  <2> QED BY <2>1, <2>2, <2>3
<1> QED BY <1>1 DEF Concerns, Due

LEMMA HandledStep ==
    ASSUME TypeInv, ConnInv, Calm, WindowInv, HandledInv, [Next]_vars
    PROVE  HandledInv'
<1>t. client \in Client /\ client.seen \subseteq DOMAIN log /\ client.newest \subseteq client.seen
  BY TypesOf DEF WindowInv, TypeInv, TypeOK
<1>k. /\ DOMAIN log \subseteq DOMAIN log' /\ UNCHANGED setting
      /\ \A j \in DOMAIN log : log'[j].kind = log[j].kind /\ (Concerns(log[j].kind)' <=> Concerns(log[j].kind))
  BY LogKinds
<1>h. \A j \in DOMAIN log : Handled(j) => Handled(j)'
  BY HandledKept
<1>1. ASSUME client'.seen \subseteq client.seen, client'.newest \subseteq client.newest PROVE HandledInv'
  <2>1. ASSUME NEW j \in client'.seen, Concerns(log[j].kind)' PROVE Handled(j)'
    <3>1. j \in DOMAIN log /\ Concerns(log[j].kind) /\ j \in client.seen
      BY <1>1, <1>t, <1>k, <2>1
    <3>2. Handled(j)
      BY <3>1 DEF HandledInv
    <3> QED BY <1>h, <3>1, <3>2
  <2>2. ASSUME NEW k \in client'.newest, NEW j \in DOMAIN log', j <= k, Concerns(log[j].kind)',
               Resource(log'[j].kind) = Resource(log'[k].kind)
        PROVE  Handled(j)'
    <3>1. k \in DOMAIN log /\ k \in client.newest
      BY <1>1, <1>t
    <3>2. j \in DOMAIN log
      <4>1. DOMAIN log = 1 .. Len(log) /\ DOMAIN log' = 1 .. Len(log') /\ Len(log) \in Nat /\ Len(log') \in Nat
        <5>1. TypeInv'
          BY TypeStep
        <5>2. DOMAIN log = 1 .. Len(log) /\ Len(log) \in Nat
          BY TypesOf, Bounds
        <5>3. log' \in Seq([kind : setting'.kinds, stage : Stages])
          BY <5>1 DEF TypeInv, TypeOK
        <5> QED BY <5>2, <5>3
      <4> QED BY <2>2, <3>1, <4>1
    <3>3. Handled(j)
      BY <1>k, <2>2, <3>1, <3>2 DEF HandledInv
    <3> QED BY <1>h, <3>2, <3>3
  <2> QED BY <2>1, <2>2 DEF HandledInv
<1>2. CASE ReadEvent
  <2> PICK i : i = Frame
    OBVIOUS
  <2>r. /\ i = Summary \/ (i \in DOMAIN log /\ Due(log[i].kind))
        /\ client'.seen = client.seen \cup ({i} \ {Summary})
        /\ client'.newest = IF Accepted(i) /\ i # Summary
                            THEN {j \in client.newest : Resource(log[j].kind) # Resource(log[i].kind)} \cup {i}
                            ELSE client.newest
        /\ Accepted(i) /\ i # Summary /\ PrefixesOf(log[i].kind.type) \cap setting.prefixes # {} => page'.timer = 2
        /\ UNCHANGED <<log, setting>>
    BY <1>2, ReadFacts
  <2>1. CASE i = Summary
    BY <1>1, <2>1, <2>r
  <2>2. CASE i # Summary
    <3>1. i \in DOMAIN log /\ client'.seen = client.seen \cup {i}
      BY <2>2, <2>r
    <3>2. ASSUME page'.timer = 2, NEW j PROVE Handled(j)'
      BY <3>2 DEF Handled
    <3>3. ASSUME NEW j \in DOMAIN log, Concerns(log[j].kind), Resource(log[j].kind) = Resource(log[i].kind), Accepted(i)
          PROVE  page'.timer = 2
      <4>1. log[j].kind.type \in Types /\ log[i].kind.type \in Types
        BY <3>1, KindTypes
      <4>2. PrefixesOf(log[j].kind.type) \subseteq PrefixesOf(log[i].kind.type) /\ PrefixesOf(log[j].kind.type) \cap setting.prefixes # {}
        BY <3>3, <4>1, SameResource, ConcernsTypes
      <4> QED BY <2>2, <2>r, <3>3, <4>2
    <3>4. ASSUME Concerns(log[i].kind) PROVE Handled(i)'
      <4>1. CASE Accepted(i)
        BY <3>1, <3>2, <3>3, <3>4, <4>1
      <4>2. CASE i \in client.seen
        <5>1. Handled(i)
          BY <3>1, <3>4, <4>2 DEF HandledInv
        <5> QED BY <1>h, <3>1, <5>1
      <4>3. CASE i \notin client.seen /\ ~Accepted(i)
        <5>1. PICK k \in client.newest : Resource(log[k].kind) = Resource(log[i].kind) /\ ~(i > k)
          BY <2>2, <4>3 DEF Accepted, Fresh
        <5>2. i <= k
          BY <1>t, <3>1, <5>1, TypesOf
        <5>3. Handled(i)
          BY <3>1, <3>4, <5>1, <5>2 DEF HandledInv
        <5> QED BY <1>h, <3>1, <5>3
      <4> QED BY <4>1, <4>2, <4>3
    <3>5. ASSUME NEW j \in client'.seen, Concerns(log[j].kind)' PROVE Handled(j)'
      <4>1. j \in DOMAIN log /\ Concerns(log[j].kind)
        BY <1>t, <1>k, <3>1, <3>5
      <4>2. CASE j \in client.seen
        <5>1. Handled(j)
          BY <4>1, <4>2 DEF HandledInv
        <5> QED BY <1>h, <4>1, <5>1
      <4>3. CASE j = i
        BY <3>4, <4>1, <4>3
      <4> QED BY <3>1, <3>5, <4>2, <4>3
    <3>6. ASSUME NEW k \in client'.newest, NEW j \in DOMAIN log', j <= k, Concerns(log[j].kind)',
                 Resource(log'[j].kind) = Resource(log'[k].kind)
          PROVE  Handled(j)'
      <4>1. j \in DOMAIN log /\ Concerns(log[j].kind) /\ Resource(log[j].kind) = Resource(log[k].kind)
        BY <1>k, <2>r, <3>6
      <4>2. CASE k \in client.newest
        <5>1. Handled(j)
          BY <3>6, <4>1, <4>2 DEF HandledInv
        <5> QED BY <1>h, <4>1, <5>1
      <4>3. CASE k = i /\ Accepted(i)
        BY <3>2, <3>3, <4>1, <4>3
      <4> QED BY <2>r, <3>6, <4>2, <4>3
    <3> QED BY <3>5, <3>6 DEF HandledInv
  <2> QED BY <2>1, <2>2
<1>3. CASE Mount \/ Handoff \/ Connected \/ ReadResync
  <2>1. CASE Mount \/ Handoff
    BY <1>1, <2>1, <1>t DEF Mount, Handoff, Client
  <2>2. CASE Connected
    BY <1>1, <2>2, <1>t DEF Connected, Client
  <2>3. CASE ReadResync
    BY <1>1, <2>3, <1>t DEF ReadResync, Client
  <2> QED BY <1>3, <2>1, <2>2, <2>3
<1>4. CASE SnapshotArrives \/ EndOfStream \/ Drop
  <2>1. CASE SnapshotArrives
    BY <1>1, <2>1, <1>t DEF SnapshotArrives, Redial, Client
  <2>2. CASE EndOfStream \/ Drop
    BY <1>1, <2>2, <1>t DEF EndOfStream, Drop, Redial, Client
  <2> QED BY <1>4, <2>1, <2>2
<1>5. CASE Reload \/ Poll \/ Tick
  BY <1>1, <1>5 DEF Reload, Poll, Tick
<1>6. CASE \E c \in Conns : Accept(c)
  BY <1>1, <1>6, <1>t DEF Accept, Client
<1>7. CASE client' = client
  BY <1>1, <1>7
<1> QED BY <1>2, <1>3, <1>4, <1>5, <1>6, <1>7, PageStill

-----------------------------------------------------------------------------
(* A client that never got through has read nothing, and its cursor lies before  *)
(* whatever its data does not show: the watermark is so much lower than the    *)
(* newest id as a tick may see events.                                       *)
NeverInv ==
    ~client.ever =>
        /\ client.seen = {}
        /\ client.pc = "handoff" => \A i \in Projected : i \in page.view \cup Window
        /\ client.pc \notin {"mounting", "handoff"} =>
             /\ client.cursor <= Len(log) - burst
             /\ \A i \in Projected : i \in page.view \/ i > client.cursor

LEMMA LowWatermark == ASSUME TypeInv, Calm PROVE Watermark <= Len(log) - burst
<1>t. Len(log) \in Nat /\ burst \in Nat /\ burst <= Len(log) /\ burst <= Margin /\ Margin \in Nat /\ DOMAIN log = 1 .. Len(log)
      /\ Visible \subseteq DOMAIN log
  BY TypesOf, Bounds DEF TypeInv, Bursts
<1>1. CASE ~(Visible # {} /\ MaxOf(Visible) > Margin)
  BY <1>t, <1>1 DEF Watermark
<1>2. CASE Visible # {} /\ MaxOf(Visible) > Margin
  <2> DEFINE top == MaxOf(Visible)
  <2>1. \E x \in Visible : \A y \in Visible : y <= x
    <3>1. Visible \in SUBSET (1 .. Len(log)) /\ Visible # {}
      BY <1>t, <1>2
    <3> QED BY <1>t, <3>1, TopExists
  <2>2. top \in 1 .. Len(log)
    BY <1>t, <2>1 DEF MaxOf
  <2>3. Watermark = top - Margin
    BY <1>2 DEF Watermark
  <2> HIDE DEF top
  <2> QED BY <1>t, <2>2, <2>3
<1> QED BY <1>1, <1>2

LEMMA NeverStep ==
    ASSUME TypeInv, ConnInv, Calm, WindowInv, Modes, NeverInv, [Next]_vars
    PROVE  NeverInv'
<1>t. /\ client \in Client /\ page \in Page /\ Len(log) \in Nat /\ burst \in Nat /\ client.cursor \in Nat
      /\ page.view \subseteq Projected /\ Projected \subseteq DOMAIN log /\ DOMAIN log = 1 .. Len(log)
  <2>1. client \in Client /\ page \in Page /\ Len(log) \in Nat /\ DOMAIN log = 1 .. Len(log) /\ burst \in Nat
    BY TypesOf, Bounds
  <2>2. client.cursor \in 0 .. MaxEvents
    BY <2>1 DEF Client
  <2>3. page.view \subseteq Projected
    BY DEF WindowInv
  <2>4. Projected \subseteq DOMAIN log
    BY DEF Projected, Visible
  <2> QED BY <2>1, <2>2, <2>3, <2>4
<1>v. page'.view = page.view \/ page'.view = Projected
  BY PageMoves
<1>g. Len(log) - burst <= Len(log') - burst' /\ Len(log') \in Nat /\ burst' \in Nat
  <2>1. TypeInv'
    BY TypeStep
  <2>2. log' \in Seq([kind : setting'.kinds, stage : Stages]) /\ burst' \in 0 .. MaxEvents
    BY <2>1 DEF TypeInv, TypeOK
  <2> QED BY <2>2, WindowMoves, Bounds
<1>c. client.pc \notin {"mounting", "handoff"} /\ ~client.ever /\ client.cursor <= Len(log) - burst
      => client.cursor <= Len(log') - burst'
  BY <1>t, <1>g
<1>1. CASE Insert \/ LogStep
  <2>1. UNCHANGED <<client, page>> /\ Window \subseteq Window'
    BY <1>1, WindowMoves DEF Insert, LogStep, Commit, Publish
  <2>2. \A i \in Projected' : i \in Projected \/ i \in Window
    <3>1. CASE Insert
      BY <3>1, InsertFacts
    <3>2. CASE LogStep
      BY <3>2, StageFacts DEF LogStep, WindowInv
    <3> QED BY <1>1, <3>1, <3>2
  <2>3. ~client.ever /\ client.pc \notin {"mounting", "handoff"} => \A i \in Window : i > client.cursor
    BY <1>t DEF Window, NeverInv
  <2> QED BY <1>c, <2>1, <2>2, <2>3 DEF NeverInv
<1>2. CASE ~Insert /\ ~LogStep
  <2>1. UNCHANGED log
    BY <1>2, LogStill
  <2>2. Projected' = Projected
    BY <2>1 DEF Projected, Visible
  <2>3. ASSUME client'.pc = client.pc \/ (client'.pc \notin {"mounting", "handoff"} /\ client.pc \notin {"mounting", "handoff"}),
               client'.cursor = client.cursor, client'.seen = client.seen, client'.ever = client.ever, ~Tick
        PROVE  NeverInv'
    <3>1. Window' = Window
      BY <1>2, <2>3, WindowMoves
    <3> QED BY <1>c, <1>v, <1>t, <2>2, <2>3, <3>1 DEF NeverInv
  <2>4. CASE Mount
    <3>1. page'.view = Projected /\ client'.pc = "handoff" /\ client'.seen = client.seen /\ client'.ever = client.ever
      BY <1>t, <2>4 DEF Mount, Page, Client
    <3> QED BY <2>2, <3>1 DEF NeverInv
  <2>5. CASE Handoff
    <3>1. UNCHANGED <<page, burst>> /\ client'.pc = "dialing" /\ client'.cursor = Watermark /\ client'.seen = client.seen
          /\ client'.ever = client.ever /\ client.pc = "handoff"
      BY <1>t, <2>5 DEF Handoff, Client, logger
    <3>2. Watermark <= Len(log) - burst /\ Watermark \in 0 .. MaxEvents
      BY LowWatermark, TypesOf
    <3>3. \A i \in Window : i > Watermark
      BY <1>t, <3>2 DEF Window
    <3> QED BY <2>1, <2>2, <3>1, <3>2, <3>3 DEF NeverInv
  <2>6. CASE Connected
    <3>1. client'.ever
      BY <1>t, <2>6 DEF Connected, Client
    <3> QED BY <3>1 DEF NeverInv
  <2>7. CASE ReadEvent \/ ReadResync \/ SnapshotArrives \/ EndOfStream
    <3>1. client.ever
      BY <2>7 DEF ReadEvent, ReadResync, SnapshotArrives, EndOfStream, HasFrame, Modes
    <3>2. client'.ever = client.ever
      <4>1. CASE ReadEvent
        BY <4>1, ReadFacts
      <4>2. CASE ReadResync \/ SnapshotArrives \/ EndOfStream
        BY <1>t, <4>2 DEF ReadResync, SnapshotArrives, EndOfStream, Redial, Client
      <4> QED BY <2>7, <4>1, <4>2
    <3> QED BY <3>1, <3>2 DEF NeverInv
  <2>8. CASE Drop
    <3>1. client'.pc = "dialing" /\ client'.cursor = client.cursor /\ client'.seen = client.seen /\ client'.ever = client.ever
          /\ client.pc \in {"waiting", "reading", "resyncing"} /\ UNCHANGED burst
      BY <1>t, <2>8 DEF Drop, Redial, Client, Leave, logger
    <3>2. ~Tick \/ burst' = burst
      BY <3>1
    <3>3. page'.view = page.view \/ page'.view = Projected
      BY <1>v
    <3> QED BY <1>c, <1>t, <2>2, <3>1, <3>3 DEF NeverInv
  <2>9. CASE \E c \in Conns : Accept(c)
    <3>1. client'.pc = "waiting" /\ client'.cursor = client.cursor /\ client'.seen = client.seen /\ client'.ever = client.ever
          /\ client.pc = "dialing" /\ UNCHANGED page
      BY <1>t, <2>9 DEF Accept, Client
    <3> QED BY <1>c, <1>t, <2>2, <3>1 DEF NeverInv
  <2>10. CASE Tick
    <3>1. UNCHANGED client /\ client.pc # "handoff"
      BY <2>10 DEF Tick
    <3> QED BY <1>c, <1>v, <1>t, <2>2, <3>1 DEF NeverInv
  <2>11. CASE UNCHANGED client
    <3>1. CASE ~Tick
      BY <2>3, <2>11, <3>1
    <3> QED BY <2>10, <3>1
  <2>12. CASE Reload \/ Poll
    BY <2>11, <2>12 DEF Reload, Poll
  <2> QED BY <2>4, <2>5, <2>6, <2>7, <2>8, <2>9, <2>10, <2>11, <2>12, PageStill
<1> QED BY <1>1, <1>2

-----------------------------------------------------------------------------
(* What the client will still read on its connection, and which of it will make  *)
(* the page reload; a stream the client will give up, reloading when it is     *)
(* back; what only a replay can bring, which is lost when its query fails.    *)
Unread == {handler[client.conn].sent[n] : n \in client.read + 1 .. Len(handler[client.conn].sent)}
Coming(j) ==
    /\ Due(log[j].kind)
    /\ \/ j \in Unread
       \/ j \in ToSet(hub[client.conn].buf) /\ j \notin handler[client.conn].delivered
Acceptable(j) == j \notin client.seen /\ Fresh(j)
Pending(key) == \E j \in DOMAIN log : Coming(j) /\ Acceptable(j) /\ Key(log[j].kind) = key
Away == page.dirty \/ handler[client.conn].pc = "ended" \/ ~hub[client.conn].open \/ Resync \in Unread
Missed(key) == client.first /\ \E j \in handler[client.conn].unreplayed : Key(log[j].kind) = key

(* A client that is not told to go holds the answer to every change the page    *)
(* misses: it has it on its way, or a later one of its kind that the missing   *)
(* one was coalesced with.  On its first connection the answer may be the      *)
(* replay's to give, and there nothing was read before it.                    *)
SeenInv == Attached => \A n \in 1 .. client.read : handler[client.conn].sent[n] \in client.seen \cup {Summary}
FirstInv ==
    Attached =>
        /\ \A j \in handler[client.conn].unreplayed : j \in Projected /\ j > handler[client.conn].after
        /\ client.first /\ handler[client.conn].pc = "replay" => client.seen = {}
ShownInv ==
    Attached => \A i \in Projected :
        Concerns(log[i].kind) => i \in page.view \/ page.timer > 0 \/ Away \/ Pending(Key(log[i].kind)) \/ Lost(i)
RecentInv ==
    Attached => \A l \in setting.kinds :
        Concerns(l) /\ Key(l) \in recent => page.timer = 2 \/ Away \/ Pending(Key(l)) \/ Missed(Key(l))

(* The events of one type about one subject are of one execution chain.        *)
OneChain == \A p \in Settings : \A k, l \in p.kinds : Key(k) = Key(l) => k.chain = l.chain

LEMMA SameKey ==
    ASSUME TypeInv, OneChain, NEW k \in setting.kinds, NEW l \in setting.kinds, Key(k) = Key(l)
    PROVE  Concerns(k) <=> Concerns(l)
<1>1. k.type = l.type /\ k.subject = l.subject
  BY DEF Key
<1>2. k.chain = l.chain
  BY TypesOf DEF OneChain
<1>3. \A s : ScopeMatches(s, k) <=> ScopeMatches(s, l)
  BY <1>1, <1>2 DEF ScopeMatches
<1>4. Matches(setting.scopes, k) <=> Matches(setting.scopes, l)
  BY <1>3 DEF Matches
<1>5. PriorityOfEvent(k) = "informational" <=> PriorityOfEvent(l) = "informational"
  <2>1. CASE k.type = "alert.opened"
    <3>1. PriorityOf(k.type) = "critical"
      BY <2>1 DEF PriorityOf
    <3> QED BY <1>1, <2>1, <3>1 DEF PriorityOfEvent
  <2>2. CASE k.type # "alert.opened"
    BY <1>1, <2>2 DEF PriorityOfEvent
  <2> QED BY <2>1, <2>2
<1> QED BY <1>1, <1>4, <1>5 DEF Concerns, Due, IsNoise

(* What a step that only adds to the client's connection does. *)
LEMMA UnreadGrows ==
    ASSUME TypeInv, Attached, UNCHANGED <<client.conn, client.read>>,
           Len(handler[client.conn].sent) <= Len(handler'[client.conn].sent), Len(handler'[client.conn].sent) \in Nat,
           \A n \in 1 .. Len(handler[client.conn].sent) : handler'[client.conn].sent[n] = handler[client.conn].sent[n]
    PROVE  Unread \subseteq Unread'
<1>t. client.conn \in Conns /\ handler[client.conn] \in Handler /\ client.read \in Nat
  BY TypesOf DEF TypeInv, Connection, Client
<1>1. Len(handler[client.conn].sent) \in Nat
  BY <1>t DEF Handler
<1>2. ASSUME NEW n \in client.read + 1 .. Len(handler[client.conn].sent)
      PROVE  /\ n \in client.read + 1 .. Len(handler'[client.conn].sent) /\ n \in 1 .. Len(handler[client.conn].sent)
  BY <1>1, <1>2, <1>t
<1> QED BY <1>2 DEF Unread

LEMMA FreshKept ==
    ASSUME TypeInv, WindowInv, [Next]_vars, UNCHANGED <<client.seen, client.newest>>, NEW j \in DOMAIN log, Acceptable(j)
    PROVE  Acceptable(j)'
<1>1. client.newest \subseteq DOMAIN log
  BY DEF WindowInv, TypeInv, TypeOK
<1>2. \A k \in DOMAIN log : log'[k].kind = log[k].kind
  BY LogKinds
<1> QED BY <1>1, <1>2 DEF Acceptable, Fresh

LEMMA Stays ==
    ASSUME TypeInv, WindowInv, Attached, [Next]_vars, UNCHANGED <<client.conn, client.read, client.seen, client.newest>>,
           handler'[client.conn].sent = handler[client.conn].sent,
           handler'[client.conn].delivered = handler[client.conn].delivered,
           ToSet(hub[client.conn].buf) \subseteq ToSet(hub'[client.conn].buf),
           NEW j \in DOMAIN log, Coming(j), Acceptable(j)
    PROVE  Coming(j)' /\ Acceptable(j)'
<1>1. log'[j].kind = log[j].kind /\ UNCHANGED setting
  BY LogKinds
<1>2. Unread' = Unread
  BY DEF Unread
<1>3. Due(log[j].kind)'
  BY <1>1 DEF Due, Coming
<1> QED BY <1>2, <1>3, FreshKept DEF Coming

(* A handler that runs on sends what is due, and does not lose it; a replay that  *)
(* succeeds sends its rows too.                                               *)
LEMMA KeptReplay ==
    ASSUME TypeInv, ConnInv, WindowInv, Modes, Attached, [Next]_vars, Replay(client.conn), client.conn \in Conns,
           NEW j \in DOMAIN log, Coming(j) \/ (Due(log[j].kind) /\ j \in ReplayRows(client.conn)), Acceptable(j)
    PROVE  Away' \/ (Coming(j)' /\ Acceptable(j)')
<1> DEFINE c == client.conn
           rows == ReplayRows(c)
<1>t. /\ handler \in [Conns -> Handler] /\ handler[c] \in Handler /\ client.read \in Nat /\ hub[c] \in Channel
      /\ UNCHANGED <<client, hub, log, setting>>
  BY TypesOf DEF Client, Replay, logger
<1>0. handler[c].pc = "replay" /\ handler[c].sent = <<>> /\ handler[c].delivered = {}
  BY DEF Replay, ConnInv, Conn, Life
<1>1. client.read = 0
  BY <1>t, <1>0 DEF Modes
<1>2. Unread = {}
  BY <1>0, <1>1 DEF Unread
<1>f. Acceptable(j)'
  BY <1>t, FreshKept
<1>r. /\ rows \subseteq Nat /\ IsFiniteSet(rows) /\ rows \subseteq Ids /\ InOrder(rows) \in Seq(0 .. MaxEvents + 1)
      /\ Append(InOrder(rows), Summary) \in Seq(0 .. MaxEvents + 1) /\ Summary \in 0 .. MaxEvents + 1
  BY ReplayFrames, Bounds
<1>o. ToSet(InOrder(rows)) = rows
  BY <1>r, Ordered
<1>3. PICK h : /\ handler' = [handler EXCEPT ![c] = h]
               /\ \/ h = [handler[c] EXCEPT !.pc = "stream", !.unreplayed = {}, !.sent = <<Resync>>]
                  \/ h = [handler[c] EXCEPT !.pc = "stream", !.unreplayed = {}, !.delivered = rows, !.sent = InOrder(rows)]
                  \/ h = [handler[c] EXCEPT !.pc = "stream", !.unreplayed = {}, !.delivered = rows, !.sent = Append(InOrder(rows), Summary)]
  BY ReplayCases
<1> HIDE DEF rows
<1>4. handler'[c] = h
  BY <1>t, <1>3
<1>u. ASSUME NEW s \in Seq(0 .. MaxEvents + 1), h.sent = s PROVE Unread' = ToSet(s)
  <2>1. Unread' = {s[n] : n \in 0 + 1 .. Len(s)}
    BY <1>t, <1>1, <1>4, <1>u DEF Unread
  <2>2. DOMAIN s = 1 .. Len(s)
    BY <1>u
  <2> QED BY <2>1, <2>2 DEF ToSet
<1>5. CASE h = [handler[c] EXCEPT !.pc = "stream", !.unreplayed = {}, !.sent = <<Resync>>]
  <2>1. h.sent = <<Resync>>
    BY <1>t, <1>5 DEF Handler
  <2>2. <<Resync>> \in Seq(0 .. MaxEvents + 1)
    BY ReplayFrames
  <2>3. Unread' = ToSet(<<Resync>>)
    BY <1>u, <2>1, <2>2
  <2>4. Resync \in ToSet(<<Resync>>)
    BY DEF ToSet
  <2> QED BY <2>3, <2>4 DEF Away
<1>6. CASE \/ h = [handler[c] EXCEPT !.pc = "stream", !.unreplayed = {}, !.delivered = rows, !.sent = InOrder(rows)]
           \/ h = [handler[c] EXCEPT !.pc = "stream", !.unreplayed = {}, !.delivered = rows, !.sent = Append(InOrder(rows), Summary)]
  <2>1. h.delivered = rows /\ (h.sent = InOrder(rows) \/ h.sent = Append(InOrder(rows), Summary))
    BY <1>t, <1>6 DEF Handler
  <2>2. rows \subseteq Unread'
    <3>1. CASE h.sent = InOrder(rows)
      BY <1>o, <1>r, <1>u, <3>1
    <3>2. CASE h.sent = Append(InOrder(rows), Summary)
      <4>1. Unread' = ToSet(Append(InOrder(rows), Summary))
        BY <1>r, <1>u, <3>2
      <4>2. \A x : x \in ToSet(InOrder(rows)) => x \in ToSet(Append(InOrder(rows), Summary))
        <5> DEFINE T == 0 .. MaxEvents + 1
                   one == InOrder(rows)
        <5>1. one \in Seq(T) /\ Summary \in T
          BY <1>r
        <5> HIDE DEF T, one
        <5>2. \A x : x \in ToSet(one) => x \in ToSet(Append(one, Summary))
          BY <5>1, AppendMembers
        <5> QED BY <5>2 DEF one
      <4> QED BY <1>o, <4>1, <4>2
    <3> QED BY <2>1, <3>1, <3>2
  <2>3. Due(log[j].kind)'
    BY <1>t DEF Coming, Due
  <2>4. j \in rows \/ j \in ToSet(hub[c].buf)
    BY <1>2 DEF Coming, rows
  <2>5. j \in Unread' \/ (j \in ToSet(hub'[c].buf) /\ j \notin handler'[c].delivered)
    BY <1>t, <1>4, <2>1, <2>2, <2>4
  <2> QED BY <1>t, <1>f, <2>3, <2>5 DEF Coming
<1> QED BY <1>3, <1>5, <1>6

LEMMA KeptStream ==
    ASSUME TypeInv, ConnInv, WindowInv, Modes, Attached, [Next]_vars, Stream(client.conn), client.conn \in Conns,
           NEW j \in DOMAIN log, Coming(j), Acceptable(j)
    PROVE  Coming(j)' /\ Acceptable(j)'
<1> DEFINE c == client.conn
           head == Head(hub[c].buf)
<1>t. /\ hub \in [Conns -> Channel] /\ handler \in [Conns -> Handler] /\ handler[c] \in Handler /\ client.read \in Nat
      /\ hub[c] \in Channel /\ UNCHANGED <<client, log, setting>>
  BY TypesOf DEF Client, Stream, logger
<1>0. handler[c].pc = "stream" /\ hub[c].buf \in Seq(0 .. MaxEvents) /\ hub[c].buf # <<>> /\ handler[c].sent \in Seq(0 .. MaxEvents + 1)
  BY <1>t DEF Stream, Channel, Handler
<1>f. Acceptable(j)' /\ Due(log[j].kind)'
  BY <1>t, FreshKept DEF Coming, Due
<1>1. hub'[c].buf = Tail(hub[c].buf)
  BY <1>t DEF Stream, Channel
<1>2. head \in 0 .. MaxEvents /\ ToSet(hub[c].buf) = {head} \cup ToSet(Tail(hub[c].buf))
  BY <1>0, TailSet
<1>3. handler'[c].sent = (IF Forward(c, head) THEN Append(handler[c].sent, head) ELSE handler[c].sent)
      /\ handler'[c].delivered = handler[c].delivered
  BY <1>t DEF Stream, Handler
<1>h. head \in 0 .. MaxEvents + 1
  BY <1>2, Bounds
<1> HIDE DEF head
<1>a. Append(handler[c].sent, head) \in Seq(0 .. MaxEvents + 1) /\ Len(Append(handler[c].sent, head)) = Len(handler[c].sent) + 1
      /\ Append(handler[c].sent, head)[Len(handler[c].sent) + 1] = head
  BY <1>0, <1>h, AppendSet
<1>l. client.read <= Len(handler[c].sent) /\ Len(handler[c].sent) \in Nat
  BY <1>0 DEF Modes
<1>4. Unread \subseteq Unread'
  <2>1. Len(handler[c].sent) <= Len(handler'[c].sent) /\ \A n \in 1 .. Len(handler[c].sent) : handler'[c].sent[n] = handler[c].sent[n]
    BY SentGrows
  <2>2. Len(handler'[c].sent) \in Nat
    BY <1>3, <1>a, <1>l
  <2> QED BY <1>t, <2>1, <2>2, UnreadGrows
<1>5. Forward(c, head) => head \in Unread'
  <2> SUFFICES ASSUME Forward(c, head) PROVE head \in Unread'
    OBVIOUS
  <2> DEFINE s == handler'[c].sent
  <2>1. s[Len(handler[c].sent) + 1] = head /\ Len(s) = Len(handler[c].sent) + 1
    BY <1>3, <1>a
  <2>2. Unread' = {s[n] : n \in client.read + 1 .. Len(s)}
    BY <1>t DEF Unread
  <2> HIDE DEF s
  <2>3. Len(s) \in client.read + 1 .. Len(s)
    BY <1>t, <1>l, <2>1
  <2> QED BY <2>1, <2>2, <2>3
<1>6. CASE j \in Unread
  BY <1>4, <1>6, <1>f, <1>t DEF Coming
<1>7. CASE j \in ToSet(hub[c].buf) /\ j \notin handler[c].delivered
  <2>1. CASE j = head
    <3>1. Forward(c, head)
      BY <1>7, <2>1 DEF Forward, Coming, Due
    <3> QED BY <1>5, <1>f, <1>t, <2>1, <3>1 DEF Coming
  <2>2. CASE j \in ToSet(Tail(hub[c].buf))
    BY <1>1, <1>3, <1>7, <1>f, <1>t, <2>2 DEF Coming
  <2> QED BY <1>2, <1>7, <2>1, <2>2
<1> QED BY <1>0, <1>6, <1>7 DEF Coming

(* Reading a frame uses it up: another one on its way stays, unless the page is  *)
(* about to reload, for a later event of the same resource or for this one.    *)
LEMMA KeptRead ==
    ASSUME TypeInv, ConnInv, WindowInv, Modes, Attached, [Next]_vars, ReadEvent,
           NEW j \in DOMAIN log, Concerns(log[j].kind), Coming(j), Acceptable(j)
    PROVE  page'.timer = 2 \/ (Coming(j)' /\ Acceptable(j)')
<1> PICK i : i = Frame
  OBVIOUS
<1>r. /\ i = Summary \/ (i \in DOMAIN log /\ Due(log[i].kind))
      /\ client'.seen = client.seen \cup ({i} \ {Summary})
      /\ client'.newest = IF Accepted(i) /\ i # Summary
                          THEN {k \in client.newest : Resource(log[k].kind) # Resource(log[i].kind)} \cup {i}
                          ELSE client.newest
      /\ client'.read = client.read + 1 /\ client'.pc = client.pc /\ client'.conn = client.conn
      /\ Accepted(i) /\ i # Summary /\ PrefixesOf(log[i].kind.type) \cap setting.prefixes # {} => page'.timer = 2
      /\ UNCHANGED <<log, recent, burst, setting, handler, hub>> /\ client.conn \in Conns
  BY ReadFacts
<1>t. /\ client.read \in Nat /\ Len(handler[client.conn].sent) \in Nat /\ 0 \notin DOMAIN log
      /\ handler[client.conn].sent[client.read + 1] = i
  <2>1. client \in Client /\ handler \in [Conns -> Handler] /\ DOMAIN log \subseteq Ids
    BY TypesOf
  <2>2. handler[client.conn] \in Handler
    BY <1>r, <2>1
  <2>3. client.read \in Nat /\ Len(handler[client.conn].sent) \in Nat
    BY <2>1, <2>2 DEF Client, Handler
  <2> QED BY <2>1, <2>3, Bounds DEF Frame
<1>c. PrefixesOf(log[j].kind.type) \cap setting.prefixes # {}
  BY DEF Concerns
<1>1. CASE j = i
  <2>1. Accepted(i) /\ i # Summary
    BY <1>1, <1>t DEF Accepted, Acceptable, Summary
  <2> QED BY <1>1, <1>c, <1>r, <2>1
<1>2. CASE j # i /\ Accepted(i) /\ i # Summary /\ Resource(log[j].kind) = Resource(log[i].kind)
  <2>1. log[j].kind.type \in Types /\ log[i].kind.type \in Types
    BY <1>2, <1>r, KindTypes
  <2>2. PrefixesOf(log[j].kind.type) \subseteq PrefixesOf(log[i].kind.type)
    BY <1>2, <2>1, SameResource, ConcernsTypes
  <2> QED BY <1>2, <1>c, <1>r, <2>2
<1>3. CASE j # i /\ ~(Accepted(i) /\ i # Summary /\ Resource(log[j].kind) = Resource(log[i].kind))
  <2>1. Acceptable(j)'
    <3>1. j \notin client'.seen
      BY <1>3, <1>r DEF Acceptable
    <3>2. \A k \in client'.newest : Resource(log[k].kind) = Resource(log[j].kind) => j > k
      BY <1>3, <1>r DEF Acceptable, Fresh
    <3> QED BY <1>r, <3>1, <3>2 DEF Acceptable, Fresh
  <2>2. j \in Unread => j \in Unread'
    <3> SUFFICES ASSUME NEW n \in client.read + 1 .. Len(handler[client.conn].sent), handler[client.conn].sent[n] = j
                 PROVE  j \in Unread'
      BY DEF Unread
    <3>1. n # client.read + 1
      BY <1>3, <1>t
    <3>2. n \in (client.read + 1) + 1 .. Len(handler[client.conn].sent)
      BY <1>t, <3>1
    <3>3. Unread' = {handler[client.conn].sent[m] : m \in (client.read + 1) + 1 .. Len(handler[client.conn].sent)}
      BY <1>r DEF Unread
    <3> QED BY <3>2, <3>3
  <2>3. Due(log[j].kind)' <=> Due(log[j].kind)
    BY <1>r DEF Due
  <2> QED BY <1>r, <2>1, <2>2, <2>3 DEF Coming
<1> QED BY <1>1, <1>2, <1>3

LEMMA BufferKept ==
    ASSUME TypeInv, NEW i \in DOMAIN log, Publish(i) \/ FireSummary, NEW c \in Conns
    PROVE  /\ ToSet(hub[c].buf) \subseteq ToSet(hub'[c].buf)
           /\ ~hub[c].open => ~hub'[c].open
<1>t. hub \in [Conns -> Channel] /\ hub[c] \in Channel /\ i \in 0 .. MaxEvents /\ Summary \in 0 .. MaxEvents
  BY TypesOf, Bounds
<1>b. hub[c].buf \in Seq(0 .. MaxEvents)
  BY <1>t DEF Channel
<1>1. ASSUME NEW e \in 0 .. MaxEvents PROVE ToSet(hub[c].buf) \subseteq ToSet(Append(hub[c].buf, e))
  <2> DEFINE T == 0 .. MaxEvents
             s == hub[c].buf
  <2>1. s \in Seq(T) /\ e \in T
    BY <1>b, <1>1
  <2> HIDE DEF T, s
  <2>2. \A x : x \in ToSet(s) => x \in ToSet(Append(s, e))
    BY <2>1, AppendMembers
  <2> QED BY <2>2 DEF s
<1>2. ASSUME \/ hub'[c] = hub[c] \/ hub'[c] = [hub[c] EXCEPT !.open = FALSE]
             \/ \E e \in 0 .. MaxEvents : hub[c].open /\ hub'[c] = [hub[c] EXCEPT !.buf = Append(hub[c].buf, e)]
      PROVE  ToSet(hub[c].buf) \subseteq ToSet(hub'[c].buf) /\ (~hub[c].open => ~hub'[c].open)
  <2>1. CASE hub'[c] = hub[c]
    BY <2>1
  <2>2. CASE hub'[c] = [hub[c] EXCEPT !.open = FALSE]
    <3>1. hub'[c].buf = hub[c].buf /\ ~hub'[c].open
      BY <1>t, <2>2 DEF Channel
    <3> QED BY <3>1
  <2>3. ASSUME NEW e \in 0 .. MaxEvents, hub[c].open, hub'[c] = [hub[c] EXCEPT !.buf = Append(hub[c].buf, e)]
        PROVE  ToSet(hub[c].buf) \subseteq ToSet(hub'[c].buf) /\ (~hub[c].open => ~hub'[c].open)
    <3>1. hub'[c].buf = Append(hub[c].buf, e)
      BY <1>t, <2>3 DEF Channel
    <3> QED BY <1>1, <2>3, <3>1
  <2> QED BY <1>2, <2>1, <2>2, <2>3
<1>3. CASE Publish(i)
  <2>1. \/ UNCHANGED hub
        \/ hub' = [d \in Conns |-> IF hub[d].open /\ Matches(setting.scopes, log[i].kind)
                                   THEN Offer(hub[d], i, log[i].kind) ELSE hub[d]]
    BY <1>3 DEF Publish
  <2>2. hub'[c] = hub[c] \/ (hub[c].open /\ hub'[c] = Offer(hub[c], i, log[i].kind))
    BY <2>1
  <2>3. \/ Offer(hub[c], i, log[i].kind) = [hub[c] EXCEPT !.buf = Append(hub[c].buf, i)]
        \/ Offer(hub[c], i, log[i].kind) = hub[c]
        \/ Offer(hub[c], i, log[i].kind) = [hub[c] EXCEPT !.open = FALSE]
    BY DEF Offer
  <2> QED BY <1>2, <1>t, <2>2, <2>3
<1>4. CASE FireSummary
  <2>1. hub'[c] = hub[c] \/ (hub[c].open /\ hub'[c] = [hub[c] EXCEPT !.buf = Append(hub[c].buf, Summary)])
    BY <1>4 DEF FireSummary
  <2> QED BY <1>2, <1>t, <2>1
<1> QED BY <1>3, <1>4

(* A client that is to go stays so until it has gone, or is back and reloads. *)
LEMMA AwayKept ==
    ASSUME TypeInv, ConnInv, Modes, Attached, Attached', [Next]_vars, Away
    PROVE  Away' \/ page'.timer = 2
<1> DEFINE c == client.conn
<1>t. client \in Client /\ page \in Page /\ c \in Conns /\ hub \in [Conns -> Channel] /\ handler \in [Conns -> Handler]
      /\ handler[c].pc # "free"
  BY TypesOf DEF TypeInv, Connection
<1>1. ASSUME UNCHANGED client, page'.dirty = page.dirty \/ page'.dirty,
             handler'[c].pc = handler[c].pc \/ handler'[c].pc = "ended", ~hub[c].open => ~hub'[c].open, Unread \subseteq Unread'
      PROVE  Away'
  BY <1>1 DEF Away
<1>2. ASSUME UNCHANGED client, page'.dirty = page.dirty, handler'[c] = handler[c], ~hub[c].open => ~hub'[c].open PROVE Away'
  <2>1. Unread' = Unread
    BY <1>2 DEF Unread
  <2> QED BY <1>1, <1>2, <2>1
<1>3. CASE Insert \/ Reload \/ Poll \/ Tick \/ (\E d \in Conns : Ping(d)) \/ UNCHANGED vars
  <2>1. UNCHANGED <<client, handler, hub>>
    BY <1>3 DEF Insert, Reload, Poll, Tick, Ping, vars, server
  <2>2. page'.dirty = page.dirty
    <3>1. \E x, y : \/ page' = [page EXCEPT !.timer = x, !.view = y] \/ page' = [page EXCEPT !.timer = x]
                    \/ page' = [page EXCEPT !.view = y] \/ page' = page
      BY <1>3 DEF Insert, Reload, Poll, Tick, Ping, vars
    <3> QED BY <1>t, <3>1 DEF Page
  <2> QED BY <1>2, <2>1, <2>2
<1>4. CASE LogStep
  <2> PICK i \in DOMAIN log : Commit(i) \/ Publish(i)
    BY <1>4 DEF LogStep
  <2>1. UNCHANGED <<client, page, handler>>
    BY StageFacts
  <2>2. ~hub[c].open => ~hub'[c].open
    <3>1. CASE Commit(i)
      BY <3>1 DEF Commit, server
    <3>2. CASE Publish(i)
      BY <1>t, <3>2, BufferKept
    <3> QED BY <3>1, <3>2
  <2> QED BY <1>2, <2>1, <2>2
<1>5. CASE FireSummary
  <2>1. UNCHANGED <<client, page, handler>>
    BY <1>5 DEF FireSummary
  <2>2. ~hub[c].open => ~hub'[c].open
    BY <1>t, <1>5 DEF FireSummary
  <2> QED BY <1>2, <2>1, <2>2
<1>6. ASSUME NEW d \in Conns, Replay(d) \/ ReplayFails(d) \/ Stream(d) \/ Return(d) PROVE Away'
  <2>1. UNCHANGED <<client, page>>
    BY <1>6 DEF Replay, ReplayFails, Stream, Return
  <2>2. CASE d # c
    <3>1. handler'[c] = handler[c] /\ hub'[c] = hub[c]
      BY <1>6, <1>t, <2>2, OtherConns
    <3> QED BY <1>2, <2>1, <3>1
  <2>3. CASE d = c
    <3>1. Return(c) => handler'[c].pc = "ended"
      BY <1>t DEF Return, Handler
    <3>2. handler[c].pc # "ended"
      BY <1>6, <2>3 DEF Replay, ReplayFails, Stream, Return
    <3>3. ~Return(c) => hub[c].open = hub'[c].open
      <4>1. CASE Replay(c)
        BY <4>1 DEF Replay
      <4>3. CASE ReplayFails(c)
        BY <4>3 DEF ReplayFails
      <4>2. CASE Stream(c)
        <5>1. hub' = [hub EXCEPT ![c] = [hub[c] EXCEPT !.buf = Tail(hub[c].buf)]] /\ hub[c] \in Channel
          BY <1>t, <4>2 DEF Stream
        <5>2. hub'[c] = [hub[c] EXCEPT !.buf = Tail(hub[c].buf)]
          BY <1>t, <5>1
        <5> QED BY <5>1, <5>2 DEF Channel
      <4> QED BY <1>6, <2>3, <4>1, <4>2, <4>3
    <3>4. Unread \subseteq Unread'
      <4>1. /\ Len(handler[c].sent) <= Len(handler'[c].sent)
            /\ \A n \in 1 .. Len(handler[c].sent) : handler'[c].sent[n] = handler[c].sent[n]
        BY <1>6, <2>3, SentGrows
      <4>2. TypeInv'
        BY <1>6, TypeReplay, TypeFails, TypeStream, TypeReturn
      <4>3. handler'[c] \in Handler
        BY <1>t, <4>2 DEF TypeInv, TypeOK, Handler
      <4>4. Len(handler'[c].sent) \in Nat
        BY <4>3 DEF Handler
      <4> QED BY <2>1, <4>1, <4>4, UnreadGrows
    <3> QED BY <2>1, <3>1, <3>2, <3>3, <3>4 DEF Away
  <2> QED BY <2>2, <2>3
<1>7. CASE Mount \/ Handoff \/ \E d \in Conns : Accept(d)
  BY <1>7 DEF Mount, Handoff, Accept, Attached
<1>8. CASE SnapshotArrives \/ EndOfStream \/ Drop
  BY <1>8, <1>t DEF SnapshotArrives, EndOfStream, Drop, Redial, Client, Attached
<1>9. CASE Connected
  <2>1. client'.conn = client.conn /\ client'.read = client.read /\ UNCHANGED <<handler, hub>>
    BY <1>9, <1>t DEF Connected, Client, server
  <2>2. page.dirty => page'.timer = 2
    BY <1>9, <1>t DEF Connected, CatchUp, Debounce, Page
  <2> QED BY <2>1, <2>2 DEF Away, Unread
<1>10. CASE ReadResync
  <2>1. page'.dirty
    BY <1>10, <1>t DEF ReadResync, Page
  <2> QED BY <2>1 DEF Away
<1>11. CASE ReadEvent
  <2>1. /\ client'.read = client.read + 1 /\ client'.conn = client.conn /\ UNCHANGED <<handler, hub>>
        /\ Frame # Resync
    BY <1>11, ReadFacts DEF ReadEvent
  <2>2. page'.dirty = page.dirty
    <3>1. \E x : page' = [page EXCEPT !.timer = x]
      BY <1>11 DEF ReadEvent
    <3> QED BY <1>t, <3>1 DEF Page
  <2>3. Resync \in Unread => Resync \in Unread'
    <3> SUFFICES ASSUME NEW n \in client.read + 1 .. Len(handler[c].sent), handler[c].sent[n] = Resync PROVE Resync \in Unread'
      BY DEF Unread
    <3>0. client.read \in Nat /\ Len(handler[c].sent) \in Nat
      BY <1>11, FrameKnown, <1>t DEF ReadEvent, Handler
    <3>1. n # client.read + 1
      BY <2>1 DEF Frame
    <3>2. n \in (client.read + 1) + 1 .. Len(handler[c].sent)
      BY <3>0, <3>1
    <3>3. Unread' = {handler[c].sent[m] : m \in (client.read + 1) + 1 .. Len(handler[c].sent)}
      BY <2>1 DEF Unread
    <3> QED BY <3>2, <3>3
  <2> QED BY <2>1, <2>2, <2>3 DEF Away
<1> QED BY <1>3, <1>4, <1>5, <1>6, <1>7, <1>8, <1>9, <1>10, <1>11 DEF Next, ServerStep, ClientStep

(* What is on its way to the page stays on it, or the page reloads, or the      *)
(* client goes.                                                              *)
LEMMA Kept ==
    ASSUME TypeInv, ConnInv, WindowInv, Modes, Attached, Attached', [Next]_vars,
           NEW j \in DOMAIN log, Concerns(log[j].kind), Coming(j), Acceptable(j)
    PROVE  Away' \/ page'.timer = 2 \/ (Coming(j)' /\ Acceptable(j)')
<1> DEFINE c == client.conn
<1>t. client \in Client /\ c \in Conns /\ hub \in [Conns -> Channel] /\ handler \in [Conns -> Handler] /\ page \in Page
  BY TypesOf DEF TypeInv, Connection
<1>1. ASSUME UNCHANGED <<client.conn, client.read, client.seen, client.newest>>, handler'[c].sent = handler[c].sent,
             handler'[c].delivered = handler[c].delivered, ToSet(hub[c].buf) \subseteq ToSet(hub'[c].buf)
      PROVE  Coming(j)' /\ Acceptable(j)'
  BY <1>1, Stays
<1>2. CASE Reload \/ Poll \/ Tick \/ (\E d \in Conns : Ping(d)) \/ UNCHANGED vars
  <2>1. UNCHANGED <<client, handler, hub>>
    BY <1>2 DEF Reload, Poll, Tick, Ping, vars, server
  <2> QED BY <1>1, <2>1
<1>3. CASE Insert
  <2>1. UNCHANGED <<client, handler, hub>>
    BY <1>3 DEF Insert, server
  <2> QED BY <1>1, <2>1
<1>4. CASE LogStep
  <2> PICK i \in DOMAIN log : Commit(i) \/ Publish(i)
    BY <1>4 DEF LogStep
  <2>1. UNCHANGED <<client, page, handler>>
    BY StageFacts
  <2>2. ToSet(hub[c].buf) \subseteq ToSet(hub'[c].buf)
    <3>1. CASE Commit(i)
      BY <3>1 DEF Commit, server
    <3>2. CASE Publish(i)
      BY <1>t, <3>2, BufferKept
    <3> QED BY <3>1, <3>2
  <2> QED BY <1>1, <2>1, <2>2
<1>5. CASE FireSummary
  <2>1. UNCHANGED <<client, page, handler>>
    BY <1>5 DEF FireSummary
  <2>2. ToSet(hub[c].buf) \subseteq ToSet(hub'[c].buf)
    BY <1>5, <1>t, BufferKept
  <2> QED BY <1>1, <2>1, <2>2
<1>6. ASSUME NEW d \in Conns, Replay(d) \/ ReplayFails(d) \/ Stream(d) \/ Return(d) PROVE Away' \/ (Coming(j)' /\ Acceptable(j)')
  <2>1. CASE d # c
    <3>1. handler'[c] = handler[c] /\ hub'[c] = hub[c]
      BY <1>6, <1>t, <2>1, OtherConns
    <3>2. UNCHANGED client
      BY <1>6 DEF Replay, ReplayFails, Stream, Return
    <3> QED BY <1>1, <3>1, <3>2
  <2>2. CASE d = c /\ Replay(c)
    BY <1>t, <2>2, KeptReplay
  <2>3. CASE d = c /\ Stream(c)
    BY <1>t, <2>3, KeptStream
  <2>4. CASE d = c /\ Return(c)
    <3>1. handler'[c].pc = "ended" /\ UNCHANGED client
      BY <1>t, <2>4 DEF Return, Handler
    <3> QED BY <3>1 DEF Away
  <2>5. CASE d = c /\ ReplayFails(c)
    BY <1>1, <1>t, <2>5, FailedHandler
  <2> QED BY <1>6, <2>1, <2>2, <2>3, <2>4, <2>5
<1>7. CASE Mount \/ Handoff \/ \E d \in Conns : Accept(d)
  BY <1>7 DEF Mount, Handoff, Accept, Attached
<1>8. CASE SnapshotArrives \/ EndOfStream \/ Drop
  BY <1>8, <1>t DEF SnapshotArrives, EndOfStream, Drop, Redial, Client, Attached
<1>9. CASE Connected
  <2>1. UNCHANGED <<client.conn, client.read, client.seen, client.newest>> /\ UNCHANGED <<handler, hub>>
    BY <1>9, <1>t DEF Connected, Client, server
  <2> QED BY <1>1, <2>1
<1>10. CASE ReadResync
  <2>1. page'.dirty
    BY <1>10, <1>t DEF ReadResync, Page
  <2> QED BY <2>1 DEF Away
<1>11. CASE ReadEvent
  BY <1>11, KeptRead
<1> QED BY <1>2, <1>3, <1>4, <1>5, <1>6, <1>7, <1>8, <1>9, <1>10, <1>11 DEF Next, ServerStep, ClientStep

LEMMA WayKept ==
    ASSUME TypeInv, ConnInv, WindowInv, Modes, Attached, Attached', [Next]_vars, OneChain,
           NEW l \in setting.kinds, Concerns(l), Away \/ Pending(Key(l))
    PROVE  Away' \/ page'.timer = 2 \/ Pending(Key(l))'
<1>1. CASE Away
  BY <1>1, AwayKept
<1>2. CASE Pending(Key(l))
  <2>1. PICK j \in DOMAIN log : Coming(j) /\ Acceptable(j) /\ Key(log[j].kind) = Key(l)
    BY <1>2 DEF Pending
  <2>2. log[j].kind \in setting.kinds
    BY TypesOf
  <2>3. Concerns(log[j].kind)
    BY <2>1, <2>2, SameKey
  <2>4. Away' \/ page'.timer = 2 \/ (Coming(j)' /\ Acceptable(j)')
    BY <2>1, <2>3, Kept
  <2>5. j \in DOMAIN log' /\ Key(log'[j].kind) = Key(l)
    BY <2>1, LogKinds
  <2> QED BY <2>4, <2>5 DEF Pending
<1> QED BY <1>1, <1>2

(* While the client keeps its connection, only a replay that succeeds deals with  *)
(* what was over before.                                                      *)
LEMMA SameConnection ==
    ASSUME TypeInv, Attached, Attached', [Next]_vars
    PROVE  /\ client'.conn = client.conn /\ client'.first = client.first
           /\ ~Replay(client.conn) =>
                /\ handler'[client.conn].unreplayed = handler[client.conn].unreplayed
                /\ handler'[client.conn].after = handler[client.conn].after
                /\ handler'[client.conn].pc = "replay" => handler[client.conn].pc = "replay"
           /\ Replay(client.conn) => handler'[client.conn].unreplayed = {} /\ handler'[client.conn].pc = "stream"
<1> DEFINE c == client.conn
<1>t. client \in Client /\ c \in Conns /\ hub \in [Conns -> Channel] /\ handler \in [Conns -> Handler] /\ handler[c] \in Handler
  BY TypesOf DEF TypeInv, Connection
<1>a. ASSUME Replay(c)
      PROVE  handler'[c].unreplayed = {} /\ handler'[c].pc = "stream"
  <2> PICK h : /\ handler' = [handler EXCEPT ![c] = h]
               /\ \/ h = [handler[c] EXCEPT !.pc = "stream", !.unreplayed = {}, !.sent = <<Resync>>]
                  \/ h = [handler[c] EXCEPT !.pc = "stream", !.unreplayed = {}, !.delivered = ReplayRows(c),
                                            !.sent = InOrder(ReplayRows(c))]
                  \/ h = [handler[c] EXCEPT !.pc = "stream", !.unreplayed = {}, !.delivered = ReplayRows(c),
                                            !.sent = Append(InOrder(ReplayRows(c)), Summary)]
    BY <1>a, <1>t, ReplayCases, Zenon
  <2>1. h.unreplayed = {} /\ h.pc = "stream"
    BY <1>t DEF Handler
  <2>2. handler'[c] = h
    BY <1>t
  <2> QED BY <2>1, <2>2
<1>b. ASSUME client'.conn = c, client'.first = client.first, handler'[c] = handler[c]
      PROVE  /\ client'.conn = c /\ client'.first = client.first
             /\ handler'[c].unreplayed = handler[c].unreplayed /\ handler'[c].after = handler[c].after
             /\ handler'[c].pc = "replay" => handler[c].pc = "replay"
  BY <1>b
<1>1. CASE Insert \/ LogStep \/ FireSummary \/ Reload \/ Poll \/ Tick \/ (\E d \in Conns : Ping(d)) \/ UNCHANGED vars
  <2>1. UNCHANGED <<client, handler>>
    BY <1>1 DEF Insert, LogStep, Commit, Publish, FireSummary, Reload, Poll, Tick, Ping, vars, server
  <2> QED BY <1>a, <2>1
<1>2. ASSUME NEW d \in Conns, Replay(d) \/ ReplayFails(d) \/ Stream(d) \/ Return(d)
      PROVE  /\ client'.conn = c /\ client'.first = client.first
             /\ ~Replay(c) => /\ handler'[c].unreplayed = handler[c].unreplayed /\ handler'[c].after = handler[c].after
                              /\ handler'[c].pc = "replay" => handler[c].pc = "replay"
  <2>1. UNCHANGED client
    BY <1>2 DEF Replay, ReplayFails, Stream, Return
  <2>2. CASE d # c
    BY <1>2, <1>t, <2>1, <2>2, OtherConns
  <2>3. CASE d = c /\ ReplayFails(c)
    BY <1>t, <2>1, <2>3, FailedHandler
  <2>4. CASE d = c /\ Stream(c)
    <3>1. \E s : handler' = [handler EXCEPT ![c].sent = s]
      BY <2>4 DEF Stream
    <3> QED BY <1>t, <2>1, <3>1 DEF Handler
  <2>5. CASE d = c /\ Return(c)
    <3>1. handler' = [handler EXCEPT ![c] = [handler[c] EXCEPT !.pc = "ended"]]
      BY <1>t, <2>5 DEF Return
    <3> QED BY <1>t, <2>1, <3>1 DEF Handler
  <2> QED BY <1>2, <2>1, <2>2, <2>3, <2>4, <2>5
<1>3. CASE Connected \/ ReadEvent \/ ReadResync
  <2>1. client'.conn = c /\ client'.first = client.first /\ UNCHANGED handler
    <3>1. CASE Connected \/ ReadResync
      BY <1>t, <3>1 DEF Connected, ReadResync, Client, server
    <3>2. CASE ReadEvent
      <4>1. \E r, e, k, n : client' = [client EXCEPT !.read = r, !.seen = e, !.cursor = k, !.newest = n]
        BY <3>2 DEF ReadEvent
      <4> QED BY <1>t, <3>2, <4>1 DEF ReadEvent, Client, server
    <3> QED BY <1>3, <3>1, <3>2
  <2> QED BY <1>a, <2>1
<1>4. CASE Mount \/ Handoff \/ \E d \in Conns : Accept(d)
  BY <1>4 DEF Mount, Handoff, Accept, Attached
<1>5. CASE SnapshotArrives \/ EndOfStream \/ Drop
  BY <1>5, <1>t DEF SnapshotArrives, EndOfStream, Drop, Redial, Client, Attached
<1> QED BY <1>a, <1>1, <1>2, <1>3, <1>4, <1>5 DEF Next, ServerStep, ClientStep

(* A client gets a connection by being accepted. *)
LEMMA Arrives == ASSUME TypeInv, [Next]_vars, Attached', ~Attached PROVE \E c \in Conns : Accept(c)
<1>1. client \in Client
  BY TypesOf
<1>2. ~(Mount \/ Handoff \/ Connected \/ ReadEvent \/ ReadResync \/ SnapshotArrives \/ EndOfStream \/ Drop)
  BY <1>1 DEF Mount, Handoff, Connected, ReadEvent, HasFrame, ReadResync, SnapshotArrives, EndOfStream, Drop, Redial,
              Attached, Client
<1>3. client' # client
  BY DEF Attached
<1>4. ~(Reload \/ Poll \/ Tick)
  BY <1>3 DEF Reload, Poll, Tick
<1> QED BY <1>2, <1>3, <1>4, PageStill

(* What is projected stays so, and how it was published is settled. *)
LEMMA ProjectedStays ==
    ASSUME TypeInv, [Next]_vars, NEW i \in Projected
    PROVE  i \in Projected' /\ log'[i] = log[i] /\ i \in DOMAIN log
<1>0. i \in DOMAIN log /\ i \notin InLog
  BY DEF Projected, Visible, InLog
<1>1. CASE Insert
  BY <1>0, <1>1, InsertFacts
<1>2. CASE LogStep
  <2> PICK n \in DOMAIN log : Commit(n) \/ Publish(n)
    BY <1>2 DEF LogStep
  <2> QED BY <1>0, StageFacts
<1>3. CASE ~Insert /\ ~LogStep
  <2>1. UNCHANGED log
    BY <1>3, LogStill
  <2> QED BY <1>0, <2>1 DEF Projected, Visible
<1> QED BY <1>1, <1>2, <1>3

LEMMA FirstStep == ASSUME TypeInv, ConnInv, NeverInv, Modes, FirstInv, [Next]_vars PROVE FirstInv'
<1>t. client \in Client /\ handler \in [Conns -> Handler]
  BY TypesOf
<1>1. CASE ~Attached'
  BY <1>1 DEF FirstInv
<1>2. CASE Attached' /\ ~Attached
  <2>1. PICK c \in Conns : Accept(c)
    BY <1>2, Arrives
  <2>2. /\ handler'[c].unreplayed = {i \in Projected : i > After} /\ handler'[c].after = After
        /\ client'.conn = c /\ client'.first = ~client.ever /\ client'.seen = client.seen
    BY <1>t, <2>1 DEF Accept, Free, Client
  <2>3. Projected' = Projected
    BY <2>1 DEF Accept, logger, Projected, Visible
  <2>4. ~client.ever => client.seen = {}
    BY DEF NeverInv
  <2> QED BY <2>2, <2>3, <2>4 DEF FirstInv
<1>3. CASE Attached' /\ Attached
  <2> DEFINE c == client.conn
  <2>1. /\ client'.conn = c /\ client'.first = client.first
        /\ ~Replay(c) => /\ handler'[c].unreplayed = handler[c].unreplayed /\ handler'[c].after = handler[c].after
                         /\ handler'[c].pc = "replay" => handler[c].pc = "replay"
        /\ Replay(c) => handler'[c].unreplayed = {} /\ handler'[c].pc = "stream"
    BY <1>3, SameConnection
  <2>2. ASSUME NEW j \in handler'[c].unreplayed PROVE j \in Projected' /\ j > handler'[c].after
    BY <1>3, <2>1, <2>2, ProjectedStays DEF FirstInv
  <2>3. ASSUME client.first, handler'[c].pc = "replay" PROVE client'.seen = {}
    <3>1. handler[c].pc = "replay" /\ client.seen = {}
      BY <1>3, <2>1, <2>3 DEF FirstInv
    <3>2. handler[c].sent = <<>> /\ client.read \in Nat
      BY <1>3, <1>t, <3>1 DEF TypeInv, Connection, ConnInv, Conn, Life, Client
    <3>3. ~ReadEvent
      BY <3>2 DEF ReadEvent, HasFrame
    <3>4. ~(Mount \/ Handoff \/ SnapshotArrives \/ EndOfStream \/ Drop) /\ ~\E d \in Conns : Accept(d)
      BY <1>3, <1>t DEF Mount, Handoff, SnapshotArrives, EndOfStream, Drop, Redial, Accept, Attached, Client
    <3>5. Connected \/ ReadResync => client'.seen = client.seen
      BY <1>t DEF Connected, ReadResync, Client
    <3>6. Reload \/ Poll \/ Tick => UNCHANGED client
      BY DEF Reload, Poll, Tick
    <3> QED BY <3>1, <3>3, <3>4, <3>5, <3>6, PageStill
  <2> QED BY <2>1, <2>2, <2>3 DEF FirstInv
<1> QED BY <1>1, <1>2, <1>3

(* What a first replay may bring is on its way when it succeeds, all of it or a  *)
(* resync.                                                                    *)
LEMMA MissedReplayed ==
    ASSUME TypeInv, ConnInv, WindowInv, Modes, FirstInv, OneChain, Attached, [Next]_vars, Replay(client.conn),
           NEW l \in setting.kinds, Concerns(l), Missed(Key(l))
    PROVE  Away' \/ Pending(Key(l))'
<1>1. PICK j \in handler[client.conn].unreplayed : Key(log[j].kind) = Key(l)
  BY DEF Missed
<1>2. /\ j \in Projected /\ j > handler[client.conn].after /\ client.seen = {} /\ client.newest = {}
      /\ j \in Visible /\ j \in DOMAIN log /\ client.conn \in Conns
  <2>1. j \in Projected /\ j > handler[client.conn].after
    BY DEF FirstInv
  <2>2. client.seen = {} /\ client.newest \subseteq client.seen
    BY DEF FirstInv, Missed, Replay, TypeInv, TypeOK
  <2> QED BY <2>1, <2>2 DEF Projected, Visible, TypeInv, Connection
<1>3. log[j].kind \in setting.kinds /\ Concerns(log[j].kind)
  BY <1>1, <1>2, TypesOf, SameKey
<1>4. Due(log[j].kind)
  BY <1>3 DEF Concerns
<1>5. ReplaySQL(setting.scopes, log[j].kind) /\ ~HiddenEventSQL(setting.granted, log[j].kind.type)
  BY <1>2, <1>4, KindTypes, SqlMatches, SqlHides DEF Due
<1>6. j \in ReplayRows(client.conn)
  BY <1>2, <1>4, <1>5 DEF ReplayRows, Due
<1>7. Acceptable(j)
  BY <1>2 DEF Acceptable, Fresh
<1>8. Away' \/ (Coming(j)' /\ Acceptable(j)')
  BY <1>2, <1>4, <1>6, <1>7, KeptReplay
<1>9. j \in DOMAIN log' /\ Key(log'[j].kind) = Key(l)
  BY <1>1, <1>2, LogKinds
<1> QED BY <1>8, <1>9 DEF Pending

LEMMA PendingKept ==
    ASSUME TypeInv, ConnInv, WindowInv, Modes, FirstInv, Attached, Attached', [Next]_vars, OneChain,
           NEW l \in setting.kinds, Concerns(l), Away \/ Pending(Key(l)) \/ Missed(Key(l))
    PROVE  Away' \/ page'.timer = 2 \/ Pending(Key(l))' \/ Missed(Key(l))'
<1>1. CASE Away \/ Pending(Key(l))
  BY <1>1, WayKept
<1>2. CASE Missed(Key(l)) /\ Replay(client.conn)
  BY <1>2, MissedReplayed
<1>3. CASE Missed(Key(l)) /\ ~Replay(client.conn)
  <2>1. PICK j \in handler[client.conn].unreplayed : Key(log[j].kind) = Key(l)
    BY <1>3 DEF Missed
  <2>2. log'[j] = log[j]
    BY ProjectedStays DEF FirstInv
  <2> QED BY <1>3, <2>1, <2>2, SameConnection DEF Missed
<1> QED BY <1>1, <1>2, <1>3

(* What is lost stays so, unless the replay brings it. *)
LEMMA LostKept ==
    ASSUME TypeInv, ConnInv, WindowInv, Modes, FirstInv, Attached, Attached', [Next]_vars, OneChain,
           NEW i \in Projected, log[i].kind \in setting.kinds, Concerns(log[i].kind), Lost(i)
    PROVE  Away' \/ Pending(Key(log[i].kind))' \/ Lost(i)'
<1>1. PICK j \in handler[client.conn].unreplayed :
        client.first /\ (j = i \/ (log[i].stage = "coalesced" /\ Key(log[j].kind) = Key(log[i].kind)))
  BY DEF Lost
<1>2. log'[i] = log[i] /\ log'[j] = log[j]
  BY ProjectedStays DEF FirstInv
<1>3. CASE Replay(client.conn)
  <2>1. PICK l \in setting.kinds : l = log[i].kind
    OBVIOUS
  <2>2. Missed(Key(l))
    BY <1>1, <2>1 DEF Missed
  <2>3. Away' \/ Pending(Key(l))'
    BY <1>3, <2>1, <2>2, MissedReplayed
  <2> QED BY <1>2, <2>1, <2>3
<1>4. CASE ~Replay(client.conn)
  <2>1. client'.conn = client.conn /\ client'.first = client.first
        /\ handler'[client.conn].unreplayed = handler[client.conn].unreplayed
    BY <1>4, SameConnection
  <2> QED BY <1>1, <1>2, <2>1 DEF Lost
<1> QED BY <1>3, <1>4

LEMMA SeenStep == ASSUME TypeInv, ConnInv, Modes, SeenInv, [Next]_vars PROVE SeenInv'
<1>t. /\ client \in Client /\ handler \in [Conns -> Handler] /\ page \in Page
      /\ Attached => client.conn \in Conns /\ handler[client.conn].pc # "free"
  BY TypesOf DEF TypeInv, Connection
<1>1. ASSUME UNCHANGED client, Attached => handler'[client.conn] = handler[client.conn] PROVE SeenInv'
  BY <1>1 DEF SeenInv, Attached
<1>2. ASSUME NEW d \in Conns, Replay(d) \/ ReplayFails(d) \/ Stream(d) \/ Return(d) PROVE SeenInv'
  <2>1. UNCHANGED client
    BY <1>2 DEF Replay, ReplayFails, Stream, Return
  <2>2. CASE d # client.conn
    BY <1>1, <1>2, <1>t, <2>1, <2>2, OtherConns
  <2>3. CASE d = client.conn /\ Attached
    <3>1. \A n \in 1 .. Len(handler[d].sent) : handler'[d].sent[n] = handler[d].sent[n]
      BY <1>2, <2>3, SentGrows
    <3>2. client.read <= Len(handler[d].sent) /\ client.read \in Nat /\ Len(handler[d].sent) \in Nat
      BY <1>t, <2>3 DEF Modes, Client, Handler
    <3>3. \A n \in 1 .. client.read : n \in 1 .. Len(handler[d].sent)
      BY <3>2
    <3> QED BY <2>1, <2>3, <3>1, <3>3 DEF SeenInv, Attached
  <2>4. CASE ~Attached
    BY <2>1, <2>4 DEF SeenInv, Attached
  <2> QED BY <2>2, <2>3, <2>4
<1>3. ASSUME NEW d \in Conns, Accept(d) PROVE SeenInv'
  <2>1. client'.read = 0
    BY <1>3, <1>t DEF Accept, Client
  <2>2. 1 .. 0 = {}
    OBVIOUS
  <2> QED BY <2>1, <2>2 DEF SeenInv
<1>4. CASE ReadEvent
  <2>1. /\ client'.seen = client.seen \cup ({Frame} \ {Summary}) /\ client'.read = client.read + 1
        /\ client'.conn = client.conn /\ UNCHANGED handler /\ client.pc = "reading"
    BY <1>4, ReadFacts
  <2>2. client.read \in Nat /\ Frame = handler[client.conn].sent[client.read + 1]
    BY <1>t DEF Frame, Client
  <2>3. \A n \in 1 .. client.read + 1 : n \in 1 .. client.read \/ n = client.read + 1
    BY <2>2
  <2> QED BY <2>1, <2>2, <2>3 DEF SeenInv, Attached
<1>5. CASE Connected \/ ReadResync
  <2>1. client'.read = client.read /\ client'.seen = client.seen /\ client'.conn = client.conn /\ UNCHANGED handler
        /\ client.pc \in {"waiting", "reading"}
    <3>1. CASE Connected
      BY <3>1, <1>t DEF Connected, Client, server
    <3>2. CASE ReadResync
      BY <3>2, <1>t DEF ReadResync, HasFrame, Client, server
    <3> QED BY <1>5, <3>1, <3>2
  <2> QED BY <2>1 DEF SeenInv, Attached
<1>6. CASE Mount \/ Handoff \/ SnapshotArrives \/ EndOfStream \/ Drop
  <2>1. ~Attached'
    BY <1>6, <1>t DEF Mount, Handoff, SnapshotArrives, EndOfStream, Drop, Redial, Client, Attached
  <2> QED BY <2>1 DEF SeenInv
<1>7. CASE Insert \/ LogStep \/ FireSummary \/ Reload \/ Poll \/ Tick \/ (\E d \in Conns : Ping(d)) \/ UNCHANGED vars
  <2>1. UNCHANGED <<client, handler>>
    BY <1>7 DEF Insert, LogStep, Commit, Publish, FireSummary, Reload, Poll, Tick, Ping, vars, server
  <2> QED BY <1>1, <2>1
<1> QED BY <1>2, <1>3, <1>4, <1>5, <1>6, <1>7 DEF Next, ServerStep, ClientStep

(* An event that is published reaches the page: it is put into its channel, or   *)
(* the channel is cut, or it was replayed already; the client does not reject   *)
(* it unless what it knows makes the page reload.                            *)
LEMMA PublishHeard ==
    ASSUME TypeInv, ConnInv, WindowInv, HandledInv, Modes, SeenInv, Attached, [Next]_vars,
           NEW i \in DOMAIN log, Publish(i), log'[i].stage = "published", Concerns(log[i].kind)
    PROVE  Away' \/ page'.timer = 2 \/ (Coming(i)' /\ Acceptable(i)')
<1> DEFINE c == client.conn
           k == log[i].kind
<1>t. client \in Client /\ c \in Conns /\ hub \in [Conns -> Channel] /\ handler \in [Conns -> Handler] /\ handler[c] \in Handler
      /\ hub[c] \in Channel /\ i \in 0 .. MaxEvents /\ i # Summary
  BY TypesOf, Bounds DEF TypeInv, Connection
<1>u. UNCHANGED <<client, page, handler, setting>>
  BY DEF Publish
<1>l. log'[i].kind = k
  BY LogKinds
<1>d. Due(k) /\ Due(log[i].kind)' /\ ~IsNoise(k) /\ Matches(setting.scopes, k) /\ PriorityOfEvent(k) # "informational"
  BY <1>l, <1>u DEF Concerns, Due
<1>1. i \in Window
  BY StageFacts DEF WindowInv
<1>2. Handled(i) => page'.timer = 2
  BY <1>1, <1>u DEF Handled
<1>3. i \in client.seen => Handled(i)
  BY DEF HandledInv
<1>4. ~Fresh(i) => Handled(i)
  <2> SUFFICES ASSUME ~Fresh(i) PROVE Handled(i)
    OBVIOUS
  <2>1. PICK j \in client.newest : Resource(log[j].kind) = Resource(log[i].kind) /\ ~(i > j)
    BY DEF Fresh
  <2>2. j \in DOMAIN log /\ DOMAIN log \subseteq Nat
    <3>1. j \in client.seen
      BY DEF TypeInv, TypeOK
    <3> QED BY <3>1, TypesOf DEF WindowInv, Ids
  <2>3. i <= j
    BY <2>1, <2>2
  <2> QED BY <2>1, <2>3 DEF HandledInv
<1>5. hub' = [d \in Conns |-> IF hub[d].open /\ Matches(setting.scopes, k) THEN Offer(hub[d], i, k) ELSE hub[d]]
  <2>1. "coalesced" \in Stages
    BY DEF Stages
  <2>2. ~SetStage(i, "coalesced")
    BY <2>1, StageSet
  <2> QED BY <1>d, <2>2 DEF Publish
<1> HIDE DEF k
<1>6. CASE ~hub[c].open
  BY <1>t, <1>5, <1>6, <1>u DEF Away
<1>7. CASE hub[c].open /\ ~(Len(hub[c].buf) < Buffer)
  <2>1. hub'[c] = [hub[c] EXCEPT !.open = FALSE]
    BY <1>t, <1>5, <1>7, <1>d DEF Offer
  <2>2. ~hub'[c].open
    BY <1>t, <2>1 DEF Channel
  <2> QED BY <1>u, <2>2 DEF Away
<1>8. CASE hub[c].open /\ Len(hub[c].buf) < Buffer /\ Acceptable(i)
  <2>1. hub'[c] = [hub[c] EXCEPT !.buf = Append(hub[c].buf, i)]
    BY <1>t, <1>5, <1>8, <1>d DEF Offer
  <2>2. hub'[c].buf = Append(hub[c].buf, i) /\ hub[c].buf \in Seq(0 .. MaxEvents)
    BY <1>t, <2>1 DEF Channel
  <2>3. i \in ToSet(hub'[c].buf)
    <3> DEFINE T == 0 .. MaxEvents
               s == hub[c].buf
    <3>1. s \in Seq(T) /\ i \in T
      BY <1>t, <2>2
    <3> HIDE DEF T, s
    <3>2. i \in ToSet(Append(s, i))
      BY <3>1, AppendMembers
    <3> QED BY <2>2, <3>2 DEF s
  <2>4. i \in handler[c].delivered => i \in Unread'
    <3> SUFFICES ASSUME i \in handler[c].delivered PROVE i \in Unread'
      OBVIOUS
    <3>1. handler[c].sent \in Seq(0 .. MaxEvents + 1) /\ i \in ToSet(handler[c].sent)
      BY <1>t DEF Handler, ConnInv, Conn, Replayed
    <3>2. PICK n \in 1 .. Len(handler[c].sent) : handler[c].sent[n] = i
      <4> DEFINE T == 0 .. MaxEvents + 1
                 s == handler[c].sent
      <4>1. s \in Seq(T) /\ i \in ToSet(s)
        BY <3>1
      <4> HIDE DEF T, s
      <4>2. \E n \in 1 .. Len(s) : s[n] = i
        BY <4>1, InSeq
      <4> QED BY <4>2 DEF s
    <3>3. n \notin 1 .. client.read
      BY <1>8, <1>t, <3>2 DEF SeenInv, Acceptable
    <3>4. n \in client.read + 1 .. Len(handler[c].sent)
      BY <1>t, <3>1, <3>3 DEF Client
    <3> QED BY <1>u, <3>2, <3>4 DEF Unread
  <2>5. Coming(i)'
    BY <1>d, <1>l, <1>u, <2>3, <2>4 DEF Coming, Due
  <2>6. Acceptable(i)'
    BY <1>8, <1>u, FreshKept
  <2> QED BY <2>5, <2>6
<1> QED BY <1>2, <1>3, <1>4, <1>6, <1>7, <1>8 DEF Acceptable

(* A first connection's replay has whatever the page misses: it lies after the    *)
(* cursor.                                                                    *)
LEMMA AcceptShown ==
    ASSUME TypeInv, WindowInv, SourceInv, Modes, NeverInv, NEW c \in Conns, Accept(c)
    PROVE  ShownInv' /\ RecentInv'
<1>t. /\ client \in Client /\ handler \in [Conns -> Handler] /\ client.cursor \in Nat
      /\ Overlap \in Nat /\ DOMAIN log \subseteq Nat /\ Len(log) \in Nat /\ burst \in Nat
  <2>0. /\ client \in Client /\ handler \in [Conns -> Handler] /\ Len(log) \in 0 .. MaxEvents /\ burst \in 0 .. MaxEvents
        /\ DOMAIN log = 1 .. Len(log)
    BY TypesOf
  <2>1. {MaxEvents, Overlap} \subseteq Nat
    BY Bounds
  <2>2. Len(log) \in Nat /\ burst \in Nat
    BY ONLY <2>0, <2>1
  <2>3. client.cursor \in 0 .. MaxEvents
    BY <2>0 DEF Client
  <2> QED BY <2>0, <2>1, <2>2, <2>3
<1>1. /\ client.pc = "dialing" /\ UNCHANGED <<log, recent, setting, page>>
      /\ handler' = [handler EXCEPT ![c] = [Free EXCEPT !.pc = "replay", !.after = After,
                                                       !.unreplayed = {i \in Projected : i > After}]]
      /\ client' = [client EXCEPT !.pc = "waiting", !.conn = c, !.read = 0, !.first = ~client.ever]
  BY DEF Accept, logger
<1>2. After <= client.cursor /\ After \in Nat
  BY <1>t DEF After
<1>3. client'.conn = c /\ client'.first = ~client.ever
  BY <1>t, <1>1 DEF Client
<1>4. handler'[c].unreplayed = {i \in Projected : i > After}
  BY <1>t, <1>1 DEF Free
<1>5. CASE page.dirty
  BY <1>1, <1>5 DEF ShownInv, RecentInv, Away
<1>6. CASE ~page.dirty
  <2>1. ~client.ever
    BY <1>1, <1>6 DEF Modes
  <2>2. client.cursor <= Len(log) - burst /\ \A i \in Projected : i \in page.view \/ i > client.cursor
    BY <1>1, <2>1 DEF NeverInv
  <2>3. Projected \subseteq DOMAIN log
    BY DEF Projected, Visible
  <2>4. \A j \in Projected : j > client.cursor => j \in handler'[c].unreplayed
    BY <1>2, <1>4, <1>t, <2>3
  <2>5. ASSUME NEW i \in Projected', Concerns(log[i].kind)' PROVE i \in page'.view \/ Lost(i)'
    <3>1. i \in Projected
      BY <1>1, <2>5 DEF Projected, Visible
    <3> QED BY <1>1, <1>3, <2>1, <2>2, <2>4, <3>1 DEF Lost
  <2>6. ASSUME NEW l \in setting'.kinds, Key(l) \in recent' PROVE Missed(Key(l))'
    <3>1. PICK j \in Window : log[j].stage = "published" /\ Key(log[j].kind) = Key(l)
      BY <1>1, <2>6 DEF SourceInv
    <3>2. j \in Projected /\ j > client.cursor
      BY <1>t, <2>2, <3>1 DEF Window, Projected, Visible
    <3> QED BY <1>1, <1>3, <2>1, <2>4, <3>1, <3>2 DEF Missed
  <2> QED BY <2>5, <2>6 DEF ShownInv, RecentInv
<1> QED BY <1>5, <1>6

LEMMA ShownStep ==
    ASSUME TypeInv, ConnInv, Calm, WindowInv, SourceInv, HandledInv, NeverInv, Modes, SeenInv, FirstInv, OneChain,
           ShownInv, RecentInv, [Next]_vars
    PROVE  ShownInv' /\ RecentInv'
<1>t. page \in Page /\ page.timer \in 0 .. 2 /\ page.view \subseteq Projected /\ UNCHANGED setting
  BY TypesOf, LogKinds DEF Page, WindowInv
<1>p. /\ page'.view = page.view \/ page'.view = Projected
      /\ Reload => page.timer = 1 /\ page'.timer = 0 /\ page'.view = Projected
      /\ Tick => page'.timer = (IF page.timer > 1 THEN page.timer - 1 ELSE page.timer) /\ page'.view = page.view
      /\ ~(Reload \/ Tick) => page'.timer \in {page.timer, 2}
  BY PageMoves
<1>1. CASE ~Attached'
  BY <1>1 DEF ShownInv, RecentInv
<1>2. CASE Attached' /\ ~Attached
  <2>1. \E c \in Conns : Accept(c)
    BY <1>2, Arrives
  <2> QED BY <2>1, AcceptShown
<1>3. CASE Attached' /\ Attached
  <2>k. ASSUME NEW l \in setting.kinds, Concerns(l), Away \/ Pending(Key(l)) \/ Missed(Key(l))
        PROVE  Away' \/ page'.timer = 2 \/ Pending(Key(l))' \/ Missed(Key(l))'
    BY <1>3, <2>k, PendingKept
  <2>n. ASSUME NEW i \in DOMAIN log, Publish(i), Concerns(log[i].kind)
        PROVE  Away' \/ page'.timer = 2 \/ Pending(Key(log[i].kind))' \/ Lost(i)'
    <3>1. log'[i].kind = log[i].kind /\ i \in DOMAIN log' /\ log[i].kind \in setting.kinds
      BY LogKinds, TypesOf
    <3>2. ~IsNoise(log[i].kind)
      BY <2>n DEF Concerns, Due
    <3>3. CASE shouldCoalesce(log[i].kind)
      <4>1. page.timer = 2 \/ Away \/ Pending(Key(log[i].kind)) \/ Missed(Key(log[i].kind))
        BY <1>3, <2>n, <3>1, <3>3 DEF RecentInv, shouldCoalesce
      <4>2. page' = page
        BY <2>n DEF Publish
      <4>3. PICK key : key = Key(log[i].kind)
        OBVIOUS
      <4>4. Away' \/ page'.timer = 2 \/ Pending(key)' \/ Missed(key)'
        <5>1. PICK l \in setting.kinds : l = log[i].kind
          BY <3>1
        <5>2. Away \/ Pending(Key(l)) \/ Missed(Key(l)) => Away' \/ page'.timer = 2 \/ Pending(Key(l))' \/ Missed(Key(l))'
          BY <2>k, <2>n, <5>1
        <5> QED BY <4>1, <4>2, <4>3, <5>1, <5>2
      <4>5. Key(log'[i].kind) = key
        BY <3>1, <4>3
      <4>6. SetStage(i, "coalesced")
        BY <2>n, <3>2, <3>3 DEF Publish
      <4>7. log'[i].stage = "coalesced"
        BY <4>6, StageSet DEF Stages
      <4>8. Missed(key)' => Lost(i)'
        BY <4>5, <4>7 DEF Missed, Lost
      <4> QED BY <4>4, <4>5, <4>8
    <3>4. CASE ~shouldCoalesce(log[i].kind)
      <4>1. SetStage(i, "published")
        BY <2>n, <3>2, <3>4 DEF Publish
      <4>2. log'[i].stage = "published"
        BY <4>1, StageSet DEF Stages
      <4>3. Away' \/ page'.timer = 2 \/ (Coming(i)' /\ Acceptable(i)')
        BY <1>3, <2>n, <4>2, PublishHeard
      <4> QED BY <3>1, <4>3 DEF Pending
    <3> QED BY <3>3, <3>4
  <2>1. ASSUME NEW i \in Projected', Concerns(log[i].kind)'
        PROVE  i \in page'.view \/ page'.timer > 0 \/ Away' \/ Pending(Key(log[i].kind))' \/ Lost(i)'
    <3>1. CASE i \in Projected
      <4>1. i \in DOMAIN log
        BY <3>1 DEF Projected, Visible
      <4>2. log'[i].kind = log[i].kind /\ Concerns(log[i].kind) /\ log[i].kind \in setting.kinds
        BY <2>1, <4>1, LogKinds, TypesOf
      <4>3. i \in page.view \/ page.timer > 0 \/ Away \/ Pending(Key(log[i].kind)) \/ Lost(i)
        BY <1>3, <3>1, <4>2 DEF ShownInv
      <4>4. CASE i \in page.view
        BY <1>p, <1>t, <4>4
      <4>5. CASE page.timer > 0
        <5>1. CASE Reload
          BY <1>p, <3>1, <5>1
        <5>2. CASE Tick
          BY <1>p, <1>t, <4>5, <5>2
        <5>3. CASE ~(Reload \/ Tick)
          BY <1>p, <4>5, <5>3
        <5> QED BY <5>1, <5>2, <5>3
      <4>6. CASE Away \/ Pending(Key(log[i].kind))
        <5>1. PICK l \in setting.kinds : l = log[i].kind
          BY <4>2
        <5>2. Away' \/ page'.timer = 2 \/ Pending(Key(l))'
          BY <1>3, <4>2, <4>6, <5>1, WayKept
        <5>3. log'[i].kind = l
          BY <4>2, <5>1
        <5> QED BY <5>2, <5>3
      <4>7. CASE Lost(i)
        BY <1>3, <3>1, <4>1, <4>2, <4>7, LostKept
      <4> QED BY <4>3, <4>4, <4>5, <4>6, <4>7
    <3>2. CASE i \notin Projected
      <4>1. LogStep
        <5>1. ~Insert
          BY <2>1, <3>2, InsertFacts
        <5>2. CASE ~LogStep
          <6>1. Projected' = Projected
            BY <5>1, <5>2, LogStill DEF Projected, Visible
          <6> QED BY <2>1, <3>2, <6>1
        <5> QED BY <5>2
      <4>2. PICK n \in DOMAIN log : Commit(n) \/ Publish(n)
        BY <4>1 DEF LogStep
      <4>3. Projected' \subseteq Projected \cup {n} /\ (Commit(n) => Projected' = Projected)
        BY <4>2, StageFacts
      <4>4. n = i /\ Publish(i) /\ i \in DOMAIN log
        BY <2>1, <3>2, <4>2, <4>3
      <4>5. Concerns(log[i].kind)
        BY <2>1, <4>4, LogKinds
      <4>6. Away' \/ page'.timer = 2 \/ Pending(Key(log[i].kind))' \/ Lost(i)'
        BY <2>n, <4>4, <4>5
      <4> QED BY <4>6
    <3> QED BY <3>1, <3>2
  <2>2. ASSUME NEW l \in setting'.kinds, Concerns(l)', Key(l) \in recent'
        PROVE  page'.timer = 2 \/ Away' \/ Pending(Key(l))' \/ Missed(Key(l))'
    <3>1. l \in setting.kinds /\ Concerns(l)
      BY <1>t, <2>2 DEF Concerns, Due
    <3>2. CASE Key(l) \in recent
      <4>1. page.timer = 2 \/ Away \/ Pending(Key(l)) \/ Missed(Key(l))
        BY <1>3, <3>1, <3>2 DEF RecentInv
      <4>2. ~Tick
        BY <2>2 DEF Tick
      <4>3. page.timer = 2 => page'.timer = 2
        BY <1>p, <4>2
      <4> QED BY <2>k, <3>1, <4>1, <4>3
    <3>3. CASE Key(l) \notin recent
      <4>1. \E i \in DOMAIN log : Publish(i) /\ Key(log[i].kind) = Key(l)
        <5>1. CASE Insert
          BY <2>2, <3>3, <5>1 DEF Insert
        <5>2. CASE LogStep
          <6> PICK i \in DOMAIN log : Commit(i) \/ Publish(i)
            BY <5>2 DEF LogStep
          <6>1. CASE Commit(i)
            BY <2>2, <3>3, <6>1 DEF Commit
          <6>2. CASE Publish(i)
            <7>1. recent' = recent \/ recent' = recent \cup {Key(log[i].kind)}
              BY <6>2 DEF Publish
            <7>2. Key(log[i].kind) = Key(l)
              BY <2>2, <3>3, <7>1
            <7> QED BY <6>2, <7>2
          <6> QED BY <6>1, <6>2
        <5>3. CASE ~Insert /\ ~LogStep
          <6>1. Tick => recent' = {}
            BY DEF Tick
          <6>2. ~Tick => recent' = recent
            BY <5>3, LogStill
          <6> QED BY <2>2, <3>3, <6>1, <6>2
        <5> QED BY <5>1, <5>2, <5>3
      <4>2. PICK i \in DOMAIN log : Publish(i) /\ Key(log[i].kind) = Key(l)
        BY <4>1
      <4>3. log[i].kind \in setting.kinds /\ log'[i].kind = log[i].kind
        BY TypesOf, LogKinds
      <4>4. Concerns(log[i].kind)
        BY <3>1, <4>2, <4>3, SameKey
      <4>5. Away' \/ page'.timer = 2 \/ Pending(Key(log[i].kind))' \/ Lost(i)'
        BY <2>n, <4>2, <4>4
      <4>6. Key(log'[i].kind) = Key(l)
        BY <4>2, <4>3
      <4>7. Lost(i)' => Missed(Key(l))'
        BY <4>6 DEF Lost, Missed
      <4> QED BY <4>5, <4>6, <4>7
    <3> QED BY <3>2, <3>3
  <2> QED BY <2>1, <2>2 DEF ShownInv, RecentInv
<1> QED BY <1>1, <1>2, <1>3

-----------------------------------------------------------------------------
PageInv == WindowInv /\ SourceInv /\ Modes /\ SeenInv /\ HandledInv /\ NeverInv /\ FirstInv /\ ShownInv /\ RecentInv

LEMMA PageInit == Init => PageInv
<1> SUFFICES ASSUME Init PROVE PageInv
  OBVIOUS
<1>1. /\ log = <<>> /\ recent = {} /\ client.pc = "mounting" /\ client.seen = {} /\ client.newest = {} /\ ~client.ever
      /\ client.state = "CONNECTING" /\ page.view = {}
  BY DEF Init
<1>2. DOMAIN log = {}
  BY <1>1
<1>3. WindowInv /\ SourceInv
  BY <1>1, <1>2 DEF WindowInv, SourceInv, InLog
<1>4. Modes /\ SeenInv /\ HandledInv /\ NeverInv
  BY <1>1 DEF Modes, SeenInv, HandledInv, NeverInv, Attached
<1>5. FirstInv /\ ShownInv /\ RecentInv
  BY <1>1 DEF FirstInv, ShownInv, RecentInv, Attached
<1> QED BY <1>3, <1>4, <1>5 DEF PageInv

(* A settled client is not away and has nothing on its way: what it does not show  *)
(* is lost.                                                                   *)
LEMMA ShownWhenSettled == ASSUME TypeInv, PageInv PROVE ScreenCurrent
<1> SUFFICES ASSUME Settled, NEW i \in Projected, Concerns(log[i].kind) PROVE i \in page.view \/ Lost(i)
  BY DEF ScreenCurrent
<1>1. client.pc = "reading" /\ ~page.dirty /\ Attached /\ page.timer = 0
  BY DEF PageInv, Modes, Settled, Attached
<1>2. client.conn \in Conns /\ handler[client.conn] \in Handler /\ client.read \in Nat
  BY <1>1, TypesOf DEF TypeInv, Connection, Client
<1>3. handler[client.conn].pc = "stream" /\ hub[client.conn].open /\ ToSet(hub[client.conn].buf) = {}
  BY EmptySet DEF Settled
<1>4. Unread = {}
  <2>1. Len(handler[client.conn].sent) \in Nat /\ ~(client.read < Len(handler[client.conn].sent))
    BY <1>1, <1>2 DEF Handler, Settled, HasFrame
  <2>2. client.read + 1 .. Len(handler[client.conn].sent) = {}
    BY <1>2, <2>1
  <2> QED BY <2>2 DEF Unread
<1>5. ~Away /\ ~Pending(Key(log[i].kind))
  BY <1>1, <1>3, <1>4 DEF Away, Pending, Coming
<1> QED BY <1>1, <1>5 DEF PageInv, ShownInv

(* A page that says LIVE and waits for nothing shows every change that concerns *)
(* it: whatever was streamed, replayed, coalesced with an earlier event, taken *)
(* for stale or lost with a connection.  A replay query may fail at any        *)
(* subscription (live_handler.go:195-196): the page reloads when it was LIVE  *)
(* before, and on the first stream it gets what only that replay could have   *)
(* brought it is Lost.  LogEvent is quick (Calm), and the events that are     *)
(* coalesced with one another are of one chain.                              *)
THEOREM ScreenHolds == ASSUME Calm, OneChain PROVE Spec => []ScreenCurrent
<1>1. Init => PageInv
  BY PageInit
<1>2. TypeInv /\ ConnInv /\ PageInv /\ [Next]_vars => PageInv'
  BY WindowStep, ModesStep, SeenStep, HandledStep, NeverStep, FirstStep, ShownStep DEF PageInv
<1>3. TypeInv /\ PageInv => ScreenCurrent
  BY ShownWhenSettled
<1> QED BY <1>1, <1>2, <1>3, TypeAlways, ConnAlways, PTL DEF Spec
=============================================================================
