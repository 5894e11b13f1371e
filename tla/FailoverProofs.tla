--------------------------- MODULE FailoverProofs ---------------------------
(***************************************************************************)
(* Proofs about Failover for any clusters, and so for lists of any number  *)
(* of standbys, any lag and any number of actions, edits and restarts.     *)
(***************************************************************************)
EXTENDS Failover, FiniteSetTheorems, WellFoundedInduction, TLAPS

(* ------------------------------- the invariant ------------------------- *)

(* An entry that may be in a list: ready or waiting for a resync, not both. *)
Fit == {s \in Standby : ~(s.ready /\ s.resync)}

(* What MySQL's parameters say, in every version of them: each cluster is  *)
(* the primary or in the list, and once.                                   *)
One(o) ==
  /\ o.primary \in Clusters
  /\ \A i \in 1..Len(o.standbys) : o.standbys[i].cluster # o.primary
  /\ \A i, j \in 1..Len(o.standbys) : o.standbys[i].cluster = o.standbys[j].cluster => i = j
  /\ \A c \in Clusters \ {o.primary} : \E i \in 1..Len(o.standbys) : o.standbys[i].cluster = c

(* The versions of an instance of a product: at the server, on the watch,  *)
(* in the cache and in a reconcile under way.                              *)
Version(p) == {o \in Instance : o.standbys \in Seq(Fit) /\ (p = "mysql" => One(o))}

Reconcile(p) == [pc : {"idle", "publish", "persist"}, read : Version(p)]
Execution(p) ==
  [pc : {"idle", "resolve", "execute", "record"}, kind : Kinds,
   target : Clusters \cup {None}, read : Version(p), fresh : BOOLEAN]

Inv ==
  /\ product \in Products
  /\ server \in Version(product) /\ cache \in Version(product)
  /\ pend \in Seq(Version(product))
  /\ queue \in BOOLEAN
  /\ inst \in Reconcile(product) /\ act \in Execution(product)
  /\ published \in Clusters \cup {None} /\ promoted \in Clusters \cup {None}
  /\ MySQLPromotionKept

(* --------------------------------- lists -------------------------------- *)

(* A set of positions has a least one.                                     *)
LEMMA LeastPosition ==
  ASSUME NEW S \in SUBSET Nat, S # {}
  PROVE  Min(S) \in S
<1>1. PICK x \in S : \A y \in S : ~(<<y, x>> \in OpToRel(<, Nat))
  BY NatLessThanWellFounded, WFMin
<1>2. \A y \in S : ~(y < x)
  BY <1>1 DEF OpToRel
<1>3. \A y \in S : x =< y
  BY <1>2
<1> QED BY <1>3 DEF Min

(* The other clusters, as a list.                                          *)
LEMMA OthersList ==
  /\ Others \in Seq(Clusters \ {Home}) /\ IsInjective(Others)
  /\ \A c \in Clusters \ {Home} : \E i \in 1..Len(Others) : Others[i] = c
<1> DEFINE S == Clusters \ {Home}
           n == Cardinality(S)
<1>1. IsFiniteSet(S)
  BY FailoverAssumption, FS_Subset
<1>2. n \in Nat /\ ExistsBijection(1..n, S)
  BY <1>1, FS_CardinalityType
<1>3. \E f \in [1..n -> S] : IsInjective(f)
  BY <1>2 DEF ExistsBijection, Bijection, Injection
<1>4. Others \in [1..n -> S] /\ IsInjective(Others)
  BY <1>3 DEF Others, SetToSeq
<1> HIDE DEF n
<1>5. Others \in Injection(1..n, S)
  BY <1>4 DEF Injection
<1>6. IsFiniteSet(1..n) /\ Cardinality(1..n) = n
  BY <1>2, FS_Interval
<1>7. Others \in Surjection(1..n, S)
  <2>1. Cardinality(1..n) = Cardinality(S)
    BY <1>6 DEF n
  <2> QED BY <1>1, <1>5, <2>1, FS_Injection
<1>8. Len(Others) = n /\ Others \in Seq(S)
  BY <1>2, <1>4
<1> QED BY <1>4, <1>7, <1>8 DEF Surjection

(* A list without some clusters is a list of the entries that stay, each   *)
(* in one place.                                                           *)
LEMMA Staying ==
  ASSUME NEW T, NEW s \in Seq(T), NEW gone
  PROVE  \E f :
           LET kept == {i \in 1..Len(s) : s[i].cluster \notin gone}
               w == Without(s, gone)
           IN  /\ w \in Seq(T)
               /\ f \in [1..Len(w) -> kept] /\ IsInjective(f)
               /\ \A i \in kept : \E j \in 1..Len(w) : f[j] = i
               /\ \A j \in 1..Len(w) : w[j] = s[f[j]]
<1> DEFINE kept == {i \in 1..Len(s) : s[i].cluster \notin gone}
           n == Cardinality(kept)
           upto(i) == {k \in kept : k <= i}
           place == [i \in kept |-> Cardinality(upto(i))]
           f == [j \in 1..n |-> CHOOSE i \in kept : place[i] = j]
           w == Without(s, gone)
<1>1. IsFiniteSet(kept)
  BY FS_Interval, FS_Subset
<1>2. n \in Nat /\ IsFiniteSet(1..n) /\ Cardinality(1..n) = n
  BY <1>1, FS_CardinalityType, FS_Interval
<1>3. ASSUME NEW i \in kept PROVE place[i] \in 1..n
  <2>1. upto(i) \in SUBSET kept /\ i \in upto(i) /\ {i} \in SUBSET upto(i)
    OBVIOUS
  <2>2. IsFiniteSet(upto(i)) /\ Cardinality(upto(i)) <= n
    BY <1>1, <2>1, FS_Subset
  <2>3. Cardinality({i}) <= Cardinality(upto(i)) /\ Cardinality({i}) = 1
    BY <2>1, <2>2, FS_Subset, FS_Singleton
  <2>4. Cardinality(upto(i)) \in Nat
    BY <2>2, FS_CardinalityType
  <2> QED BY <1>2, <2>2, <2>3, <2>4
<1>4. ASSUME NEW i \in kept, NEW k \in kept, i < k PROVE place[i] # place[k]
  <2>1. upto(i) \in SUBSET upto(k) /\ k \in upto(k) /\ k \notin upto(i) /\ upto(k) \in SUBSET kept
    BY <1>4
  <2>2. IsFiniteSet(upto(k))
    BY <1>1, <2>1, FS_Subset
  <2>3. Cardinality(upto(i)) # Cardinality(upto(k))
    BY <2>1, <2>2, FS_Subset
  <2> QED BY <2>3
<1> HIDE DEF place, n
<1>5. ASSUME NEW i \in kept, NEW k \in kept, place[i] = place[k] PROVE i = k
  <2>1. i \in Nat /\ k \in Nat /\ ~(i < k) /\ ~(k < i)
    BY <1>4, <1>5
  <2> QED BY <2>1
<1>6. place \in [kept -> 1..n]
  BY <1>3 DEF place
<1>7. place \in Injection(kept, 1..n)
  BY <1>5, <1>6 DEF Injection, IsInjective
<1>8. Cardinality(kept) = Cardinality(1..n)
  BY <1>2 DEF n
<1>9. place \in Surjection(kept, 1..n)
  BY <1>2, <1>7, <1>8, FS_Injection
<1>10. \A j \in 1..n : f[j] \in kept /\ place[f[j]] = j
  BY <1>9 DEF Surjection
<1>11. \A i \in kept : f[place[i]] = i /\ place[i] \in 1..n
  BY <1>5, <1>6, <1>10
<1>12. w = [j \in 1..n |-> s[f[j]]]
  <2>1. w = [j \in 1..n |-> s[CHOOSE i \in kept : Cardinality({k \in kept : k <= i}) = j]]
    BY DEF Without, n
  <2>2. \A i \in kept : Cardinality({k \in kept : k <= i}) = place[i]
    BY DEF place
  <2>3. ASSUME NEW j \in 1..n
        PROVE  (CHOOSE i \in kept : Cardinality({k \in kept : k <= i}) = j)
               = (CHOOSE i \in kept : place[i] = j)
    BY <2>2
  <2>4. \A j \in 1..n : w[j] = s[f[j]]
    BY <2>1, <2>3
  <2>5. w = [j \in 1..n |-> w[j]]
    BY <2>1
  <2> HIDE DEF w, f
  <2> QED BY <2>4, <2>5
<1> HIDE DEF w, f
<1>13. Len(w) = n /\ w \in Seq(T) /\ \A j \in 1..n : w[j] = s[f[j]]
  BY <1>2, <1>10, <1>12
<1>14. f \in [1..Len(w) -> kept] /\ IsInjective(f)
  BY <1>10, <1>13 DEF f, IsInjective
<1>15. \A i \in kept : \E j \in 1..Len(w) : f[j] = i
  BY <1>11, <1>13
<1> QED BY <1>13, <1>14, <1>15 DEF w

(* The entries that are made are fit to be in a list.                      *)
LEMMA MadeEntries ==
  ASSUME NEW c \in Clusters
  PROVE  /\ NewStandby(c) \in Fit /\ NewStandby(c).cluster = c
         /\ Demoted(c) \in Fit /\ Demoted(c).cluster = c
BY DEF NewStandby, Demoted, Fit, Standby, Lags

(* The standbys the parameters configure: all but Home.                    *)
LEMMA ConfiguredList ==
  /\ Configured \in Seq(Fit)
  /\ Len(Configured) = Len(Others)
  /\ \A i \in 1..Len(Configured) : Configured[i].cluster = Others[i]
<1>1. Len(Others) \in Nat /\ \A i \in 1..Len(Others) : Others[i] \in Clusters
  BY OthersList
<1>2. \A i \in 1..Len(Others) : NewStandby(Others[i]) \in Fit /\ NewStandby(Others[i]).cluster = Others[i]
  BY <1>1, MadeEntries
<1>3. Configured = [i \in 1..Len(Others) |-> NewStandby(Others[i])]
  BY DEF Configured
<1>4. Len(Configured) = Len(Others) /\ Configured \in Seq(Fit)
  BY <1>1, <1>2, <1>3
<1> QED BY <1>2, <1>3, <1>4

(* ------------------------------- versions ------------------------------- *)

(* What an instance is created with.                                       *)
LEMMA CreatedVersion == Created \in Version(product)
<1>1. Created \in Instance /\ Created.standbys \in Seq(Fit)
  <2>1. Configured \in Seq(Standby) /\ Configured \in Seq(Fit)
    BY ConfiguredList DEF Fit
  <2>2. [c \in Clusters |-> IF c = Home THEN "unknown" ELSE "low"] \in [Clusters -> Lags]
    BY DEF Lags
  <2>3. PICK sb : sb = (IF product = "mysql" THEN Configured ELSE <<>>)
    OBVIOUS
  <2>4. sb \in Seq(Standby) /\ sb \in Seq(Fit)
    BY <2>1, <2>3
  <2>5. Created.standbys = sb
    BY <2>3 DEF Created
  <2> QED BY <2>2, <2>3, <2>4, <2>5, FailoverAssumption DEF Created, Instance
<1>2. ASSUME product = "mysql" PROVE One(Created)
  <2>1. Created.primary = Home /\ Created.standbys = Configured
    BY <1>2 DEF Created
  <2> QED BY <2>1, OthersList, ConfiguredList, FailoverAssumption DEF One, IsInjective
<1> QED BY <1>1, <1>2 DEF Version

(* Of Valkey, every instance with fit entries is one.                      *)
LEMMA ValkeyVersion ==
  ASSUME NEW o \in Instance, o.standbys \in Seq(Fit)
  PROVE  o \in Version("valkey")
BY DEF Version

(* A version with other standbys, and another primary.                     *)
LEMMA Rewritten ==
  ASSUME NEW o \in Version("valkey"), NEW c \in Clusters \cup {None}, NEW sb \in Seq(Fit)
  PROVE  [o EXCEPT !.primary = c, !.standbys = sb] \in Version("valkey")
<1>1. o \in Instance
  BY DEF Version
<1>2. sb \in Seq(Standby)
  BY DEF Fit
<1>3. [o EXCEPT !.primary = c, !.standbys = sb] \in Instance
  BY <1>1, <1>2 DEF Instance
<1>4. [o EXCEPT !.primary = c, !.standbys = sb].standbys = sb
  BY <1>1 DEF Instance
<1> QED BY <1>3, <1>4, ValkeyVersion

(* What the adapter observes is never ready and marked.                    *)
LEMMA ObservedVersion ==
  ASSUME NEW o \in Version("valkey")
  PROVE  cacheTopologyStatus(o) \in Version("valkey")
<1>1. o \in Instance /\ o.standbys \in Seq(Fit)
  BY DEF Version
<1>2. PrimaryOf(o) \in Clusters
  BY <1>1, FailoverAssumption DEF PrimaryOf, Instance
<1>3. StandbysOf(o) \in Seq(Fit)
  BY <1>1, ConfiguredList DEF StandbysOf
<1>4. PICK l \in Seq(Fit) : l = Without(StandbysOf(o), {PrimaryOf(o)})
  <2>1. PICK s \in Seq(Fit) : s = StandbysOf(o)
    BY <1>3
  <2>2. Without(s, {PrimaryOf(o)}) \in Seq(Fit)
    BY Staying
  <2> QED BY <2>1, <2>2
<1>5. ASSUME NEW s \in Fit PROVE ObservedStandby(o, s) \in Fit
  <2>1. s \in Standby /\ s.cluster \in Clusters /\ s.lag \in Lags /\ s.resync \in BOOLEAN
    BY DEF Fit, Standby
  <2>2. o.lag \in [Clusters -> Lags]
    BY <1>1 DEF Instance
  <2>3. PICK lag \in Lags : lag = IF o.lag[s.cluster] # "unknown" THEN o.lag[s.cluster] ELSE s.lag
    BY <2>1, <2>2
  <2>4. PICK ready \in BOOLEAN : ready = (lag = "low" /\ ~s.resync)
    OBVIOUS
  <2>5. ObservedStandby(o, s) = [s EXCEPT !.lag = lag, !.ready = ready]
    BY <2>3, <2>4 DEF ObservedStandby
  <2>6. ObservedStandby(o, s) \in Standby
    BY <2>1, <2>5 DEF Standby
  <2>7. ObservedStandby(o, s).ready = ready /\ ObservedStandby(o, s).resync = s.resync
    BY <2>1, <2>5 DEF Standby
  <2> QED BY <2>4, <2>6, <2>7 DEF Fit
<1>6. PICK m : m = [i \in 1..Len(l) |-> ObservedStandby(o, l[i])]
  OBVIOUS
<1>7. m \in Seq(Fit)
  BY <1>5, <1>6
<1>8. cacheTopologyStatus(o) = [o EXCEPT !.primary = PrimaryOf(o), !.standbys = m]
  BY <1>4, <1>6 DEF cacheTopologyStatus, MapStandbys
<1>9. PICK c \in Clusters \cup {None} : c = PrimaryOf(o)
  BY <1>2
<1>10. [o EXCEPT !.primary = c, !.standbys = m] \in Version("valkey")
  BY <1>7, Rewritten
<1> QED BY <1>8, <1>9, <1>10

(* A promotion writes entries that wait for a resync and are not ready.    *)
LEMMA PromotedVersion ==
  ASSUME NEW o \in Version("valkey"), NEW c \in Clusters, o.primary # None
  PROVE  Promote(o, c) \in Version("valkey") /\ Promote(o, c).primary = c
<1>1. o \in Instance /\ o.standbys \in Seq(Fit) /\ o.primary \in Clusters
  BY DEF Version, Instance
<1>2. Demoted(o.primary) \in Fit
  BY <1>1, MadeEntries
<1>3. PICK r : r = [i \in 1..Len(o.standbys) |->
                      IF o.standbys[i].cluster = c THEN Demoted(o.primary) ELSE o.standbys[i]]
  OBVIOUS
<1>4. r \in Seq(Fit)
  BY <1>1, <1>2, <1>3
<1>5. PICK sb : sb = (IF o.primary \in Range(Names(o.standbys)) THEN r
                      ELSE Append(r, Demoted(o.primary)))
  OBVIOUS
<1>6. sb \in Seq(Fit)
  BY <1>2, <1>4, <1>5
<1>7. Promote(o, c) = [o EXCEPT !.primary = c, !.standbys = sb]
  BY <1>3, <1>5 DEF Promote, MapStandbys
<1>8. Promote(o, c).primary = c
  BY <1>1, <1>7 DEF Instance
<1>9. PICK d \in Clusters \cup {None} : d = c
  OBVIOUS
<1>10. [o EXCEPT !.primary = d, !.standbys = sb] \in Version("valkey")
  BY <1>6, Rewritten
<1> QED BY <1>7, <1>8, <1>9, <1>10

(* So does the request for a resync.                                       *)
LEMMA ResyncVersion ==
  ASSUME NEW o \in Version("valkey"), NEW c \in Clusters
  PROVE  ResyncRequested(o, c) \in Version("valkey")
<1>1. o \in Instance /\ o.standbys \in Seq(Fit) /\ o.primary \in Clusters \cup {None}
  BY DEF Version, Instance
<1>2. PICK sb : sb = [i \in 1..Len(o.standbys) |->
                        IF o.standbys[i].cluster = c /\ First(o.standbys, i) THEN Demoted(c)
                        ELSE o.standbys[i]]
  OBVIOUS
<1>3. sb \in Seq(Fit)
  BY <1>1, <1>2, MadeEntries
<1>4. ResyncRequested(o, c) = [o EXCEPT !.primary = o.primary, !.standbys = sb]
  BY <1>1, <1>2 DEF ResyncRequested, Instance
<1> QED BY <1>1, <1>3, <1>4, Rewritten

(* A swap puts the old primary in the place of the new one.                *)
LEMMA SwappedVersion ==
  ASSUME NEW o \in Version("mysql"), NEW c \in Clusters, c # o.primary
  PROVE  Swap(o, c) \in Version("mysql") /\ Swap(o, c).primary = c
<1>1. o \in Instance /\ o.standbys \in Seq(Fit) /\ One(o) /\ o.primary \in Clusters
  BY DEF Version, One
<1> DEFINE gone == {c, o.primary}
<1>s. PICK s \in Seq(Fit) : s = o.standbys
  BY <1>1
<1> DEFINE kept == {i \in 1..Len(s) : s[i].cluster \notin gone}
           w == Without(s, gone)
           e == NewStandby(o.primary)
           sb == Append(w, e)
<1>2. PICK f : /\ w \in Seq(Fit)
               /\ f \in [1..Len(w) -> kept] /\ IsInjective(f)
               /\ \A i \in kept : \E j \in 1..Len(w) : f[j] = i
               /\ \A j \in 1..Len(w) : w[j] = s[f[j]]
  <2> HIDE DEF gone
  <2> QED BY Staying
<1>3. e \in Fit /\ e.cluster = o.primary
  BY <1>1, MadeEntries
<1> HIDE DEF w, e
<1>4. /\ sb \in Seq(Fit) /\ Len(sb) = Len(w) + 1 /\ Len(w) \in Nat
      /\ \A j \in 1..Len(w) : sb[j] = w[j]
      /\ sb[Len(w) + 1] = e
  BY <1>2, <1>3
<1> HIDE DEF sb
<1>5. Swap(o, c) = [o EXCEPT !.primary = c, !.previous = o.primary, !.rest = FALSE, !.standbys = sb]
  BY <1>1, <1>s DEF Swap, Instance, sb, w, e
<1>6. sb \in Seq(Standby)
  BY <1>4 DEF Fit
<1>7. Swap(o, c) \in Instance
  BY <1>1, <1>5, <1>6 DEF Instance
<1>8. Swap(o, c).primary = c /\ Swap(o, c).standbys = sb
  BY <1>1, <1>5 DEF Instance
<1>9. \A j \in 1..Len(w) : f[j] \in 1..Len(s) /\ sb[j].cluster = s[f[j]].cluster /\ s[f[j]].cluster \notin gone
  BY <1>2, <1>4
<1>10. ASSUME NEW i \in 1..Len(sb) PROVE sb[i].cluster # c
  BY <1>3, <1>4, <1>9
<1>11. ASSUME NEW i \in 1..Len(sb), NEW j \in 1..Len(sb), sb[i].cluster = sb[j].cluster PROVE i = j
  <2>1. i \in 1..Len(w) \/ i = Len(w) + 1
    BY <1>4
  <2>2. j \in 1..Len(w) \/ j = Len(w) + 1
    BY <1>4
  <2>3. CASE i \in 1..Len(w) /\ j \in 1..Len(w)
    <3>1. s[f[i]].cluster = s[f[j]].cluster /\ f[i] \in 1..Len(s) /\ f[j] \in 1..Len(s)
      BY <1>9, <1>11, <2>3
    <3>2. f[i] = f[j]
      BY <1>1, <1>s, <3>1 DEF One
    <3> QED BY <1>2, <2>3, <3>2 DEF IsInjective
  <2>4. CASE ~(i \in 1..Len(w) /\ j \in 1..Len(w))
    BY <1>3, <1>4, <1>9, <1>11, <2>1, <2>2, <2>4
  <2> QED BY <2>3, <2>4
<1>12. ASSUME NEW d \in Clusters \ {c} PROVE \E i \in 1..Len(sb) : sb[i].cluster = d
  <2>1. CASE d = o.primary
    <3>1. Len(w) + 1 \in 1..Len(sb)
      BY <1>4
    <3> QED BY <1>3, <1>4, <2>1, <3>1
  <2>2. CASE d # o.primary
    <3>1. PICK k \in 1..Len(s) : s[k].cluster = d
      BY <1>1, <1>s, <2>2 DEF One
    <3>2. k \in kept
      BY <2>2, <3>1
    <3>3. PICK j \in 1..Len(w) : f[j] = k
      BY <1>2, <3>2
    <3>4. j \in 1..Len(sb) /\ sb[j].cluster = d
      BY <1>4, <1>9, <3>1, <3>3
    <3> QED BY <3>4
  <2> QED BY <2>1, <2>2
<1>13. One(Swap(o, c))
  BY <1>8, <1>10, <1>11, <1>12 DEF One
<1> QED BY <1>4, <1>7, <1>8, <1>13 DEF Version

(* ------------------------------- the steps ------------------------------ *)

(* What is stored is a new version for everybody.                          *)
LEMMA Stored ==
  ASSUME Inv, NEW new \in Version(product), Store(new)
  PROVE  /\ server' = new /\ server' \in Version(product)
         /\ pend' \in Seq(Version(product))
<1>1. server' = new /\ (UNCHANGED pend \/ pend' = Append(pend, new))
  BY DEF Store
<1>2. PICK V : V = Version(product)
  OBVIOUS
<1>3. pend \in Seq(V) /\ new \in V
  BY <1>2 DEF Inv
<1>4. pend' \in Seq(V)
  BY <1>1, <1>3
<1> QED BY <1>1, <1>2, <1>4

(* A patch of Valkey's status mixes two versions into one.                 *)
LEMMA Patched ==
  ASSUME Inv, product = "valkey", NEW new \in Version("valkey"), PatchStatus(new)
  PROVE  server' \in Version(product) /\ pend' \in Seq(Version(product))
<1>1. /\ server \in Version("valkey") /\ server \in Instance /\ server.standbys \in Seq(Fit)
      /\ new \in Instance /\ new.standbys \in Seq(Fit)
  BY DEF Inv, Version
<1>2. PICK c \in Clusters \cup {None} :
        c = IF new.primary = cache.primary THEN server.primary ELSE new.primary
  BY <1>1 DEF Instance
<1>3. PICK sb \in Seq(Fit) :
        sb = IF new.standbys = cache.standbys THEN server.standbys ELSE new.standbys
  BY <1>1
<1>4. PICK v : v = [server EXCEPT !.primary = c, !.standbys = sb]
  OBVIOUS
<1>5. v \in Version(product)
  BY <1>1, <1>4, Rewritten
<1>6. Store(v)
  BY <1>1, <1>2, <1>3, <1>4 DEF PatchStatus, Instance
<1> QED BY <1>5, <1>6, Stored

(* At first everything is what was created.                                *)
LEMMA Initially == Init => Inv
<1> SUFFICES ASSUME Init PROVE Inv
  OBVIOUS
<1>1. PICK V : V = Version(product) /\ Created \in V
  BY CreatedVersion
<1>2. inst \in Reconcile(product)
  BY <1>1 DEF Init, Reconcile
<1>3. act \in Execution(product)
  BY <1>1 DEF Init, Execution, Kinds
<1>4. pend \in Seq(Version(product))
  BY DEF Init
<1> QED BY <1>1, <1>2, <1>3, <1>4 DEF Init, Inv, MySQLPromotionKept, Kept

(* The action under way stays one, with other fields.                      *)
LEMMA ExecutionGoesOn ==
  ASSUME NEW p, NEW a \in Execution(p)
  PROVE  /\ a.pc \in {"idle", "resolve", "execute", "record"} /\ a.kind \in Kinds
         /\ a.target \in Clusters \cup {None} /\ a.read \in Version(p)
         /\ [a EXCEPT !.fresh = FALSE] \in Execution(p)
         /\ \A pc \in {"idle", "resolve", "execute", "record"} :
              /\ [a EXCEPT !.pc = pc] \in Execution(p)
              /\ [a EXCEPT !.pc = pc, !.fresh = FALSE] \in Execution(p)
BY DEF Execution

(* The reconcile under way stays one, at another step.                     *)
LEMMA ReconcileGoesOn ==
  ASSUME NEW p, NEW w \in Reconcile(p)
  PROVE  /\ w.read \in Version(p)
         /\ \A pc \in {"idle", "publish", "persist"} : [w EXCEPT !.pc = pc] \in Reconcile(p)
BY DEF Reconcile

(* Watch, resync, restart and the steps that write nothing to the server.  *)
LEMMA LocalStep ==
  ASSUME Inv, UNCHANGED <<product, server, promoted>>,
         cache' \in Version(product), pend' \in Seq(Version(product)), queue' \in BOOLEAN,
         inst' \in Reconcile(product), act' \in Execution(product),
         published' \in Clusters \cup {None}
  PROVE  Inv'
BY DEF Inv, MySQLPromotionKept, Kept

(* Watch events, the informer's resync, and a restart.                     *)
LEMMA EnvironmentStep ==
  ASSUME Inv, Deliver \/ Resync \/ Restart
  PROVE  Inv'
<1>1. CASE Deliver
  <2>1. PICK V : V = Version(product)
    OBVIOUS
  <2>2. pend \in Seq(V) /\ pend # <<>>
    BY <1>1, <2>1 DEF Inv, Deliver
  <2>3. Head(pend) \in V /\ Tail(pend) \in Seq(V)
    BY <2>2
  <2> QED BY <1>1, <2>1, <2>3, LocalStep DEF Deliver, Inv
<1>2. CASE Resync
  BY <1>2, LocalStep DEF Resync, Inv
<1>3. CASE Restart
  <2>1. inst \in Reconcile(product) /\ act \in Execution(product)
    BY DEF Inv
  <2>2. inst' \in Reconcile(product)
    BY <1>3, <2>1, ReconcileGoesOn DEF Restart
  <2>3. PICK pc \in {"idle", "resolve"} : act' = [act EXCEPT !.pc = pc]
    BY <1>3, <2>1 DEF Restart, Execution
  <2>4. act' \in Execution(product)
    BY <2>1, <2>3, ExecutionGoesOn
  <2> QED BY <1>3, <2>2, <2>4, LocalStep DEF Restart, Inv
<1> QED BY <1>1, <1>2, <1>3

(* Somebody asks for an action.                                            *)
LEMMA RequestStep ==
  ASSUME Inv, NEW kind \in Kinds, NEW target \in Clusters \cup {None}, Request(kind, target)
  PROVE  Inv'
<1>1. act \in Execution(product)
  BY DEF Inv
<1>2. act' = [act EXCEPT !.pc = "resolve", !.kind = kind, !.target = target]
  BY DEF Request
<1>3. act' \in Execution(product)
  BY <1>1, <1>2 DEF Execution
<1> QED BY <1>3, LocalStep DEF Request, Inv

(* An action reads the cached instance.                                    *)
LEMMA ResolveStep ==
  ASSUME Inv, Resolve
  PROVE  Inv'
<1>1. act \in Execution(product) /\ cache \in Version(product)
  BY DEF Inv
<1>2. PICK fresh \in BOOLEAN :
        act' = [act EXCEPT !.pc = "execute", !.read = cache, !.fresh = fresh]
  BY DEF Resolve
<1>3. act' \in Execution(product)
  BY <1>1, <1>2 DEF Execution
<1> QED BY <1>3, LocalStep DEF Resolve, Inv

(* The result of an action is recorded with the request.                   *)
LEMMA RecordStep ==
  ASSUME Inv, RecordResult
  PROVE  Inv'
<1>1. act \in Execution(product)
  BY DEF Inv
<1>2. act' \in Execution(product)
  BY <1>1, ExecutionGoesOn DEF RecordResult
<1> QED BY <1>2, LocalStep DEF RecordResult, Inv

(* The ServiceInstance controller reads and renders.                       *)
LEMMA RenderStep ==
  ASSUME Inv, InstanceBegin \/ InstancePublish
  PROVE  Inv'
<1>1. inst \in Reconcile(product) /\ cache \in Version(product)
  BY DEF Inv
<1>2. CASE InstanceBegin
  <2>1. inst' \in Reconcile(product)
    BY <1>1, <1>2 DEF InstanceBegin, Reconcile
  <2> QED BY <1>2, <2>1, LocalStep DEF InstanceBegin, Inv
<1>3. CASE InstancePublish
  <2>1. inst' \in Reconcile(product) /\ inst.read \in Version(product)
    BY <1>1, <1>3, ReconcileGoesOn DEF InstancePublish
  <2>2. PrimaryOf(inst.read) \in Clusters \cup {None}
    BY <2>1, FailoverAssumption DEF PrimaryOf, Version, Instance
  <2> QED BY <1>3, <2>1, <2>2, LocalStep DEF InstancePublish, Inv
<1> QED BY <1>2, <1>3

(* The steps that write to the server: of MySQL, only a promotion.         *)
LEMMA ServerStep ==
  ASSUME Inv, UNCHANGED <<product, cache, published>>,
         server' \in Version(product), pend' \in Seq(Version(product)), queue' \in BOOLEAN,
         inst' \in Reconcile(product), act' \in Execution(product),
         promoted' \in Clusters \cup {None},
         product = "mysql" => UNCHANGED <<server, promoted>> \/ server'.primary = promoted'
  PROVE  Inv'
BY DEF Inv, MySQLPromotionKept, Kept

(* A user reports another lag.                                             *)
LEMMA EditStep ==
  ASSUME Inv, EditParameters
  PROVE  Inv'
<1>1. PICK c \in Clusters : \E l \in Lags : Store([server EXCEPT !.lag[c] = l])
  BY DEF EditParameters
<1>2. PICK l \in Lags : Store([server EXCEPT !.lag[c] = l])
  BY <1>1
<1>3. server \in Instance /\ server.standbys \in Seq(Fit) /\ product = "valkey"
  BY DEF Inv, Version, EditParameters
<1>4. PICK v : v = [server EXCEPT !.lag[c] = l]
  OBVIOUS
<1>5. v \in Instance
  BY <1>3, <1>4 DEF Instance
<1>6. v.standbys = server.standbys
  BY <1>3, <1>4 DEF Instance
<1>7. v \in Version(product)
  BY <1>3, <1>5, <1>6 DEF Version
<1>8. server' \in Version(product) /\ pend' \in Seq(Version(product))
  BY <1>2, <1>4, <1>7, Stored
<1>9. act' \in Execution(product)
  BY ExecutionGoesOn DEF EditParameters, Inv
<1> QED BY <1>3, <1>8, <1>9, ServerStep DEF EditParameters, Inv

(* The status a reconcile computed goes to the server.                     *)
LEMMA Persisted ==
  ASSUME Inv, NEW status, product = "valkey" => status \in Version("valkey"),
         NEW changed \in BOOLEAN, PersistStatus(status, changed)
  PROVE  /\ server' \in Version(product) /\ pend' \in Seq(Version(product))
         /\ product = "mysql" => UNCHANGED server
         /\ inst' \in Reconcile(product) /\ act' \in Execution(product)
<1>1. inst' \in Reconcile(product)
  BY ReconcileGoesOn DEF PersistStatus, Inv
<1>2. act' \in Execution(product)
  <2>1. act \in Execution(product) /\ (act' = act \/ act' = [act EXCEPT !.fresh = FALSE])
    BY DEF PersistStatus, Inv
  <2> QED BY <2>1, ExecutionGoesOn
<1>3. CASE product = "valkey" /\ changed /\ PatchStatus(status)
  BY <1>1, <1>2, <1>3, Patched
<1>4. CASE UNCHANGED <<server, pend>>
  BY <1>1, <1>2, <1>4 DEF Inv
<1> QED BY <1>3, <1>4 DEF PersistStatus

(* A reconcile ends, well or not.                                          *)
LEMMA PersistStep ==
  ASSUME Inv, InstancePersist \/ InstanceFails
  PROVE  Inv'
<1>1. inst.read \in Version(product)
  BY ReconcileGoesOn DEF Inv
<1>2. CASE InstancePersist
  <2>1. PICK status : /\ status = cacheTopologyStatus(inst.read)
                      /\ \E changed \in BOOLEAN : PersistStatus(status, changed)
    BY <1>2 DEF InstancePersist
  <2>2. ASSUME product = "valkey" PROVE status \in Version("valkey")
    <3>1. PICK o \in Version("valkey") : o = inst.read
      BY <1>1, <2>2
    <3> QED BY <2>1, <3>1, ObservedVersion
  <2>3. /\ server' \in Version(product) /\ pend' \in Seq(Version(product))
        /\ product = "mysql" => UNCHANGED server
        /\ inst' \in Reconcile(product) /\ act' \in Execution(product)
    BY <2>1, <2>2, Persisted
  <2> QED BY <1>2, <2>3, ServerStep DEF InstancePersist, Inv
<1>3. CASE InstanceFails
  <2>1. PICK status : /\ status = inst.read
                      /\ \E changed \in BOOLEAN : PersistStatus(status, changed)
    BY <1>3 DEF InstanceFails
  <2>2. product = "valkey" => status \in Version("valkey")
    BY <1>1, <2>1
  <2>3. /\ server' \in Version(product) /\ pend' \in Seq(Version(product))
        /\ product = "mysql" => UNCHANGED server
        /\ inst' \in Reconcile(product) /\ act' \in Execution(product)
    BY <2>1, <2>2, Persisted
  <2> QED BY <1>3, <2>3, ServerStep DEF InstanceFails, Inv
<1> QED BY <1>2, <1>3

(* What an action is to promote is a cluster, if anything.                 *)
LEMMA GoalType ==
  ASSUME Inv
  PROVE  Goal \in Clusters \cup {None}
<1>1. act.target \in Clusters \cup {None} /\ act.read \in Version(product)
  BY ExecutionGoesOn DEF Inv
<1>2. act.read.previous \in Clusters \cup {None} /\ act.read.standbys \in Seq(Fit)
  BY <1>1 DEF Version, Instance
<1>3. PICK s \in Seq(Fit) : s = act.read.standbys
  BY <1>2
<1> DEFINE old == {i \in 1..Len(s) : s[i].resync}
<1>4. ASSUME old # {} PROVE s[Min(old)].cluster \in Clusters
  <2>1. old \in SUBSET Nat
    OBVIOUS
  <2>2. Min(old) \in 1..Len(s)
    BY <1>4, <2>1, LeastPosition
  <2>3. s[Min(old)] \in Fit
    BY <2>2
  <2> QED BY <2>3 DEF Fit, Standby
<1>5. rollbackTarget \in Clusters \cup {None}
  BY <1>1, <1>2, <1>3, <1>4 DEF rollbackTarget
<1> QED BY <1>1, <1>5 DEF Goal

(* Valkey's promotion and resync patch the status.                         *)
LEMMA ValkeyStep ==
  ASSUME Inv, ValkeyPromote \/ ValkeyResync
  PROVE  Inv'
<1>1. product = "valkey" /\ cache \in Version("valkey")
  BY DEF ValkeyPromote, ValkeyResync, Inv
<1>2. act' \in Execution(product)
  BY ExecutionGoesOn DEF ValkeyPromote, ValkeyResync, FinishAction, Inv
<1>3. PICK o \in Version("valkey") : o = cache
  BY <1>1
<1>4. CASE ValkeyPromote
  <2>1. CASE UNCHANGED <<server, pend, promoted>>
    BY <1>1, <1>2, <1>4, <2>1, ServerStep DEF ValkeyPromote, Inv
  <2>2. CASE Goal # None /\ Preflight(cache, Goal) /\ PatchStatus(Promote(cache, Goal)) /\ promoted' = Goal
    <3>1. PICK c \in Clusters : c = Goal
      BY <2>2, GoalType
    <3>2. o.primary # None
      BY <1>3, <2>2 DEF Preflight
    <3>3. Promote(o, c) \in Version("valkey")
      BY <3>2, PromotedVersion
    <3>4. PICK new \in Version("valkey") : new = Promote(cache, Goal)
      BY <1>3, <3>1, <3>3
    <3>5. server' \in Version(product) /\ pend' \in Seq(Version(product))
      BY <1>1, <2>2, <3>4, Patched
    <3> QED BY <1>1, <1>2, <1>4, <2>2, <3>1, <3>5, ServerStep DEF ValkeyPromote, Inv
  <2> QED BY <1>4, <2>1, <2>2 DEF ValkeyPromote
<1>5. CASE ValkeyResync
  <2>1. CASE UNCHANGED <<server, pend>>
    BY <1>1, <1>2, <1>5, <2>1, ServerStep DEF ValkeyResync, Inv
  <2>2. CASE /\ act.target \in Range(Names(cache.standbys)) \ {cache.primary}
             /\ PatchStatus(ResyncRequested(cache, act.target))
    <3>1. o.standbys \in Seq(Fit)
      BY DEF Version
    <3>2. PICK i \in 1..Len(o.standbys) : act.target = o.standbys[i].cluster
      BY <1>3, <2>2, <3>1 DEF Range, Names
    <3>3. o.standbys[i] \in Fit
      BY <3>1
    <3>4. PICK c \in Clusters : c = act.target
      BY <3>2, <3>3 DEF Fit, Standby
    <3>5. PICK new \in Version("valkey") : new = ResyncRequested(cache, act.target)
      BY <1>3, <3>4, ResyncVersion
    <3>6. server' \in Version(product) /\ pend' \in Seq(Version(product))
      BY <1>1, <2>2, <3>5, Patched
    <3> QED BY <1>1, <1>2, <1>5, <3>6, ServerStep DEF ValkeyResync, Inv
  <2> QED BY <1>5, <2>1, <2>2 DEF ValkeyResync
<1> QED BY <1>4, <1>5

(* MySQL's promotion updates the parameters it read, or nothing.           *)
LEMMA MySQLStep ==
  ASSUME Inv, MySQLPromote
  PROVE  Inv'
<1>1. product = "mysql"
  BY DEF MySQLPromote
<1>2. act' \in Execution(product)
  BY ExecutionGoesOn DEF MySQLPromote, FinishAction, Inv
<1>3. PICK o \in Version("mysql") : o = act.read
  BY <1>1, ExecutionGoesOn DEF Inv
<1>4. CASE UNCHANGED <<server, pend, promoted>>
  BY <1>1, <1>2, <1>4, ServerStep DEF MySQLPromote, Inv
<1>5. CASE /\ act.read.primary # Goal
           /\ \/ act.kind = "rollback" /\ Goal # None
              \/ act.kind = "failover" /\ Goal \in Range(Names(act.read.standbys))
           /\ Store(Swap(act.read, Goal)) /\ promoted' = Goal
  <2>1. o.standbys \in Seq(Fit)
    BY DEF Version
  <2>2. Goal \in Clusters
    <3>1. CASE Goal # None
      BY <3>1, GoalType
    <3>2. CASE Goal \in Range(Names(act.read.standbys))
      <4>1. PICK i \in 1..Len(o.standbys) : Goal = o.standbys[i].cluster
        BY <1>3, <2>1, <3>2 DEF Range, Names
      <4>2. o.standbys[i] \in Fit
        BY <2>1
      <4> QED BY <4>1, <4>2 DEF Fit, Standby
    <3> QED BY <1>5, <3>1, <3>2
  <2>3. PICK c \in Clusters : c = Goal
    BY <2>2
  <2>4. Swap(o, c) \in Version("mysql") /\ Swap(o, c).primary = c
    BY <1>3, <1>5, <2>3, SwappedVersion
  <2>5. PICK new \in Version(product) : new = Swap(act.read, Goal) /\ new.primary = Goal
    BY <1>1, <1>3, <2>3, <2>4
  <2>6. server' = new /\ server' \in Version(product) /\ pend' \in Seq(Version(product))
    BY <1>5, <2>5, Stored
  <2>7. promoted' \in Clusters \cup {None} /\ server'.primary = promoted'
    BY <1>5, <2>2, <2>5, <2>6
  <2> QED BY <1>2, <2>6, <2>7, ServerStep DEF MySQLPromote, Inv
<1> QED BY <1>4, <1>5 DEF MySQLPromote, UpdateParameters

(* Every step keeps the invariant.                                         *)
LEMMA Inductive == Inv /\ [Next]_vars => Inv'
<1> SUFFICES ASSUME Inv, [Next]_vars PROVE Inv'
  OBVIOUS
<1>1. CASE Next
  BY <1>1, RequestStep, EnvironmentStep, EditStep, RenderStep, PersistStep, ResolveStep,
     ValkeyStep, MySQLStep, RecordStep DEF Next, InstanceStep, ActionStep
<1>2. CASE UNCHANGED vars
  BY <1>2, LocalStep DEF vars, Inv
<1> QED BY <1>1, <1>2

(* The invariant holds in every reachable state.                           *)
LEMMA Invariant == Spec => []Inv
BY Initially, Inductive, PTL DEF Spec

(* -------------------------------- theorems ------------------------------ *)

(* Every reachable state is well typed: no promotion, rollback or resync,  *)
(* of whatever was read, writes an entry without a cluster or a field.     *)
THEOREM FailoverTypeCorrect == Spec => []TypeOK
<1>1. ASSUME Inv PROVE TypeOK
  <2>1. \A p : Version(p) \subseteq Instance
    BY DEF Version
  <2>2. pend \in Seq(Instance)
    <3>1. PICK V : V = Version(product) /\ V \subseteq Instance
      BY <2>1
    <3> QED BY <1>1, <3>1 DEF Inv
  <2>3. inst \in Worker
    BY <1>1, <2>1 DEF Inv, Reconcile, Worker
  <2>4. act \in Action
    BY <1>1, <2>1 DEF Inv, Execution, Action
  <2> QED BY <1>1, <2>1, <2>2, <2>3, <2>4 DEF Inv, TypeOK
<1> QED BY <1>1, Invariant, PTL

(* A standby that waits for a resync is never ready, which is all the      *)
(* preflight asks, however patches of the two controllers mix.             *)
THEOREM ResyncIsNotReady == Spec => []ResyncBlocksPromotion
<1>1. ASSUME Inv PROVE ResyncBlocksPromotion
  <2>1. server.standbys \in Seq(Fit)
    BY <1>1 DEF Inv, Version
  <2>2. \A i \in 1..Len(server.standbys) : server.standbys[i] \in Fit
    BY <2>1
  <2> QED BY <2>2 DEF ResyncBlocksPromotion, Fit
<1> QED BY <1>1, Invariant, PTL

(* MySQL's parameters name every cluster once and one of them as primary,  *)
(* after any sequence of failovers and rollbacks, conflicts included.      *)
THEOREM OnePrimaryIsKept == Spec => []OnePrimary
<1>1. ASSUME Inv PROVE OnePrimary
  <2> SUFFICES ASSUME product = "mysql"
               PROVE  /\ server.primary \notin Range(Names(server.standbys))
                      /\ IsInjective(Names(server.standbys))
                      /\ Range(Names(server.standbys)) \cup {server.primary} = Clusters
    BY DEF OnePrimary
  <2>1. One(server) /\ server.standbys \in Seq(Fit)
    BY <1>1 DEF Inv, Version
  <2>2. \A i \in 1..Len(server.standbys) : server.standbys[i] \in Fit
    BY <2>1
  <2>3. \A i \in 1..Len(server.standbys) : server.standbys[i].cluster \in Clusters
    BY <2>2 DEF Fit, Standby
  <2> DEFINE names == Names(server.standbys)
  <2>4. /\ DOMAIN names = 1..Len(server.standbys)
        /\ \A i \in 1..Len(server.standbys) : names[i] = server.standbys[i].cluster
    BY DEF Names
  <2> HIDE DEF names
  <2>5. Range(names) \subseteq Clusters /\ server.primary \notin Range(names)
    BY <2>1, <2>3, <2>4 DEF Range, One
  <2>6. IsInjective(names)
    BY <2>1, <2>4 DEF IsInjective, One
  <2>7. Clusters \subseteq Range(names) \cup {server.primary}
    BY <2>1, <2>4 DEF Range, One
  <2>8. server.primary \in Clusters
    BY <2>1 DEF One
  <2> QED BY <2>5, <2>6, <2>7, <2>8 DEF names
<1> QED BY <1>1, Invariant, PTL

(* A MySQL promotion that was written stays until the next one: no stale   *)
(* reconcile and no conflicting update undoes it.                          *)
THEOREM PromotionsAreKept == Spec => []MySQLPromotionKept
<1>1. Inv => MySQLPromotionKept
  BY DEF Inv
<1> QED BY <1>1, Invariant, PTL

=============================================================================
