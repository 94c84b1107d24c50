-------------------------- MODULE HorizonPagesProofs --------------------------
(***************************************************************************)
(* Proofs about HorizonPages, for any number of records, requests and      *)
(* pages, any limits and cursors, and whatever a builder is set to: pages  *)
(* go on from each other, and builders ask what HorizonClient does.        *)
(***************************************************************************)
EXTENDS HorizonPages, FiniteSetTheorems, TLAPS

-----------------------------------------------------------------------------
(* Sorting by counting: the k-th of a finite set of numbers is there, and  *)
(* comes before the next.                                                  *)

Ahead(S, order, i) == {j \in S : Before(order, j, i)}
Rank(S, order, i) == Cardinality(Ahead(S, order, i))

LEMMA BeforeIsTotal ==
  ASSUME NEW order, NEW i \in Nat, NEW j \in Nat
  PROVE  /\ ~Before(order, i, i)
         /\ i # j => Before(order, i, j) \/ Before(order, j, i)
         /\ ~(Before(order, i, j) /\ Before(order, j, i))
         /\ \A k \in Nat : Before(order, i, j) /\ Before(order, j, k) => Before(order, i, k)
  BY DEF Before

LEMMA RankGrows ==
  ASSUME NEW S \in SUBSET Nat, IsFiniteSet(S), NEW order, NEW i \in S
  PROVE  /\ Rank(S, order, i) \in 0..(Cardinality(S) - 1)
         /\ \A j \in S : Before(order, i, j) <=> Rank(S, order, i) < Rank(S, order, j)
<1>1. \A k \in S : IsFiniteSet(Ahead(S, order, k)) /\ Rank(S, order, k) \in Nat
  <2>1. \A k \in S : Ahead(S, order, k) \in SUBSET S
    BY DEF Ahead
  <2>2. QED
    BY <2>1, FS_Subset, FS_CardinalityType DEF Rank
<1>2. Rank(S, order, i) < Cardinality(S)
  <2>1. i \in S \ Ahead(S, order, i) /\ Ahead(S, order, i) \in SUBSET S
    BY BeforeIsTotal DEF Ahead
  <2>2. /\ Rank(S, order, i) <= Cardinality(S)
        /\ Rank(S, order, i) # Cardinality(S)
    BY <2>1, FS_Subset DEF Rank
  <2>3. QED
    BY <1>1, <2>2, FS_CardinalityType
<1>3. ASSUME NEW j \in S, NEW k \in S, Before(order, j, k)
      PROVE  Rank(S, order, j) < Rank(S, order, k)
  <2>1. Ahead(S, order, j) \in SUBSET Ahead(S, order, k)
    BY <1>3, BeforeIsTotal DEF Ahead
  <2>2. j \in Ahead(S, order, k) /\ j \notin Ahead(S, order, j)
    BY <1>3, BeforeIsTotal DEF Ahead
  <2>3. /\ Rank(S, order, j) <= Rank(S, order, k)
        /\ Rank(S, order, j) # Rank(S, order, k)
    BY <1>1, <2>1, <2>2, FS_Subset DEF Rank
  <2>4. QED
    BY <1>1, <2>3
<1>4. ASSUME NEW j \in S, Rank(S, order, i) < Rank(S, order, j)
      PROVE  Before(order, i, j)
  <2>1. ~Before(order, j, i)
    BY <1>1, <1>3, <1>4
  <2>2. i # j
    BY <1>1, <1>4
  <2>3. QED
    BY <2>1, <2>2, BeforeIsTotal
<1>5. QED
  BY <1>1, <1>2, <1>3, <1>4, FS_CardinalityType

(* Ranks are distinct and smaller than the size of the set, so each of     *)
(* them is taken.                                                          *)
LEMMA EveryRankTaken ==
  ASSUME NEW S \in SUBSET Nat, IsFiniteSet(S), NEW order,
         NEW r \in 0..(Cardinality(S) - 1)
  PROVE  \E i \in S : Rank(S, order, i) = r
<1> DEFINE T == 0..(Cardinality(S) - 1)
           f == [i \in S |-> Rank(S, order, i)]
<1>1. Cardinality(S) \in Nat
  BY FS_CardinalityType
<1>2. IsFiniteSet(T) /\ Cardinality(T) = Cardinality(S)
  BY <1>1, FS_Interval
<1>3. f \in [S -> T]
  BY RankGrows
<1>4. \A i, j \in S : f[i] = f[j] => i = j
  <2>1. ASSUME NEW i \in S, NEW j \in S, i # j
        PROVE  Rank(S, order, i) # Rank(S, order, j)
    <3>1. Before(order, i, j) \/ Before(order, j, i)
      BY <2>1, BeforeIsTotal
    <3>2. Rank(S, order, i) \in Nat /\ Rank(S, order, j) \in Nat
      BY <1>1, RankGrows
    <3>3. QED
      BY <3>1, <3>2, RankGrows
  <2>2. QED
    BY <2>1
<1>5. f \in Injection(S, T)
  BY <1>3, <1>4 DEF Injection, IsInjective
<1> HIDE DEF f, T
<1>6. f \in Surjection(S, T)
  BY <1>2, <1>5, FS_Injection
<1>7. r \in T
  BY DEF T
<1>8. \E i \in S : f[i] = r
  BY <1>6, <1>7 DEF Surjection
<1>9. QED
  BY <1>8 DEF f

LEMMA NthIs ==
  ASSUME NEW S \in SUBSET Nat, IsFiniteSet(S), NEW order, NEW k \in 1..Cardinality(S)
  PROVE  Nth(S, order, k) \in S /\ Rank(S, order, Nth(S, order, k)) = k - 1
<1>1. k - 1 \in 0..(Cardinality(S) - 1)
  BY FS_CardinalityType
<1>2. \E i \in S : Rank(S, order, i) = k - 1
  BY <1>1, EveryRankTaken
<1>3. Nth(S, order, k) = CHOOSE i \in S : Rank(S, order, i) = k - 1
  BY DEF Nth, Rank, Ahead
<1>4. QED
  BY <1>2, <1>3

(* The first of a finite set of numbers, in order: none is left out before *)
(* the last of them.                                                       *)
Firsts(S, order, n) == [k \in 1..n |-> Nth(S, order, k)]

IsFirst(S, order, n, first) ==
  /\ first \in Seq(Nat) /\ DOMAIN first = 1..n /\ Len(first) = n
  /\ \A k \in 1..n : first[k] \in S
  /\ \A k, l \in 1..n : k < l => Before(order, first[k], first[l])
  /\ \A i \in S : \/ \E k \in 1..n : first[k] = i
                  \/ n < Cardinality(S) /\ (n > 0 => Before(order, first[n], i))

LEMMA FirstOnes ==
  ASSUME NEW S \in SUBSET Nat, IsFiniteSet(S), NEW order, NEW n \in 0..Cardinality(S)
  PROVE  IsFirst(S, order, n, Firsts(S, order, n))
<1> DEFINE first == Firsts(S, order, n)
<1>1. Cardinality(S) \in Nat /\ n \in Nat /\ n <= Cardinality(S)
  BY FS_CardinalityType
<1>2. \A k \in 1..n : first[k] \in S /\ Rank(S, order, first[k]) = k - 1
  BY <1>1, NthIs DEF Firsts
<1>3. first \in [1..n -> Nat]
  BY <1>2 DEF Firsts
<1> HIDE DEF first
<1>4. first \in Seq(Nat) /\ DOMAIN first = 1..n /\ Len(first) = n
  BY <1>1, <1>3
<1>5. ASSUME NEW k \in 1..n, NEW l \in 1..n, k < l
      PROVE  Before(order, first[k], first[l])
  <2>1. Rank(S, order, first[k]) < Rank(S, order, first[l])
    BY <1>1, <1>2, <1>5
  <2>2. QED
    BY <1>2, <2>1, RankGrows
<1>6. ASSUME NEW i \in S
      PROVE  \/ \E k \in 1..n : first[k] = i
             \/ n < Cardinality(S) /\ (n > 0 => Before(order, first[n], i))
  <2>1. Rank(S, order, i) \in 0..(Cardinality(S) - 1)
    BY RankGrows
  <2>2. CASE Rank(S, order, i) < n
    <3> DEFINE k == Rank(S, order, i) + 1
    <3>1. k \in 1..n /\ first[k] \in S /\ Rank(S, order, first[k]) = Rank(S, order, i)
      BY <1>1, <1>2, <2>1, <2>2
    <3> HIDE DEF k
    <3>2. ~Before(order, first[k], i) /\ ~Before(order, i, first[k])
      <4>1. Rank(S, order, i) \in Nat
        BY <1>1, <2>1
      <4>2. Before(order, first[k], i) <=> Rank(S, order, first[k]) < Rank(S, order, i)
        BY <3>1, RankGrows
      <4>3. Before(order, i, first[k]) <=> Rank(S, order, i) < Rank(S, order, first[k])
        BY <3>1, RankGrows
      <4>4. QED
        BY <3>1, <4>1, <4>2, <4>3
    <3>3. first[k] = i
      BY <3>1, <3>2, BeforeIsTotal
    <3>4. QED
      BY <3>1, <3>3
  <2>3. CASE n <= Rank(S, order, i)
    <3>1. n < Cardinality(S)
      BY <1>1, <2>1, <2>3
    <3>2. ASSUME n > 0
          PROVE  Before(order, first[n], i)
      <4>1. n \in 1..n
        BY <1>1, <3>2
      <4>2. Rank(S, order, first[n]) < Rank(S, order, i)
        BY <1>1, <1>2, <2>1, <2>3, <4>1
      <4>3. QED
        BY <1>2, <4>1, <4>2, RankGrows
    <3>3. QED
      BY <3>1, <3>2
  <2>4. QED
    BY <1>1, <2>1, <2>2, <2>3
<1>7. /\ \A k \in 1..n : first[k] \in S
      /\ \A k, l \in 1..n : k < l => Before(order, first[k], first[l])
  BY <1>2, <1>5
<1>8. \A i \in S :
        \/ \E k \in 1..n : first[k] = i
        \/ n < Cardinality(S) /\ (n > 0 => Before(order, first[n], i))
  BY <1>6
<1>9. IsFirst(S, order, n, first)
  BY <1>4, <1>7, <1>8 DEF IsFirst
<1>10. QED
  BY <1>9 DEF first

-----------------------------------------------------------------------------
(* What Horizon answers: the records beyond the cursor, in order, with     *)
(* none left out unless the page is full.                                  *)

IsPage(url, at, records) ==
  /\ records \in Seq(Nat)
  /\ \A i, j \in DOMAIN records : i < j => Before(Order(url), records[i], records[j])
  /\ \A i \in DOMAIN records :
       /\ url.cursor # None => Before(Order(url), url.cursor, records[i])
       /\ Holds(url.path, records[i])
  /\ \A i \in 1..at :
       /\ url.cursor # None => Before(Order(url), url.cursor, i)
       /\ Holds(url.path, i)
       => \/ \E j \in DOMAIN records : records[j] = i
          \/ /\ Len(records) = Limit(url)
             /\ Before(Order(url), Last(records), i)

LEMMA RecordsArePage ==
  ASSUME published \in Nat, NEW url, Limit(url) \in Nat \ {0}
  PROVE  IsPage(url, published, RecordsOf(url))
<1> DEFINE all == {i \in 1..published :
                    Holds(url.path, i) /\ (url.cursor # None => Before(Order(url), url.cursor, i))}
           size == IF Cardinality(all) < Limit(url) THEN Cardinality(all) ELSE Limit(url)
           order == Order(url)
           records == RecordsOf(url)
<1>1. all \in SUBSET Nat /\ IsFiniteSet(all) /\ Cardinality(all) \in Nat
  <2>1. IsFiniteSet(1..published)
    BY FS_Interval
  <2>2. all \in SUBSET (1..published)
    OBVIOUS
  <2>3. QED
    BY <2>1, <2>2, FS_Subset, FS_CardinalityType
<1>2. \A i \in all : Holds(url.path, i) /\ (url.cursor # None => Before(order, url.cursor, i))
  OBVIOUS
<1>3. \A i \in 1..published :
        Holds(url.path, i) /\ (url.cursor # None => Before(order, url.cursor, i)) => i \in all
  OBVIOUS
<1>4. records = Firsts(all, order, size)
  BY DEF RecordsOf, Firsts
<1> HIDE DEF all, records
<1>5. size \in 0..Cardinality(all) /\ (size < Cardinality(all) => size = Limit(url) /\ size > 0)
  BY <1>1
<1> HIDE DEF size, order
<1>a. IsFirst(all, order, size, records)
  BY <1>1, <1>4, <1>5, FirstOnes
<1>6. /\ records \in Seq(Nat) /\ DOMAIN records = 1..size /\ Len(records) = size
      /\ \A k \in 1..size : records[k] \in all
      /\ \A k, l \in 1..size : k < l => Before(order, records[k], records[l])
      /\ \A i \in all : \/ \E k \in 1..size : records[k] = i
                        \/ size < Cardinality(all) /\ (size > 0 => Before(order, records[size], i))
  BY <1>a DEF IsFirst
<1>7. Last(records) = records[size]
  BY <1>6 DEF Last
<1>8. \A i \in 1..published :
        /\ url.cursor # None => Before(order, url.cursor, i)
        /\ Holds(url.path, i)
        => \/ \E j \in DOMAIN records : records[j] = i
           \/ Len(records) = Limit(url) /\ Before(order, Last(records), i)
  BY <1>3, <1>5, <1>6, <1>7
<1>9. IsPage(url, published, records)
  BY <1>2, <1>6, <1>8 DEF IsPage, order
<1>10. QED
  BY <1>9 DEF records

-----------------------------------------------------------------------------
(* What a builder and a request hold, as far as pages depend on it.        *)

UrlFields == {"path", "query", "cursor", "limit", "order"}
UrlOK(url) == DOMAIN url = UrlFields /\ Limit(url) \in Nat \ {0}
BuilderOK ==
  builder # None =>
    /\ {"cursor", "limit", "order"} \subseteq DOMAIN builder
    /\ builder.limit = None \/ builder.limit \in Nat \ {0}

(* Where a request comes from: a page that is there, from which its URL    *)
(* follows in one of the two ways.                                         *)
Follows(url, from, way) ==
  from # 0 =>
    /\ from \in DOMAIN pages
    /\ way \in {"next", "prev"}
    /\ url = _fetchPage(from, way) \/ url = parsePage(from, way)

PagesInv ==
  /\ published \in Nat
  /\ BuilderOK
  /\ pages \in Seq(ToSet(pages))
  /\ \A q \in requests : UrlOK(q.url) /\ Follows(q.url, q.from, q.way)
  /\ \A p \in ToSet(pages) :
       /\ UrlOK(p.url) /\ Follows(p.url, p.from, p.way)
       /\ IsPage(p.url, p.at, p.records)

(* The link of a page, taken as it is or made of its cursor, goes on from  *)
(* the edge of the page in its order, or against it, as far as a page.     *)
LEMMA LinkContinues ==
  ASSUME NEW k \in DOMAIN pages, NEW way \in {"next", "prev"}, UrlOK(pages[k].url),
         NEW url, url = _fetchPage(k, way) \/ url = parsePage(k, way)
  PROVE  /\ UrlOK(url) /\ Limit(url) = Limit(pages[k].url) /\ url.path = pages[k].url.path
         /\ url.cursor = IF way = "next" THEN End(pages[k]) ELSE Start(pages[k])
         /\ Order(url) = IF way = "next" THEN Order(pages[k].url)
                         ELSE Reversed(Order(pages[k].url))
<1> DEFINE p == pages[k]
           edge == IF p.records = <<>> THEN p.url.cursor
                   ELSE IF way = "next" THEN Last(p.records) ELSE Head(p.records)
           order == IF way = "next" THEN Order(p.url) ELSE Reversed(Order(p.url))
<1>1. /\ edge = IF way = "next" THEN End(p) ELSE Start(p)
      /\ Link(p, way) = [p.url EXCEPT !.cursor = edge, !.limit = Limit(p.url), !.order = order]
  BY DEF End, Start, Link
<1> HIDE DEF edge
<1>2. /\ Link(p, way).cursor = edge
      /\ parsePage(k, way) = [p.url EXCEPT !.cursor = Link(p, way).cursor,
                                            !.order = IF way = "next" THEN @ ELSE order]
  BY <1>1 DEF parsePage, UrlOK, UrlFields
<1>3. CASE url = _fetchPage(k, way)
  <2>1. url = [p.url EXCEPT !.cursor = edge, !.limit = Limit(p.url), !.order = order]
    BY <1>1, <1>3 DEF _fetchPage
  <2>2. /\ DOMAIN url = UrlFields /\ url.path = p.url.path /\ url.cursor = edge
        /\ url.limit = Limit(p.url) /\ url.order = order
    BY <2>1 DEF UrlOK, UrlFields
  <2>3. Limit(url) = Limit(p.url)
    BY <2>2 DEF Limit
  <2>4. Order(url) = order
    BY <2>2, PagesAssumption DEF Order, Reversed
  <2>5. QED
    BY <1>1, <2>2, <2>3, <2>4 DEF UrlOK
<1>4. CASE url = parsePage(k, way)
  <2>1. /\ DOMAIN url = UrlFields /\ url.path = p.url.path /\ url.cursor = edge
        /\ url.limit = p.url.limit
        /\ url.order = IF way = "next" THEN p.url.order ELSE order
    BY <1>2, <1>4 DEF UrlOK, UrlFields
  <2>2. Limit(url) = Limit(p.url)
    BY <2>1 DEF Limit
  <2>3. Order(url) = order
    BY <2>1, PagesAssumption DEF Order, Reversed
  <2>4. QED
    BY <1>1, <2>1, <2>2, <2>3 DEF UrlOK
<1>5. QED
  BY <1>3, <1>4

LEMMA PagesInvMeans == PagesInv => PagesContinue
<1> SUFFICES ASSUME PagesInv, NEW n \in DOMAIN pages, pages[n].from # 0
             PROVE  LET p == pages[n]
                        f == pages[p.from]
                        edge == IF p.way = "next" THEN End(f) ELSE Start(f)
                        order == IF p.way = "next" THEN Order(f.url) ELSE Reversed(Order(f.url))
                        IsPast(i) == edge # None => Before(order, edge, i)
                    IN  /\ \A i, j \in DOMAIN p.records :
                             i < j => Before(order, p.records[i], p.records[j])
                        /\ \A i \in DOMAIN p.records :
                             IsPast(p.records[i]) /\ Holds(f.url.path, p.records[i])
                        /\ \A i \in 1..p.at : IsPast(i) /\ Holds(f.url.path, i) =>
                             \/ \E j \in DOMAIN p.records : p.records[j] = i
                             \/ /\ Len(p.records) = Limit(f.url)
                                /\ Before(order, Last(p.records), i)
  BY DEF PagesContinue
<1> DEFINE p == pages[n]
           f == pages[p.from]
<1>0. p \in ToSet(pages)
  BY DEF ToSet
<1>1. /\ p.from \in DOMAIN pages /\ p.way \in {"next", "prev"}
      /\ p.url = _fetchPage(p.from, p.way) \/ p.url = parsePage(p.from, p.way)
      /\ IsPage(p.url, p.at, p.records)
  BY <1>0 DEF PagesInv, Follows
<1>2. UrlOK(f.url)
  BY <1>1 DEF PagesInv, ToSet
<1>3. /\ Limit(p.url) = Limit(f.url) /\ p.url.path = f.url.path
      /\ p.url.cursor = IF p.way = "next" THEN End(f) ELSE Start(f)
      /\ Order(p.url) = IF p.way = "next" THEN Order(f.url) ELSE Reversed(Order(f.url))
  BY <1>1, <1>2, LinkContinues
<1>4. QED
  BY <1>1, <1>3, Zenon DEF IsPage

-----------------------------------------------------------------------------
(* Every step keeps it. *)

LEMMA FollowsStays ==
  ASSUME DOMAIN pages \subseteq DOMAIN pages',
         \A k \in DOMAIN pages : pages'[k] = pages[k],
         NEW url, NEW from, NEW way, Follows(url, from, way)
  PROVE  Follows(url, from, way)'
  BY DEF Follows, _fetchPage, parsePage

LEMMA PagesInvInit == Init => PagesInv
<1> SUFFICES ASSUME Init PROVE PagesInv
  OBVIOUS
<1>1. published \in Nat /\ BuilderOK /\ requests = {} /\ pages = <<>>
  BY DEF Init, BuilderOK
<1>2. pages \in Seq(ToSet(pages)) /\ ToSet(pages) = {}
  BY <1>1 DEF ToSet
<1>3. QED
  BY <1>1, <1>2 DEF PagesInv

(* What only sets a builder leaves requests and pages as they are.         *)
LEMMA BuilderStep ==
  ASSUME PagesInv, UNCHANGED <<published, requests, pages>>, BuilderOK'
  PROVE  PagesInv'
<1>1. \A url, from, way : Follows(url, from, way) => Follows(url, from, way)'
  BY FollowsStays
<1>2. \A p \in ToSet(pages') :
        /\ UrlOK(p.url) /\ Follows(p.url, p.from, p.way)'
        /\ IsPage(p.url, p.at, p.records)
  BY <1>1 DEF PagesInv
<1>3. \A q \in requests' : UrlOK(q.url) /\ Follows(q.url, q.from, q.way)'
  BY <1>1 DEF PagesInv
<1>4. published' \in Nat /\ pages' \in Seq(ToSet(pages'))
  BY DEF PagesInv
<1>5. QED
  BY <1>2, <1>3, <1>4 DEF PagesInv

LEMMA NewIs ==
  ASSUME NEW c \in Classes, New(c)
  PROVE  BuilderOK' /\ UNCHANGED <<published, requests, pages>>
<1>1. \E id, params : builder' = Fresh(c, id, params)
  BY DEF New
<1>2. PICK id, params : builder' = Fresh(c, id, params)
  BY <1>1
<1>3. builder'.limit = None /\ {"cursor", "limit", "order"} \subseteq DOMAIN builder'
  BY <1>2 DEF Fresh
<1>4. QED
  BY <1>3 DEF New, BuilderOK

LEMMA SetAnyIs ==
  ASSUME BuilderOK, SetAny
  PROVE  BuilderOK' /\ UNCHANGED <<published, requests, pages>>
<1>1. builder # None
  BY DEF SetAny
<1>2. ASSUME NEW setter, NEW id, SetPath(setter, id)
      PROVE  BuilderOK' /\ UNCHANGED <<published, requests, pages>>
  BY <1>1, <1>2 DEF SetPath, Set, BuilderOK
<1>3. ASSUME NEW setter, NEW v, SetFilter(setter, v)
      PROVE  BuilderOK' /\ UNCHANGED <<published, requests, pages>>
  BY <1>1, <1>3 DEF SetFilter, Set, BuilderOK
<1>4. ASSUME SetPaging
      PROVE  BuilderOK' /\ UNCHANGED <<published, requests, pages>>
  <2>1. CASE \E c \in Cursors : Set([builder EXCEPT !.cursor = c])
    BY <1>1, <2>1 DEF Set, BuilderOK
  <2>2. CASE \E n \in Limits : Set([builder EXCEPT !.limit = n])
    BY <1>1, <2>2, PagesAssumption DEF Set, BuilderOK
  <2>3. CASE \E o \in {"asc", "desc"} : Set([builder EXCEPT !.order = o])
    BY <1>1, <2>3 DEF Set, BuilderOK
  <2>4. QED
    BY <1>4, <2>1, <2>2, <2>3 DEF SetPaging
<1>5. QED
  BY <1>2, <1>3, <1>4 DEF SetAny

(* What a builder asks for now.                                            *)
LEMMA BuildUrl == BuilderOK /\ builder # None => UrlOK(_buildUrl(builder))
  BY PagesAssumption DEF BuilderOK, UrlOK, _buildUrl, UrlFields, Limit

LEMMA RequestStep ==
  ASSUME PagesInv, NEW url, NEW from, NEW way, Request(url, from, way),
         UrlOK(url), Follows(url, from, way)
  PROVE  PagesInv'
<1>1. /\ requests' = requests \cup {[url |-> url, from |-> from, way |-> way]}
      /\ UNCHANGED <<builder, published, pages>>
  BY DEF Request
<1>2. \A u, f, w : Follows(u, f, w) => Follows(u, f, w)'
  BY <1>1, FollowsStays
<1>3. \A q \in requests' : UrlOK(q.url) /\ Follows(q.url, q.from, q.way)'
  BY <1>1, <1>2 DEF PagesInv
<1>4. \A p \in ToSet(pages') :
        /\ UrlOK(p.url) /\ Follows(p.url, p.from, p.way)'
        /\ IsPage(p.url, p.at, p.records)
  BY <1>1, <1>2 DEF PagesInv
<1>5. published' \in Nat /\ BuilderOK' /\ pages' \in Seq(ToSet(pages'))
  BY <1>1 DEF PagesInv, BuilderOK
<1>6. QED
  BY <1>3, <1>4, <1>5 DEF PagesInv

LEMMA AnswerStep ==
  ASSUME PagesInv, NEW q \in requests, Answer(q)
  PROVE  PagesInv'
<1> DEFINE p == [url |-> q.url, records |-> RecordsOf(q.url), at |-> published,
                 from |-> q.from, way |-> q.way]
           last == Len(pages) + 1
<1>1. /\ requests' = requests \ {q} /\ pages' = Append(pages, p)
      /\ UNCHANGED <<builder, published>>
  BY DEF Answer
<1>2. pages \in Seq(ToSet(pages)) /\ UrlOK(q.url) /\ Follows(q.url, q.from, q.way)
  BY DEF PagesInv
<1>3. IsPage(q.url, published, RecordsOf(q.url))
  BY <1>2, RecordsArePage DEF PagesInv, UrlOK
<1>4. p.url = q.url /\ p.from = q.from /\ p.way = q.way /\ IsPage(p.url, p.at, p.records)
  BY <1>3
<1> HIDE DEF p
<1>5. /\ pages \in Seq(ToSet(pages) \cup {p}) /\ p \in ToSet(pages) \cup {p}
      /\ Len(pages) \in Nat
  BY <1>2
<1>6. /\ pages' \in Seq(ToSet(pages) \cup {p})
      /\ DOMAIN pages' = DOMAIN pages \cup {last} /\ last \notin DOMAIN pages
      /\ pages'[last] = p /\ \A k \in DOMAIN pages : pages'[k] = pages[k]
  BY <1>1, <1>5
<1>7. ToSet(pages) \cup {p} = ToSet(pages')
  BY <1>6 DEF ToSet
<1>8. \A u, f, w : Follows(u, f, w) => Follows(u, f, w)'
  BY <1>6, FollowsStays
<1>9. \A r \in requests' : UrlOK(r.url) /\ Follows(r.url, r.from, r.way)'
  BY <1>1, <1>8 DEF PagesInv
<1>10. \A r \in ToSet(pages') :
         /\ UrlOK(r.url) /\ Follows(r.url, r.from, r.way)'
         /\ IsPage(r.url, r.at, r.records)
  <2>1. ASSUME NEW r \in ToSet(pages)
        PROVE  /\ UrlOK(r.url) /\ Follows(r.url, r.from, r.way)'
               /\ IsPage(r.url, r.at, r.records)
    BY <1>8 DEF PagesInv
  <2>2. ASSUME NEW r, r = p
        PROVE  /\ UrlOK(r.url) /\ Follows(r.url, r.from, r.way)'
               /\ IsPage(r.url, r.at, r.records)
    <3>1. /\ r.url = q.url /\ r.from = q.from /\ r.way = q.way
          /\ IsPage(r.url, r.at, r.records)
      BY <1>4, <2>2
    <3>2. UrlOK(r.url) /\ Follows(r.url, r.from, r.way)
      BY <1>2, <3>1
    <3>3. Follows(r.url, r.from, r.way)'
      BY <1>8, <3>2
    <3>4. QED
      BY <3>1, <3>2, <3>3
  <2>3. TAKE r \in ToSet(pages')
  <2>4. r \in ToSet(pages) \/ r = p
    BY <1>7
  <2>5. QED
    BY <2>1, <2>2, <2>4
<1>11. published' \in Nat /\ BuilderOK' /\ pages' \in Seq(ToSet(pages'))
  BY <1>1, <1>6, <1>7 DEF PagesInv, BuilderOK
<1>12. QED
  BY <1>9, <1>10, <1>11 DEF PagesInv

LEMMA PagesInvStep == PagesInv /\ [Next]_vars => PagesInv'
<1> SUFFICES ASSUME PagesInv, [Next]_vars PROVE PagesInv'
  OBVIOUS
<1>0. BuilderOK
  BY DEF PagesInv
<1>1. ASSUME NEW c \in Classes, New(c)
      PROVE  PagesInv'
  BY <1>1, NewIs, BuilderStep
<1>2. CASE SetAny
  BY <1>0, <1>2, SetAnyIs, BuilderStep
<1>3. CASE Publish
  <2>1. published' \in Nat /\ UNCHANGED <<builder, requests, pages>>
    BY <1>3 DEF Publish, PagesInv
  <2>2. \A u, f, w : Follows(u, f, w) => Follows(u, f, w)'
    BY <2>1, FollowsStays
  <2>3. \A p \in ToSet(pages') :
          /\ UrlOK(p.url) /\ Follows(p.url, p.from, p.way)'
          /\ IsPage(p.url, p.at, p.records)
    BY <2>1, <2>2 DEF PagesInv
  <2>4. \A q \in requests' : UrlOK(q.url) /\ Follows(q.url, q.from, q.way)'
    BY <2>1, <2>2 DEF PagesInv
  <2>5. QED
    BY <2>1, <2>3, <2>4 DEF PagesInv, BuilderOK
<1>4. CASE Call
  BY <1>0, <1>4, BuildUrl, RequestStep DEF Call, Follows
<1>5. ASSUME NEW k \in DOMAIN pages, NEW way \in {"next", "prev"}, Turn(k, way)
      PROVE  PagesInv'
  <2>1. UrlOK(pages[k].url)
    BY DEF PagesInv, ToSet
  <2>2. /\ UrlOK(_fetchPage(k, way)) /\ Follows(_fetchPage(k, way), k, way)
        /\ UrlOK(parsePage(k, way)) /\ Follows(parsePage(k, way), k, way)
    BY <2>1, LinkContinues DEF Follows
  <2>3. QED
    BY <1>5, <2>2, RequestStep DEF Turn
<1>6. ASSUME NEW q \in requests, Answer(q)
      PROVE  PagesInv'
  BY <1>6, AnswerStep
<1>7. ASSUME NEW q \in requests, Fail(q)
      PROVE  PagesInv'
  <2>1. requests' \subseteq requests /\ UNCHANGED <<builder, published, pages>>
    BY <1>7 DEF Fail
  <2>2. \A u, f, w : Follows(u, f, w) => Follows(u, f, w)'
    BY <2>1, FollowsStays
  <2>3. \A p \in ToSet(pages') :
          /\ UrlOK(p.url) /\ Follows(p.url, p.from, p.way)'
          /\ IsPage(p.url, p.at, p.records)
    BY <2>1, <2>2 DEF PagesInv
  <2>4. \A r \in requests' : UrlOK(r.url) /\ Follows(r.url, r.from, r.way)'
    BY <2>1, <2>2 DEF PagesInv
  <2>5. QED
    BY <2>1, <2>3, <2>4 DEF PagesInv, BuilderOK
<1>8. CASE UNCHANGED vars
  <2>1. BuilderOK' /\ UNCHANGED <<published, requests, pages>>
    BY <1>0, <1>8 DEF vars, BuilderOK
  <2>2. QED
    BY <2>1, BuilderStep
<1>9. QED
  BY <1>1, <1>2, <1>3, <1>4, <1>5, <1>6, <1>7, <1>8 DEF Next

(* However pages are turned, and whatever the builder is told and the      *)
(* ledger adds in between, a page goes on from the edge of the one it was  *)
(* turned from: in order, in its collection, with nothing left out unless  *)
(* it is full.                                                             *)
THEOREM PagesFollow == Spec => []PagesContinue
  BY PagesInvInit, PagesInvStep, PagesInvMeans, PTL DEF Spec

-----------------------------------------------------------------------------
(* What a call builder asks for, and what the method of HorizonClient does *)
(* that stands for it.  Names of parameters are literal: an entry names up *)
(* to three, and two entries share one only if they are named alike.       *)

AllNames(e) ==
  IF e.kind = "parts"
    THEN {AssetParams[e.name].type, AssetParams[e.name].code, AssetParams[e.name].issuer}
    ELSE {e.name}

AssetPrefixes == {"selling", "buying", "base", "counter", "destination", "source"}
Replaceable == {"selling", "buying", "base", "counter"}
PlainNames == {"signer", "asset", "sponsor", "liquidity_pool", "include_failed", "join", "seller",
  "offer_id", "trade_type", "asset_code", "asset_issuer", "claimant", "reserves", "account",
  "destination_amount", "source_account", "source_assets", "source_amount",
  "destination_account", "destination_assets", "start_time", "end_time", "resolution", "offset",
  "addr"}

EntryOK(e) ==
  /\ e.kind \in {"plain", "text", "texts", "parts"}
  /\ e.kind = "parts" => e.name \in AssetPrefixes
  /\ e.kind # "parts" => e.name \in PlainNames

(* What an option of HorizonClient becomes, whichever method takes it.     *)
Meaning == [
  signer |-> Plain("signer"), asset |-> Plain("asset"), sponsor |-> Plain("sponsor"),
  liquidity_pool |-> Plain("liquidity_pool"), include_failed |-> Plain("include_failed"),
  join |-> Plain("join"), seller |-> Plain("seller"), selling |-> Parts("selling"),
  buying |-> Parts("buying"), offer_id |-> Plain("offer_id"),
  trade_type |-> Plain("trade_type"),
  base_asset |-> Parts("base"), counter_asset |-> Parts("counter"),
  asset_code |-> Plain("asset_code"), asset_issuer |-> Plain("asset_issuer"),
  claimant |-> Plain("claimant"), reserves |-> Plain("reserves"), account |-> Plain("account"),
  start_time |-> Plain("start_time"), end_time |-> Plain("end_time"),
  resolution |-> Plain("resolution"), offset |-> Plain("offset"),
  source_account |-> Plain("source_account"), source_assets |-> Texts("source_assets"),
  destination_asset |-> Parts("destination"),
  destination_amount |-> Plain("destination_amount"), source_asset |-> Parts("source"),
  source_amount |-> Plain("source_amount"),
  destination_account |-> Plain("destination_account"),
  destination_assets |-> Texts("destination_assets"), addr |-> Plain("addr")]

(* An option and the entry that it stands for name the same parameters; a  *)
(* text is written by whoever passes the option.                           *)
Same(o, e) ==
  o = e \/ (o.kind = "plain" /\ e.kind \in {"text", "texts"} /\ o.name = e.name)

(* NamesOf() of any class.  A builder is made by one constructor.          *)
NamesFor(class, s) == IF s \in Constructors THEN ConstructedWith[class][s] ELSE OptionNames[s]
Together(s, t) == ~(s # t /\ s \in Constructors /\ t \in Constructors)

(* What is to be known of the tables of one class: every entry of every    *)
(* setter has an option that asks for the same, no two entries that can    *)
(* both be told name one parameter, and only assets of setters, which can  *)
(* be called again, can be replaced.                                       *)
NamesFit(class, f) ==
  \A s \in DOMAIN f :
    /\ DOMAIN NamesFor(class, s) = DOMAIN f[s]
    /\ \A i \in DOMAIN f[s] : NamesFor(class, s)[i] \in DOMAIN Meaning
EntriesFit(f) ==
  \A s \in DOMAIN f : \A i \in DOMAIN f[s] :
    /\ DOMAIN f[s] \subseteq Nat
    /\ EntryOK(f[s][i])
    /\ f[s][i].kind = "parts" /\ s \notin Constructors => f[s][i].name \in Replaceable
MeaningsFit(class, f) ==
  \A s \in DOMAIN f : \A i \in DOMAIN f[s] : Same(Meaning[NamesFor(class, s)[i]], f[s][i])
Apart(f) ==
  \A s \in DOMAIN f : \A i \in DOMAIN f[s] :
    \A t \in DOMAIN f : Together(s, t) =>
      \A j \in DOMAIN f[t] : f[s][i].name = f[t][j].name => s = t /\ i = j

(* The segments after a setter, and that the methods have the same paths.  *)
Paths(class, which) ==
  LET c == CallBuilders[class]
  IN  IF which \in Setters(c.paths) THEN c.paths[which] ELSE c.segments
IsTuple(s) == s = [i \in DOMAIN s |-> s[i]]
PathsFit(c) == IsTuple(c.segments) /\ "all" \notin DOMAIN c.paths
PathsAgree(class) ==
  /\ class \in DOMAIN Counterpart => \A w \in DOMAIN Counterpart[class] :
       HorizonClient[Counterpart[class][w]].path = Paths(class, w)
  /\ class \in DOMAIN Streams => \A w \in DOMAIN Streams[class] :
       HorizonClient[Streams[class][w]].path = Paths(class, w)
  /\ class \in DOMAIN OneRecord =>
       HorizonClient[OneRecord[class]].path = SingleRecords[class]

ClassOK(class) ==
  LET f == CallBuilders[class].filters
  IN  /\ NamesFit(class, f) /\ EntriesFit(f) /\ MeaningsFit(class, f) /\ Apart(f)
      /\ PathsFit(CallBuilders[class]) /\ PathsAgree(class)

(* Everything a setter was told last is in the query as it was told, and   *)
(* what is in the query was told by a setter, or is the code or the issuer *)
(* of an asset that one of them was told before.  A constructor runs once  *)
(* and leaves nothing behind.                                              *)
BuilderFields == {"class", "segments", "params", "cursor", "limit", "order"}
AskInv ==
  builder # None =>
    LET f == CallBuilders[builder.class].filters
        Q(s, i) == Query(f[s][i], asked.filters[s][i])
    IN
    /\ DOMAIN builder = BuilderFields
    /\ DOMAIN asked = {"path", "filters"}
    /\ builder.class \in Classes
    /\ DOMAIN asked.filters \subseteq DOMAIN f
    /\ \A s, t \in DOMAIN asked.filters : Together(s, t)
    /\ \A s \in DOMAIN asked.filters : \A i \in DOMAIN f[s] : \A n \in DOMAIN Q(s, i) :
         n \in DOMAIN builder.params /\ builder.params[n] = Q(s, i)[n]
    /\ \A n \in DOMAIN builder.params :
         \E s \in DOMAIN asked.filters : \E i \in DOMAIN f[s] :
           n \in IF s \in Constructors THEN DOMAIN Q(s, i) ELSE AllNames(f[s][i])
    /\ builder.segments = At(Paths(builder.class, asked.path.setter), asked.path.id)

-----------------------------------------------------------------------------
(* The tables, method by method and class by class.                        *)

(* The names of parameters tell their entries apart.                       *)
LEMMA NamesApart ==
  ASSUME NEW e, NEW f, EntryOK(e), EntryOK(f), NEW n \in AllNames(e), n \in AllNames(f)
  PROVE  e.name = f.name
<1> DEFINE stem == [
     selling_asset_type |-> "selling", selling_asset_code |-> "selling",
     selling_asset_issuer |-> "selling",
     buying_asset_type |-> "buying", buying_asset_code |-> "buying",
     buying_asset_issuer |-> "buying",
     base_asset_type |-> "base", base_asset_code |-> "base", base_asset_issuer |-> "base",
     counter_asset_type |-> "counter", counter_asset_code |-> "counter",
     counter_asset_issuer |-> "counter",
     destination_asset_type |-> "destination", destination_asset_code |-> "destination",
     destination_asset_issuer |-> "destination",
     source_asset_type |-> "source", source_asset_code |-> "source",
     source_asset_issuer |-> "source"]
<1>1. \A p \in AssetPrefixes :
        \A m \in {AssetParams[p].type, AssetParams[p].code, AssetParams[p].issuer} :
          stem[m] = p /\ m \in DOMAIN stem
  BY DEF AssetPrefixes, AssetParams, AssetParam
<1>2. \A m \in PlainNames : m \notin DOMAIN stem
  BY DEF PlainNames
<1> HIDE DEF stem
<1>3. QED
  BY <1>1, <1>2 DEF EntryOK, AllNames

LEMMA MethodNames ==
  /\ DOMAIN AccountMethods =
       {"getAccount", "getAccountData", "getAccounts", "getAccountTransactions",
        "getAccountOperations", "getAccountPayments", "getAccountEffects",
        "getAccountOffers", "getAccountTrades"}
  /\ DOMAIN LedgerMethods =
       {"getLedger", "getLedgers", "getLedgerTransactions", "getLedgerOperations",
        "getLedgerEffects", "getLedgerPayments"}
  /\ DOMAIN HistoryMethods =
       {"getTransaction", "getTransactions", "getTransactionOperations",
        "getTransactionEffects", "getOperation", "getOperations", "getOperationEffects",
        "getEffects", "getPayments"}
  /\ DOMAIN MarketMethods =
       {"getOffer", "getOffers", "getOfferTrades", "getTrades", "getAssets",
        "getClaimableBalance", "getClaimableBalances"}
  /\ DOMAIN PoolMethods =
       {"getLiquidityPool", "getLiquidityPools", "getLiquidityPoolTransactions",
        "getLiquidityPoolOperations", "getLiquidityPoolEffects"}
  /\ DOMAIN QuoteMethods =
       {"getOrderBook", "getTradeAggregations", "getStrictReceivePaths",
        "getStrictSendPaths"}
  /\ DOMAIN StreamMethods =
       {"streamLedgers", "streamTransactions", "streamOperations", "streamPayments",
        "streamEffects", "streamTrades", "streamAccountTransactions",
        "streamAccountOperations", "streamAccountPayments", "streamAccountEffects",
        "streamAccountTrades", "streamAccountOffers", "streamOrderBook"}
  BY DEF AccountMethods, LedgerMethods, HistoryMethods, MarketMethods, PoolMethods, QuoteMethods,
     StreamMethods

LEMMA MethodsAre ==
  /\ \A m \in DOMAIN AccountMethods : HorizonClient[m] = AccountMethods[m]
  /\ \A m \in DOMAIN LedgerMethods : HorizonClient[m] = LedgerMethods[m]
  /\ \A m \in DOMAIN HistoryMethods : HorizonClient[m] = HistoryMethods[m]
  /\ \A m \in DOMAIN MarketMethods : HorizonClient[m] = MarketMethods[m]
  /\ \A m \in DOMAIN PoolMethods : HorizonClient[m] = PoolMethods[m]
  /\ \A m \in DOMAIN QuoteMethods : HorizonClient[m] = QuoteMethods[m]
  /\ \A m \in DOMAIN StreamMethods : HorizonClient[m] = StreamMethods[m]
  BY MethodNames DEF HorizonClient, assign

LEMMA EveryMethod ==
  \A m \in DOMAIN HorizonClient :
    \E g \in {AccountMethods, LedgerMethods, HistoryMethods, MarketMethods, PoolMethods,
    QuoteMethods, StreamMethods} :
      m \in DOMAIN g /\ HorizonClient[m] = g[m]
  BY DEF HorizonClient, assign

LEMMA AccountPaths ==
  /\ HorizonClient["getAccount"].path = <<"accounts", "id">>
  /\ HorizonClient["getAccountData"].path = <<"accounts", "id", "data", "key">>
  /\ HorizonClient["getAccounts"].path = <<"accounts">>
  /\ HorizonClient["getAccountTransactions"].path = Of("accounts", "transactions")
  /\ HorizonClient["getAccountOperations"].path = Of("accounts", "operations")
  /\ HorizonClient["getAccountPayments"].path = Of("accounts", "payments")
  /\ HorizonClient["getAccountEffects"].path = Of("accounts", "effects")
  /\ HorizonClient["getAccountOffers"].path = Of("accounts", "offers")
  /\ HorizonClient["getAccountTrades"].path = Of("accounts", "trades")
  BY MethodNames, MethodsAre DEF AccountMethods, One, Unfiltered, WithFailed, Method

LEMMA LedgerPaths ==
  /\ HorizonClient["getLedger"].path = <<"ledgers", "id">>
  /\ HorizonClient["getLedgers"].path = <<"ledgers">>
  /\ HorizonClient["getLedgerTransactions"].path = Of("ledgers", "transactions")
  /\ HorizonClient["getLedgerOperations"].path = Of("ledgers", "operations")
  /\ HorizonClient["getLedgerEffects"].path = Of("ledgers", "effects")
  /\ HorizonClient["getLedgerPayments"].path = Of("ledgers", "payments")
  BY MethodNames, MethodsAre DEF LedgerMethods, One, Unfiltered, WithFailed, Method

LEMMA HistoryPaths ==
  /\ HorizonClient["getTransaction"].path = <<"transactions", "id">>
  /\ HorizonClient["getTransactions"].path = <<"transactions">>
  /\ HorizonClient["getTransactionOperations"].path = Of("transactions", "operations")
  /\ HorizonClient["getTransactionEffects"].path = Of("transactions", "effects")
  /\ HorizonClient["getOperation"].path = <<"operations", "id">>
  /\ HorizonClient["getOperations"].path = <<"operations">>
  /\ HorizonClient["getOperationEffects"].path = Of("operations", "effects")
  /\ HorizonClient["getEffects"].path = <<"effects">>
  /\ HorizonClient["getPayments"].path = <<"payments">>
  BY MethodNames, MethodsAre DEF HistoryMethods, One, Unfiltered, WithFailed, Method

LEMMA MarketPaths ==
  /\ HorizonClient["getOffer"].path = <<"offers", "id">>
  /\ HorizonClient["getOffers"].path = <<"offers">>
  /\ HorizonClient["getOfferTrades"].path = Of("offers", "trades")
  /\ HorizonClient["getTrades"].path = <<"trades">>
  /\ HorizonClient["getAssets"].path = <<"assets">>
  /\ HorizonClient["getClaimableBalance"].path = <<"claimable_balances", "id">>
  /\ HorizonClient["getClaimableBalances"].path = <<"claimable_balances">>
  BY MethodNames, MethodsAre DEF MarketMethods, One, Unfiltered, Method

LEMMA PoolPaths ==
  /\ HorizonClient["getLiquidityPool"].path = <<"liquidity_pools", "id">>
  /\ HorizonClient["getLiquidityPools"].path = <<"liquidity_pools">>
  /\ HorizonClient["getLiquidityPoolTransactions"].path = Of("liquidity_pools", "transactions")
  /\ HorizonClient["getLiquidityPoolOperations"].path = Of("liquidity_pools", "operations")
  /\ HorizonClient["getLiquidityPoolEffects"].path = Of("liquidity_pools", "effects")
  BY MethodNames, MethodsAre DEF PoolMethods, One, Unfiltered, WithFailed, Method

LEMMA QuotePaths ==
  /\ HorizonClient["getOrderBook"].path = <<"order_book">>
  /\ HorizonClient["getTradeAggregations"].path = <<"trade_aggregations">>
  /\ HorizonClient["getStrictReceivePaths"].path = <<"paths", "strict-receive">>
  /\ HorizonClient["getStrictSendPaths"].path = <<"paths", "strict-send">>
  BY MethodNames, MethodsAre DEF QuoteMethods, Method

LEMMA StreamPaths ==
  /\ HorizonClient["streamLedgers"].path = <<"ledgers">>
  /\ HorizonClient["streamTransactions"].path = <<"transactions">>
  /\ HorizonClient["streamOperations"].path = <<"operations">>
  /\ HorizonClient["streamPayments"].path = <<"payments">>
  /\ HorizonClient["streamEffects"].path = <<"effects">>
  /\ HorizonClient["streamTrades"].path = <<"trades">>
  /\ HorizonClient["streamAccountTransactions"].path = Of("accounts", "transactions")
  /\ HorizonClient["streamAccountOperations"].path = Of("accounts", "operations")
  /\ HorizonClient["streamAccountPayments"].path = Of("accounts", "payments")
  /\ HorizonClient["streamAccountEffects"].path = Of("accounts", "effects")
  /\ HorizonClient["streamAccountTrades"].path = Of("accounts", "trades")
  /\ HorizonClient["streamAccountOffers"].path = Of("accounts", "offers")
  /\ HorizonClient["streamOrderBook"].path = <<"order_book">>
  BY MethodNames, MethodsAre DEF StreamMethods, Unfiltered, Method

OptionsMean(methods) ==
  \A m \in DOMAIN methods : \A o \in DOMAIN methods[m].options :
    o \in DOMAIN Meaning /\ methods[m].options[o] = Meaning[o]
LEMMA EveryOptionMeans == OptionsMean(HorizonClient)
<1>1. OptionsMean(AccountMethods)
  BY DEF OptionsMean, AccountMethods, One, Unfiltered, WithFailed, Method, Meaning, Plain,
       Nothing
<1>2. OptionsMean(LedgerMethods)
  BY DEF OptionsMean, LedgerMethods, One, Unfiltered, WithFailed, Method, Meaning, Plain,
       Nothing
<1>3. OptionsMean(HistoryMethods)
  BY DEF OptionsMean, HistoryMethods, One, Unfiltered, WithFailed, Method, Meaning, Plain,
       Nothing
<1>4. OptionsMean(MarketMethods)
  BY DEF OptionsMean, MarketMethods, One, Unfiltered, Method, Meaning, Plain, Parts, Nothing
<1>5. OptionsMean(PoolMethods)
  BY DEF OptionsMean, PoolMethods, One, Unfiltered, WithFailed, Method, Meaning, Plain, Nothing
<1>6. OptionsMean(QuoteMethods)
  BY DEF OptionsMean, QuoteMethods, Method, Meaning, Plain, Parts, Texts, Nothing
<1>7. OptionsMean(StreamMethods)
  BY DEF OptionsMean, StreamMethods, Unfiltered, Method, Meaning, Parts, Nothing
<1>8. QED
  BY <1>1, <1>2, <1>3, <1>4, <1>5, <1>6, <1>7, EveryMethod DEF OptionsMean

LEMMA MeaningIs ==
  /\ Meaning["base_asset"] = Parts("base")
  /\ Meaning["counter_asset"] = Parts("counter")
  /\ Meaning["start_time"] = Plain("start_time")
  /\ Meaning["end_time"] = Plain("end_time")
  /\ Meaning["resolution"] = Plain("resolution")
  /\ Meaning["offset"] = Plain("offset")
  /\ Meaning["destination_asset"] = Parts("destination")
  /\ Meaning["destination_amount"] = Plain("destination_amount")
  /\ Meaning["source_account"] = Plain("source_account")
  /\ Meaning["source_assets"] = Texts("source_assets")
  /\ Meaning["source_asset"] = Parts("source")
  /\ Meaning["source_amount"] = Plain("source_amount")
  /\ Meaning["destination_account"] = Plain("destination_account")
  /\ Meaning["destination_assets"] = Texts("destination_assets")
  BY DEF Meaning

LEMMA AccountClass == ClassOK("accounts")
<1> DEFINE f == [forSigner |-> <<Plain("signer")>>, forAsset |-> <<Text("asset")>>,
                 sponsor |-> <<Plain("sponsor")>>, forLiquidityPool |-> <<Plain("liquidity_pool")>>]
<1>1. CallBuilders["accounts"].filters = f
  BY DEF CallBuilders, AccountCallBuilder, Builder
<1>2. NamesFit("accounts", f)
  BY DEF NamesFit, NamesFor, OptionNames, Constructors, Meaning
<1>3. EntriesFit(f)
  BY DEF EntriesFit, EntryOK, Plain, Text, PlainNames
<1>4. MeaningsFit("accounts", f)
  BY DEF MeaningsFit, NamesFor, OptionNames, Constructors, Meaning, Same, Plain, Text
<1>5. Apart(f)
  BY DEF Apart, Together, Constructors, Plain, Text
<1>6. PathsAgree("accounts")
  BY AccountPaths DEF PathsAgree, Counterpart, Streams, OneRecord, SingleRecords, Paths,
       Setters, Constructors,
     CallBuilders, AccountCallBuilder, Builder, Nothing
<1>7. PathsFit(CallBuilders["accounts"])
  BY DEF PathsFit, IsTuple, CallBuilders, AccountCallBuilder, Builder, Nothing
<1>8. QED
  BY <1>1, <1>2, <1>3, <1>4, <1>5, <1>6, <1>7 DEF ClassOK

LEMMA LedgerClass == ClassOK("ledgers")
<1> DEFINE f == Nothing
<1>1. CallBuilders["ledgers"].filters = f
  BY DEF CallBuilders, LedgerCallBuilder, Builder
<1>2. NamesFit("ledgers", f)
  BY DEF NamesFit, Nothing
<1>3. EntriesFit(f)
  BY DEF EntriesFit, Nothing
<1>4. MeaningsFit("ledgers", f)
  BY DEF MeaningsFit, Nothing
<1>5. Apart(f)
  BY DEF Apart, Nothing
<1>6. PathsAgree("ledgers")
  BY LedgerPaths, StreamPaths DEF PathsAgree, Counterpart, Streams, OneRecord, SingleRecords,
       Paths, Setters, Constructors,
     CallBuilders, LedgerCallBuilder, Builder, Nothing
<1>7. PathsFit(CallBuilders["ledgers"])
  BY DEF PathsFit, IsTuple, CallBuilders, LedgerCallBuilder, Builder, Nothing
<1>8. QED
  BY <1>1, <1>2, <1>3, <1>4, <1>5, <1>6, <1>7 DEF ClassOK

LEMMA TransactionClass == ClassOK("transactions")
<1> DEFINE f == [includeFailed |-> <<Plain("include_failed")>>]
<1>1. CallBuilders["transactions"].filters = f
  BY DEF CallBuilders, TransactionCallBuilder, Builder
<1>2. NamesFit("transactions", f)
  BY DEF NamesFit, NamesFor, OptionNames, Constructors, Meaning
<1>3. EntriesFit(f)
  BY DEF EntriesFit, EntryOK, Plain, PlainNames
<1>4. MeaningsFit("transactions", f)
  BY DEF MeaningsFit, NamesFor, OptionNames, Constructors, Meaning, Same, Plain
<1>5. Apart(f)
  BY DEF Apart, Together, Constructors, Plain
<1>6. PathsAgree("transactions")
  <2>1. \A w \in DOMAIN Counterpart["transactions"] :
          HorizonClient[Counterpart["transactions"][w]].path = Paths("transactions", w)
    BY AccountPaths, LedgerPaths, HistoryPaths, PoolPaths DEF Counterpart,
       Paths, Setters, Constructors, CallBuilders, TransactionCallBuilder, Builder
  <2>2. \A w \in DOMAIN Streams["transactions"] :
          HorizonClient[Streams["transactions"][w]].path = Paths("transactions", w)
    BY StreamPaths DEF Streams,
       Paths, Setters, Constructors, CallBuilders, TransactionCallBuilder, Builder
  <2>3. "transactions" \in DOMAIN OneRecord =>
          HorizonClient[OneRecord["transactions"]].path = SingleRecords["transactions"]
    BY HistoryPaths DEF OneRecord, SingleRecords
  <2>4. QED
    BY <2>1, <2>2, <2>3 DEF PathsAgree
<1>7. PathsFit(CallBuilders["transactions"])
  BY DEF PathsFit, IsTuple, CallBuilders, TransactionCallBuilder, Builder, Nothing
<1>8. QED
  BY <1>1, <1>2, <1>3, <1>4, <1>5, <1>6, <1>7 DEF ClassOK

LEMMA OperationClass == ClassOK("operations")
<1> DEFINE f == [includeFailed |-> <<Plain("include_failed")>>, join |-> <<Plain("join")>>]
<1>1. CallBuilders["operations"].filters = f
  BY DEF CallBuilders, OperationCallBuilder, Builder
<1>2. NamesFit("operations", f)
  BY DEF NamesFit, NamesFor, OptionNames, Constructors, Meaning
<1>3. EntriesFit(f)
  BY DEF EntriesFit, EntryOK, Plain, PlainNames
<1>4. MeaningsFit("operations", f)
  BY DEF MeaningsFit, NamesFor, OptionNames, Constructors, Meaning, Same, Plain
<1>5. Apart(f)
  BY DEF Apart, Together, Constructors, Plain
<1>6. PathsAgree("operations")
  <2>1. \A w \in DOMAIN Counterpart["operations"] :
          HorizonClient[Counterpart["operations"][w]].path = Paths("operations", w)
    BY AccountPaths, LedgerPaths, HistoryPaths, PoolPaths DEF Counterpart,
       Paths, Setters, Constructors, CallBuilders, OperationCallBuilder, Builder
  <2>2. \A w \in DOMAIN Streams["operations"] :
          HorizonClient[Streams["operations"][w]].path = Paths("operations", w)
    BY StreamPaths DEF Streams,
       Paths, Setters, Constructors, CallBuilders, OperationCallBuilder, Builder
  <2>3. "operations" \in DOMAIN OneRecord =>
          HorizonClient[OneRecord["operations"]].path = SingleRecords["operations"]
    BY HistoryPaths DEF OneRecord, SingleRecords
  <2>4. QED
    BY <2>1, <2>2, <2>3 DEF PathsAgree
<1>7. PathsFit(CallBuilders["operations"])
  BY DEF PathsFit, IsTuple, CallBuilders, OperationCallBuilder, Builder, Nothing
<1>8. QED
  BY <1>1, <1>2, <1>3, <1>4, <1>5, <1>6, <1>7 DEF ClassOK

LEMMA PaymentClass == ClassOK("payments")
<1> DEFINE f == [includeFailed |-> <<Plain("include_failed")>>]
<1>1. CallBuilders["payments"].filters = f
  BY DEF CallBuilders, PaymentCallBuilder, Builder
<1>2. NamesFit("payments", f)
  BY DEF NamesFit, NamesFor, OptionNames, Constructors, Meaning
<1>3. EntriesFit(f)
  BY DEF EntriesFit, EntryOK, Plain, PlainNames
<1>4. MeaningsFit("payments", f)
  BY DEF MeaningsFit, NamesFor, OptionNames, Constructors, Meaning, Same, Plain
<1>5. Apart(f)
  BY DEF Apart, Together, Constructors, Plain
<1>6. PathsAgree("payments")
  <2>1. \A w \in DOMAIN Counterpart["payments"] :
          HorizonClient[Counterpart["payments"][w]].path = Paths("payments", w)
    BY AccountPaths, LedgerPaths, HistoryPaths DEF Counterpart,
       Paths, Setters, Constructors, CallBuilders, PaymentCallBuilder, Builder
  <2>2. \A w \in DOMAIN Streams["payments"] :
          HorizonClient[Streams["payments"][w]].path = Paths("payments", w)
    BY StreamPaths DEF Streams,
       Paths, Setters, Constructors, CallBuilders, PaymentCallBuilder, Builder
  <2>3. "payments" \in DOMAIN OneRecord =>
          HorizonClient[OneRecord["payments"]].path = SingleRecords["payments"]
    BY DEF OneRecord, SingleRecords
  <2>4. QED
    BY <2>1, <2>2, <2>3 DEF PathsAgree
<1>7. PathsFit(CallBuilders["payments"])
  BY DEF PathsFit, IsTuple, CallBuilders, PaymentCallBuilder, Builder, Nothing
<1>8. QED
  BY <1>1, <1>2, <1>3, <1>4, <1>5, <1>6, <1>7 DEF ClassOK

LEMMA EffectClass == ClassOK("effects")
<1> DEFINE f == Nothing
<1>1. CallBuilders["effects"].filters = f
  BY DEF CallBuilders, EffectCallBuilder, Builder
<1>2. NamesFit("effects", f)
  BY DEF NamesFit, Nothing
<1>3. EntriesFit(f)
  BY DEF EntriesFit, Nothing
<1>4. MeaningsFit("effects", f)
  BY DEF MeaningsFit, Nothing
<1>5. Apart(f)
  BY DEF Apart, Nothing
<1>6. PathsAgree("effects")
  <2>1. \A w \in DOMAIN Counterpart["effects"] :
          HorizonClient[Counterpart["effects"][w]].path = Paths("effects", w)
    BY AccountPaths, LedgerPaths, HistoryPaths, PoolPaths DEF Counterpart,
       Paths, Setters, Constructors, CallBuilders, EffectCallBuilder, Builder
  <2>2. \A w \in DOMAIN Streams["effects"] :
          HorizonClient[Streams["effects"][w]].path = Paths("effects", w)
    BY StreamPaths DEF Streams,
       Paths, Setters, Constructors, CallBuilders, EffectCallBuilder, Builder
  <2>3. "effects" \in DOMAIN OneRecord =>
          HorizonClient[OneRecord["effects"]].path = SingleRecords["effects"]
    BY DEF OneRecord, SingleRecords
  <2>4. QED
    BY <2>1, <2>2, <2>3 DEF PathsAgree
<1>7. PathsFit(CallBuilders["effects"])
  BY DEF PathsFit, IsTuple, CallBuilders, EffectCallBuilder, Builder, Nothing
<1>8. QED
  BY <1>1, <1>2, <1>3, <1>4, <1>5, <1>6, <1>7 DEF ClassOK

LEMMA OfferClass == ClassOK("offers")
<1> DEFINE f == [selling |-> <<Parts("selling")>>, buying |-> <<Parts("buying")>>,
                 seller |-> <<Plain("seller")>>, sponsor |-> <<Plain("sponsor")>>]
<1>1. CallBuilders["offers"].filters = f
  BY DEF CallBuilders, OfferCallBuilder, Builder
<1>2. NamesFit("offers", f)
  BY DEF NamesFit, NamesFor, OptionNames, Constructors, Meaning
<1>3. EntriesFit(f)
  BY DEF EntriesFit, EntryOK, Plain, Parts, PlainNames, AssetPrefixes, Replaceable, Constructors
<1>4. MeaningsFit("offers", f)
  BY DEF MeaningsFit, NamesFor, OptionNames, Constructors, Meaning, Same, Plain, Parts
<1>5. Apart(f)
  BY DEF Apart, Together, Constructors, Plain, Parts
<1>6. PathsAgree("offers")
  <2>1. \A w \in DOMAIN Counterpart["offers"] :
          HorizonClient[Counterpart["offers"][w]].path = Paths("offers", w)
    BY AccountPaths, MarketPaths DEF Counterpart,
       Paths, Setters, Constructors, CallBuilders, OfferCallBuilder, Builder
  <2>2. \A w \in DOMAIN Streams["offers"] :
          HorizonClient[Streams["offers"][w]].path = Paths("offers", w)
    BY StreamPaths DEF Streams,
       Paths, Setters, Constructors, CallBuilders, OfferCallBuilder, Builder
  <2>3. "offers" \in DOMAIN OneRecord =>
          HorizonClient[OneRecord["offers"]].path = SingleRecords["offers"]
    BY MarketPaths DEF OneRecord, SingleRecords
  <2>4. QED
    BY <2>1, <2>2, <2>3 DEF PathsAgree
<1>7. PathsFit(CallBuilders["offers"])
  BY DEF PathsFit, IsTuple, CallBuilders, OfferCallBuilder, Builder, Nothing
<1>8. QED
  BY <1>1, <1>2, <1>3, <1>4, <1>5, <1>6, <1>7 DEF ClassOK

LEMMA TradesClass == ClassOK("trades")
<1> DEFINE f == [forAssetPair |-> <<Parts("base"), Parts("counter")>>,
                 forOffer |-> <<Plain("offer_id")>>, forType |-> <<Plain("trade_type")>>]
<1>1. CallBuilders["trades"].filters = f
  BY DEF CallBuilders, TradesCallBuilder, Builder
<1>2. NamesFit("trades", f)
  BY DEF NamesFit, NamesFor, OptionNames, Constructors, Meaning
<1>3. EntriesFit(f)
  BY DEF EntriesFit, EntryOK, Plain, Parts, PlainNames, AssetPrefixes, Replaceable, Constructors
<1>4. MeaningsFit("trades", f)
  <2>1. \A i \in DOMAIN f["forAssetPair"] :
          Same(Meaning[NamesFor("trades", "forAssetPair")[i]], f["forAssetPair"][i])
    BY MeaningIs DEF NamesFor, OptionNames, Constructors, Same, Plain, Parts
  <2>2. \A i \in DOMAIN f["forOffer"] :
          Same(Meaning[NamesFor("trades", "forOffer")[i]], f["forOffer"][i])
    BY MeaningIs DEF NamesFor, OptionNames, Constructors, Meaning, Same, Plain, Parts
  <2>3. \A i \in DOMAIN f["forType"] :
          Same(Meaning[NamesFor("trades", "forType")[i]], f["forType"][i])
    BY MeaningIs DEF NamesFor, OptionNames, Constructors, Meaning, Same, Plain, Parts
  <2>4. QED
    BY <2>1, <2>2, <2>3 DEF MeaningsFit
<1>5. Apart(f)
  BY DEF Apart, Together, Constructors, Plain, Parts
<1>6. PathsAgree("trades")
  <2>1. \A w \in DOMAIN Counterpart["trades"] :
          HorizonClient[Counterpart["trades"][w]].path = Paths("trades", w)
    BY AccountPaths, MarketPaths DEF Counterpart,
       Paths, Setters, Constructors, CallBuilders, TradesCallBuilder, Builder
  <2>2. \A w \in DOMAIN Streams["trades"] :
          HorizonClient[Streams["trades"][w]].path = Paths("trades", w)
    BY StreamPaths DEF Streams,
       Paths, Setters, Constructors, CallBuilders, TradesCallBuilder, Builder
  <2>3. "trades" \in DOMAIN OneRecord =>
          HorizonClient[OneRecord["trades"]].path = SingleRecords["trades"]
    BY DEF OneRecord, SingleRecords
  <2>4. QED
    BY <2>1, <2>2, <2>3 DEF PathsAgree
<1>7. PathsFit(CallBuilders["trades"])
  BY DEF PathsFit, IsTuple, CallBuilders, TradesCallBuilder, Builder, Nothing
<1>8. QED
  BY <1>1, <1>2, <1>3, <1>4, <1>5, <1>6, <1>7 DEF ClassOK

LEMMA AssetsClass == ClassOK("assets")
<1> DEFINE f == [forCode |-> <<Plain("asset_code")>>, forIssuer |-> <<Plain("asset_issuer")>>]
<1>1. CallBuilders["assets"].filters = f
  BY DEF CallBuilders, AssetsCallBuilder, Builder
<1>2. NamesFit("assets", f)
  BY DEF NamesFit, NamesFor, OptionNames, Constructors, Meaning
<1>3. EntriesFit(f)
  BY DEF EntriesFit, EntryOK, Plain, PlainNames
<1>4. MeaningsFit("assets", f)
  BY DEF MeaningsFit, NamesFor, OptionNames, Constructors, Meaning, Same, Plain
<1>5. Apart(f)
  BY DEF Apart, Together, Constructors, Plain
<1>6. PathsAgree("assets")
  BY MarketPaths DEF PathsAgree, Counterpart, Streams, OneRecord, SingleRecords, Paths,
       Setters, Constructors,
     CallBuilders, AssetsCallBuilder, Builder, Nothing
<1>7. PathsFit(CallBuilders["assets"])
  BY DEF PathsFit, IsTuple, CallBuilders, AssetsCallBuilder, Builder, Nothing
<1>8. QED
  BY <1>1, <1>2, <1>3, <1>4, <1>5, <1>6, <1>7 DEF ClassOK

LEMMA ClaimableBalanceClass == ClassOK("claimableBalances")
<1> DEFINE f == [sponsor |-> <<Plain("sponsor")>>, claimant |-> <<Plain("claimant")>>,
                 asset |-> <<Text("asset")>>]
<1>1. CallBuilders["claimableBalances"].filters = f
  BY DEF CallBuilders, ClaimableBalanceCallBuilder, Builder
<1>2. NamesFit("claimableBalances", f)
  BY DEF NamesFit, NamesFor, OptionNames, Constructors, Meaning
<1>3. EntriesFit(f)
  BY DEF EntriesFit, EntryOK, Plain, Text, PlainNames
<1>4. MeaningsFit("claimableBalances", f)
  BY DEF MeaningsFit, NamesFor, OptionNames, Constructors, Meaning, Same, Plain, Text
<1>5. Apart(f)
  BY DEF Apart, Together, Constructors, Plain, Text
<1>6. PathsAgree("claimableBalances")
  BY MarketPaths DEF PathsAgree, Counterpart, Streams, OneRecord, SingleRecords, Paths,
       Setters, Constructors,
     CallBuilders, ClaimableBalanceCallBuilder, Builder, Nothing
<1>7. PathsFit(CallBuilders["claimableBalances"])
  BY DEF PathsFit, IsTuple, CallBuilders, ClaimableBalanceCallBuilder, Builder, Nothing
<1>8. QED
  BY <1>1, <1>2, <1>3, <1>4, <1>5, <1>6, <1>7 DEF ClassOK

LEMMA LiquidityPoolClass == ClassOK("liquidityPools")
<1> DEFINE f == [forAssets |-> <<Texts("reserves")>>, forAccount |-> <<Plain("account")>>]
<1>1. CallBuilders["liquidityPools"].filters = f
  BY DEF CallBuilders, LiquidityPoolCallBuilder, Builder
<1>2. NamesFit("liquidityPools", f)
  BY DEF NamesFit, NamesFor, OptionNames, Constructors, Meaning
<1>3. EntriesFit(f)
  BY DEF EntriesFit, EntryOK, Plain, Texts, PlainNames
<1>4. MeaningsFit("liquidityPools", f)
  BY DEF MeaningsFit, NamesFor, OptionNames, Constructors, Meaning, Same, Plain, Texts
<1>5. Apart(f)
  BY DEF Apart, Together, Constructors, Plain, Texts
<1>6. PathsAgree("liquidityPools")
  BY PoolPaths DEF PathsAgree, Counterpart, Streams, OneRecord, SingleRecords, Paths,
       Setters, Constructors,
     CallBuilders, LiquidityPoolCallBuilder, Builder, Nothing
<1>7. PathsFit(CallBuilders["liquidityPools"])
  BY DEF PathsFit, IsTuple, CallBuilders, LiquidityPoolCallBuilder, Builder, Nothing
<1>8. QED
  BY <1>1, <1>2, <1>3, <1>4, <1>5, <1>6, <1>7 DEF ClassOK

LEMMA OrderbookClass == ClassOK("orderbook")
<1> DEFINE f == [constructor |-> <<Parts("selling"), Parts("buying")>>]
<1>1. CallBuilders["orderbook"].filters = f
  BY DEF CallBuilders, OrderbookCallBuilder, Builder
<1>2. NamesFit("orderbook", f)
  BY DEF NamesFit, NamesFor, ConstructedWith, Constructors, Meaning
<1>3. EntriesFit(f)
  BY DEF EntriesFit, EntryOK, Parts, PlainNames, AssetPrefixes, Replaceable, Constructors
<1>4. MeaningsFit("orderbook", f)
  BY DEF MeaningsFit, NamesFor, ConstructedWith, Constructors, Meaning, Same, Parts
<1>5. Apart(f)
  BY DEF Apart, Together, Constructors, Parts
<1>6. PathsAgree("orderbook")
  BY QuotePaths, StreamPaths DEF PathsAgree, Counterpart, Streams, OneRecord, SingleRecords,
       Paths, Setters, Constructors,
     CallBuilders, OrderbookCallBuilder, Builder, Nothing
<1>7. PathsFit(CallBuilders["orderbook"])
  BY DEF PathsFit, IsTuple, CallBuilders, OrderbookCallBuilder, Builder, Nothing
<1>8. QED
  BY <1>1, <1>2, <1>3, <1>4, <1>5, <1>6, <1>7 DEF ClassOK

LEMMA StrictReceivePathClass == ClassOK("strictReceivePaths")
<1> DEFINE f == [constructor |->
                   <<Parts("destination"), Plain("destination_amount"), Plain("source_account")>>,
                 constructorOfAssets |->
                   <<Parts("destination"), Plain("destination_amount"), Texts("source_assets")>>]
<1>1. CallBuilders["strictReceivePaths"].filters = f
  BY DEF CallBuilders, StrictReceivePathCallBuilder, Builder
<1>2. NamesFit("strictReceivePaths", f)
  BY DEF NamesFit, NamesFor, ConstructedWith, Constructors, Meaning
<1>3. EntriesFit(f)
  BY DEF EntriesFit, EntryOK, Plain, Texts, Parts, PlainNames, AssetPrefixes, Replaceable,
       Constructors
<1>4. MeaningsFit("strictReceivePaths", f)
  <2>1. \A i \in DOMAIN f["constructor"] :
          Same(Meaning[NamesFor("strictReceivePaths", "constructor")[i]], f["constructor"][i])
    BY MeaningIs DEF NamesFor, ConstructedWith, Constructors, Same, Plain, Texts, Parts
  <2>2. \A i \in DOMAIN f["constructorOfAssets"] :
          Same(Meaning[NamesFor("strictReceivePaths", "constructorOfAssets")[i]],
               f["constructorOfAssets"][i])
    BY MeaningIs DEF NamesFor, ConstructedWith, Constructors, Same, Plain, Texts, Parts
  <2>3. QED
    BY <2>1, <2>2 DEF MeaningsFit
<1>5. Apart(f)
  BY DEF Apart, Together, Constructors, Plain, Texts, Parts
<1>6. PathsAgree("strictReceivePaths")
  BY QuotePaths DEF PathsAgree, Counterpart, Streams, OneRecord, SingleRecords, Paths,
       Setters, Constructors,
     CallBuilders, StrictReceivePathCallBuilder, Builder, Nothing
<1>7. PathsFit(CallBuilders["strictReceivePaths"])
  BY DEF PathsFit, IsTuple, CallBuilders, StrictReceivePathCallBuilder, Builder, Nothing
<1>8. QED
  BY <1>1, <1>2, <1>3, <1>4, <1>5, <1>6, <1>7 DEF ClassOK

LEMMA StrictSendPathClass == ClassOK("strictSendPaths")
<1> DEFINE f == [constructor |->
                   <<Parts("source"), Plain("source_amount"), Plain("destination_account")>>,
                 constructorOfAssets |->
                   <<Parts("source"), Plain("source_amount"), Texts("destination_assets")>>]
<1>1. CallBuilders["strictSendPaths"].filters = f
  BY DEF CallBuilders, StrictSendPathCallBuilder, Builder
<1>2. NamesFit("strictSendPaths", f)
  BY DEF NamesFit, NamesFor, ConstructedWith, Constructors, Meaning
<1>3. EntriesFit(f)
  BY DEF EntriesFit, EntryOK, Plain, Texts, Parts, PlainNames, AssetPrefixes, Replaceable,
       Constructors
<1>4. MeaningsFit("strictSendPaths", f)
  <2>1. \A i \in DOMAIN f["constructor"] :
          Same(Meaning[NamesFor("strictSendPaths", "constructor")[i]], f["constructor"][i])
    BY MeaningIs DEF NamesFor, ConstructedWith, Constructors, Same, Plain, Texts, Parts
  <2>2. \A i \in DOMAIN f["constructorOfAssets"] :
          Same(Meaning[NamesFor("strictSendPaths", "constructorOfAssets")[i]],
               f["constructorOfAssets"][i])
    BY MeaningIs DEF NamesFor, ConstructedWith, Constructors, Same, Plain, Texts, Parts
  <2>3. QED
    BY <2>1, <2>2 DEF MeaningsFit
<1>5. Apart(f)
  BY DEF Apart, Together, Constructors, Plain, Texts, Parts
<1>6. PathsAgree("strictSendPaths")
  BY QuotePaths DEF PathsAgree, Counterpart, Streams, OneRecord, SingleRecords, Paths,
       Setters, Constructors,
     CallBuilders, StrictSendPathCallBuilder, Builder, Nothing
<1>7. PathsFit(CallBuilders["strictSendPaths"])
  BY DEF PathsFit, IsTuple, CallBuilders, StrictSendPathCallBuilder, Builder, Nothing
<1>8. QED
  BY <1>1, <1>2, <1>3, <1>4, <1>5, <1>6, <1>7 DEF ClassOK

LEMMA TradeAggregationClass == ClassOK("tradeAggregation")
<1> DEFINE f == [constructor |-> <<Parts("base"), Parts("counter"), Plain("start_time"),
                              Plain("end_time"), Plain("resolution")>>,
           constructorWithOffset |-> <<Parts("base"), Parts("counter"), Plain("start_time"),
                                       Plain("end_time"), Plain("resolution"),
                                       Plain("offset")>>]
<1>1. CallBuilders["tradeAggregation"].filters = f
  BY DEF CallBuilders, TradeAggregationCallBuilder, Builder
<1>2. NamesFit("tradeAggregation", f)
  BY DEF NamesFit, NamesFor, ConstructedWith, Constructors, Meaning
<1>3. EntriesFit(f)
  BY DEF EntriesFit, EntryOK, Plain, Parts, PlainNames, AssetPrefixes, Replaceable, Constructors
<1>4. MeaningsFit("tradeAggregation", f)
  <2>1. \A i \in DOMAIN f["constructor"] :
          Same(Meaning[NamesFor("tradeAggregation", "constructor")[i]], f["constructor"][i])
    BY MeaningIs DEF NamesFor, ConstructedWith, Constructors, Same, Plain, Parts
  <2>2. \A i \in DOMAIN f["constructorWithOffset"] :
          Same(Meaning[NamesFor("tradeAggregation", "constructorWithOffset")[i]],
               f["constructorWithOffset"][i])
    BY MeaningIs DEF NamesFor, ConstructedWith, Constructors, Same, Plain, Parts
  <2>3. QED
    BY <2>1, <2>2 DEF MeaningsFit
<1>5. Apart(f)
  BY DEF Apart, Together, Constructors, Plain, Parts
<1>6. PathsAgree("tradeAggregation")
  BY QuotePaths DEF PathsAgree, Counterpart, Streams, OneRecord, SingleRecords, Paths,
       Setters, Constructors,
     CallBuilders, TradeAggregationCallBuilder, Builder, Nothing
<1>7. PathsFit(CallBuilders["tradeAggregation"])
  BY DEF PathsFit, IsTuple, CallBuilders, TradeAggregationCallBuilder, Builder, Nothing
<1>8. QED
  BY <1>1, <1>2, <1>3, <1>4, <1>5, <1>6, <1>7 DEF ClassOK

LEMMA OfferTradesClass == ClassOK("offerTrades")
<1> DEFINE f == [constructor |-> <<>>]
<1>1. CallBuilders["offerTrades"].filters = f
  BY DEF CallBuilders, OfferTradesCallBuilder, Builder
<1>2. NamesFit("offerTrades", f)
  BY DEF NamesFit, NamesFor, ConstructedWith, Constructors, Meaning
<1>3. EntriesFit(f)
  BY DEF EntriesFit, EntryOK, Plain, PlainNames
<1>4. MeaningsFit("offerTrades", f)
  BY DEF MeaningsFit, NamesFor, ConstructedWith, Constructors, Meaning, Same, Plain
<1>5. Apart(f)
  BY DEF Apart, Together, Constructors, Plain
<1>6. PathsAgree("offerTrades")
  BY MarketPaths DEF PathsAgree, Counterpart, Streams, OneRecord, SingleRecords, Paths,
       Setters, Constructors,
     CallBuilders, OfferTradesCallBuilder, Builder, Nothing
<1>7. PathsFit(CallBuilders["offerTrades"])
  BY DEF PathsFit, IsTuple, CallBuilders, OfferTradesCallBuilder, Builder, Nothing, Of
<1>8. QED
  BY <1>1, <1>2, <1>3, <1>4, <1>5, <1>6, <1>7 DEF ClassOK

LEMMA FriendbotClass == ClassOK("friendbot")
<1> DEFINE f == [constructor |-> <<Plain("addr")>>]
<1>1. CallBuilders["friendbot"].filters = f
  BY DEF CallBuilders, FriendbotBuilder, Builder
<1>2. NamesFit("friendbot", f)
  BY DEF NamesFit, NamesFor, ConstructedWith, Constructors, Meaning
<1>3. EntriesFit(f)
  BY DEF EntriesFit, EntryOK, Plain, PlainNames
<1>4. MeaningsFit("friendbot", f)
  BY DEF MeaningsFit, NamesFor, ConstructedWith, Constructors, Meaning, Same, Plain
<1>5. Apart(f)
  BY DEF Apart, Together, Constructors, Plain
<1>6. PathsAgree("friendbot")
  BY DEF PathsAgree, Counterpart, Streams, OneRecord, SingleRecords, Paths, Setters,
       Constructors,
     CallBuilders, FriendbotBuilder, Builder, Nothing
<1>7. PathsFit(CallBuilders["friendbot"])
  BY DEF PathsFit, IsTuple, CallBuilders, FriendbotBuilder, Builder, Nothing
<1>8. QED
  BY <1>1, <1>2, <1>3, <1>4, <1>5, <1>6, <1>7 DEF ClassOK

LEMMA EveryClass == \A c \in Classes : ClassOK(c)
  BY AccountClass, LedgerClass, TransactionClass, OperationClass, PaymentClass, EffectClass,
       OfferClass, TradesClass, AssetsClass, ClaimableBalanceClass, LiquidityPoolClass,
       OrderbookClass, StrictReceivePathClass, StrictSendPathClass, TradeAggregationClass,
       OfferTradesClass, FriendbotClass
     DEF Classes, CallBuilders

(* What an entry puts into a query, and what a native asset leaves out.    *)
LEMMA QueryNames ==
  ASSUME NEW e, EntryOK(e), NEW v
  PROVE  /\ DOMAIN Query(e, v) \subseteq AllNames(e)
         /\ \A n \in AllNames(e) \ DOMAIN Query(e, v) :
              /\ e.kind = "parts"
              /\ n \in {AssetParams[e.name].code, AssetParams[e.name].issuer}
              /\ AssetParams[e.name].type \in DOMAIN Query(e, v)
              /\ Query(e, v)[AssetParams[e.name].type] = "native"
<1>1. CASE e.kind \in {"plain", "text", "texts"}
  <2>1. \E x : Query(e, v) = Only(e.name, x)
    BY <1>1 DEF Query
  <2>2. QED
    BY <1>1, <2>1 DEF AllNames, Only
<1>2. CASE e.kind = "parts"
  <2> DEFINE p == AssetParams[e.name]
  <2>1. Query(e, v) = assetToParams(e.name, v)
    BY <1>2 DEF Query
  <2>2. AllNames(e) = {p.type, p.code, p.issuer}
    BY <1>2 DEF AllNames
  <2>3. p.type # p.code /\ p.type # p.issuer
    BY <1>2 DEF EntryOK, AssetPrefixes, AssetParams, AssetParam
  <2> HIDE DEF p
  <2>4. CASE v.type = "native"
    <3>1. Query(e, v) = assign(Only(p.type, v.type), Nothing)
      BY <2>1, <2>4 DEF assetToParams, IsNative, p
    <3>2. DOMAIN Query(e, v) = {p.type} /\ Query(e, v)[p.type] = "native"
      BY <3>1, <2>4 DEF assign, Only, Nothing
    <3>3. QED
      BY <1>2, <2>2, <2>3, <3>2 DEF p
  <2>5. CASE v.type # "native"
    <3>1. Query(e, v) = assign(Only(p.type, v.type),
                               assign(Only(p.code, v.code), Only(p.issuer, v.issuer)))
      BY <2>1, <2>5 DEF assetToParams, IsNative, p
    <3>2. DOMAIN Query(e, v) = {p.type, p.code, p.issuer}
      BY <3>1 DEF assign, Only
    <3>3. QED
      BY <2>2, <3>2
  <2>6. QED
    BY <2>4, <2>5
<1>3. QED
  BY <1>1, <1>2 DEF EntryOK

(* What the caller of a method writes for an entry asks what the entry     *)
(* does.                                                                   *)
LEMMA WrittenAsks ==
  ASSUME NEW method, NEW o, NEW e, NEW v, EntryOK(e),
         Same(HorizonClient[method].options[o], e)
  PROVE  Query(HorizonClient[method].options[o], Written(method, o, e, v)) = Query(e, v)
<1> DEFINE opt == HorizonClient[method].options[o]
<1>1. CASE opt = e
  BY <1>1 DEF Written
<1>2. CASE opt # e
  <2>1. opt.kind = "plain" /\ e.kind \in {"text", "texts"} /\ opt.name = e.name
    BY <1>2 DEF Same
  <2>2. Written(method, o, e, v) = Query(e, v)[e.name]
    BY <2>1 DEF Written
  <2>3. PICK x : Query(e, v) = Only(e.name, x)
    BY <2>1 DEF Query
  <2>4. Query(e, v)[e.name] = x
    BY <2>3 DEF Only
  <2>5. Query(opt, x) = Only(e.name, x)
    BY <2>1 DEF Query
  <2>6. QED
    BY <2>2, <2>3, <2>4, <2>5
<1>3. QED
  BY <1>1, <1>2

(* Entries of which no two name the same parameter are all assigned, and   *)
(* what none of them names stays.                                          *)
NameApart(entries, values) ==
  \A i, j \in DOMAIN entries : \A n \in DOMAIN Query(entries[i], values[i]) :
    n \in DOMAIN Query(entries[j], values[j]) => i = j
IsAssigned(q, params, entries, values) ==
  /\ DOMAIN q = DOMAIN params \cup NamedBy(entries, values)
  /\ \A i \in DOMAIN entries : \A n \in DOMAIN Query(entries[i], values[i]) :
       q[n] = Query(entries[i], values[i])[n]
  /\ \A n \in DOMAIN params : n \notin NamedBy(entries, values) => q[n] = params[n]

LEMMA AssignedOnce ==
  ASSUME NEW params, NEW entries, NEW values, DOMAIN entries \subseteq Nat,
         NameApart(entries, values)
  PROVE  IsAssigned(Assigned(params, entries, values), params, entries, values)
<1>1. ASSUME NEW i \in DOMAIN entries, NEW n \in DOMAIN Query(entries[i], values[i])
      PROVE  Told(n, entries, values) = Query(entries[i], values[i])[n]
  <2>1. Naming(n, entries, values) = {i} /\ i \in Nat
    BY <1>1 DEF Naming, NameApart
  <2>2. (CHOOSE k \in {i} : \A j \in {i} : k >= j) = i
    BY <2>1
  <2>3. QED
    BY <2>1, <2>2 DEF Told
<1>2. ASSUME NEW i \in DOMAIN entries, NEW n \in DOMAIN Query(entries[i], values[i])
      PROVE  n \in NamedBy(entries, values)
  BY DEF NamedBy
<1>3. QED
  BY <1>1, <1>2 DEF Assigned, assign, IsAssigned

LEMMA SameSegments ==
  ASSUME NEW path, IsTuple(path)
  PROVE  "id" \notin ToSet(path) => \A x : At(path, x) = path
  BY DEF At, ToSet, IsTuple

-----------------------------------------------------------------------------
(* Every step keeps AskInv.                                                *)

Entry(class, s, i) == CallBuilders[class].filters[s][i]

(* Parameters belong to one entry of one setter.                           *)
LEMMA OneEntryEach ==
  ASSUME NEW c \in Classes, NEW s \in DOMAIN CallBuilders[c].filters,
         NEW t \in DOMAIN CallBuilders[c].filters, Together(s, t),
         NEW i \in DOMAIN CallBuilders[c].filters[s],
         NEW j \in DOMAIN CallBuilders[c].filters[t],
         NEW n \in AllNames(Entry(c, s, i)), n \in AllNames(Entry(c, t, j))
  PROVE  s = t /\ i = j
<1>1. EntryOK(Entry(c, s, i)) /\ EntryOK(Entry(c, t, j))
  BY EveryClass DEF ClassOK, EntriesFit, Entry
<1>2. Entry(c, s, i).name = Entry(c, t, j).name
  BY <1>1, NamesApart
<1>3. QED
  BY <1>2, EveryClass DEF ClassOK, Apart, Entry

(* So what a setter is told is assigned in full.                           *)
LEMMA AssignedFilter ==
  ASSUME NEW c \in Classes, NEW s \in DOMAIN CallBuilders[c].filters, NEW params, NEW v,
         NEW f, f = CallBuilders[c].filters[s]
  PROVE  IsAssigned(Assigned(params, f, v), params, f, v)
<1>1. /\ DOMAIN f \subseteq Nat /\ \A i \in DOMAIN f : EntryOK(f[i])
  BY EveryClass DEF ClassOK, EntriesFit
<1>2. Together(s, s)
  BY DEF Together
<1>3. ASSUME NEW i \in DOMAIN f, NEW j \in DOMAIN f, NEW n \in DOMAIN Query(f[i], v[i]),
             n \in DOMAIN Query(f[j], v[j])
      PROVE  i = j
  <2>1. n \in AllNames(f[i]) /\ n \in AllNames(f[j])
    BY <1>1, <1>3, QueryNames
  <2>2. QED
    BY <1>2, <2>1, OneEntryEach DEF Entry
<1>4. QED
  <2>1. NameApart(f, v)
    BY <1>3 DEF NameApart
  <2>2. QED
    BY <1>1, <2>1, AssignedOnce

LEMMA AskInit == Init => AskInv
  BY DEF Init, AskInv

LEMMA AskNew ==
  ASSUME NEW class \in Classes, New(class)
  PROVE  AskInv'
<1> DEFINE c == CallBuilders[class]
<1>0. /\ \A id, params : /\ DOMAIN Fresh(class, id, params) = BuilderFields
                         /\ Fresh(class, id, params).class = class
                         /\ Fresh(class, id, params).segments = At(c.segments, id)
                         /\ Fresh(class, id, params).params = params
      /\ DOMAIN AskedNothing = {"path", "filters"} /\ AskedNothing.filters = Nothing
      /\ AskedNothing.path = [setter |-> "all", id |-> None]
      /\ DOMAIN Nothing = {}
  BY DEF Fresh, BuilderFields, AskedNothing, Nothing
<1>1. CASE builder' = Fresh(class, None, Nothing) /\ asked' = AskedNothing
  <2>1. /\ builder'.class = class /\ builder'.params = Nothing
        /\ builder'.segments = At(c.segments, None)
        /\ asked'.filters = Nothing /\ asked'.path.setter = "all" /\ asked'.path.id = None
        /\ DOMAIN builder' = BuilderFields /\ DOMAIN asked' = {"path", "filters"}
    BY <1>0, <1>1
  <2>2. Paths(class, "all") = c.segments
    BY EveryClass DEF ClassOK, PathsFit, Paths, Setters
  <2>3. QED
    BY <1>0, <2>1, <2>2 DEF AskInv, BuilderFields
<1>2. ASSUME NEW k \in ConstructorsOf(class), NEW id \in Ids, NEW v,
             builder' = Fresh(class, id, Assigned(Nothing, c.filters[k], v)),
             asked' = [path |-> IF "id" \in ToSet(c.segments)
                                THEN [setter |-> "constructor",
                                id |-> id] ELSE AskedNothing.path,
                       filters |-> Only(k, v)]
      PROVE  AskInv'
  <2> DEFINE f == c.filters[k]
             q == Assigned(Nothing, f, v)
  <2>1. /\ builder'.class = class /\ builder'.params = q
        /\ builder'.segments = At(c.segments, id)
        /\ asked'.filters = Only(k, v)
        /\ DOMAIN builder' = BuilderFields /\ DOMAIN asked' = {"path", "filters"}
    BY <1>0, <1>2
  <2>2. DOMAIN Only(k, v) = {k} /\ Only(k, v)[k] = v
    BY DEF Only
  <2>3. k \in Constructors /\ k \in DOMAIN c.filters /\ Together(k, k)
    BY DEF ConstructorsOf, Together
  <2>4. IsAssigned(q, Nothing, f, v)
    BY <2>3, AssignedFilter
  <2>5. At(c.segments, id) = At(Paths(class, asked'.path.setter), asked'.path.id)
    <3>1. Paths(class, "all") = c.segments /\ Paths(class, "constructor") = c.segments
      BY EveryClass DEF ClassOK, PathsFit, Paths, Setters, Constructors
    <3>2. CASE "id" \in ToSet(c.segments)
      BY <1>2, <3>1, <3>2
    <3>3. CASE "id" \notin ToSet(c.segments)
      <4>1. asked'.path.setter = "all" /\ asked'.path.id = None
        BY <1>0, <1>2, <3>3
      <4>2. QED
        BY <3>1, <3>3, <4>1, EveryClass, SameSegments DEF ClassOK, PathsFit
    <3>4. QED
      BY <3>2, <3>3
  <2> HIDE DEF q
  <2>6. QED
    BY <1>0, <2>1, <2>2, <2>3, <2>4, <2>5 DEF AskInv, BuilderFields, NamedBy, IsAssigned
<1>3. QED
  BY <1>1, <1>2 DEF New

LEMMA AskSetFilter ==
  ASSUME AskInv, builder # None, NEW s \in Setters(CallBuilders[builder.class].filters), NEW v,
         SetFilter(s, v)
  PROVE  AskInv'
<1> DEFINE c == builder.class
           F == CallBuilders[c].filters
           f == F[s]
           q == Assigned(builder.params, f, v)
           old == asked.filters
           new == assign(old, Only(s, v))
<1>1. /\ DOMAIN builder = BuilderFields /\ DOMAIN asked = {"path", "filters"} /\ c \in Classes
      /\ DOMAIN old \subseteq DOMAIN F
      /\ \A t, u \in DOMAIN old : Together(t, u)
      /\ \A t \in DOMAIN old : \A i \in DOMAIN F[t] :
         \A n \in DOMAIN Query(F[t][i], old[t][i]) :
           n \in DOMAIN builder.params /\ builder.params[n] = Query(F[t][i], old[t][i])[n]
      /\ \A n \in DOMAIN builder.params :
           \E t \in DOMAIN old : \E i \in DOMAIN F[t] :
             n \in IF t \in Constructors THEN DOMAIN Query(F[t][i], old[t][i])
                   ELSE AllNames(F[t][i])
      /\ builder.segments = At(Paths(c, asked.path.setter), asked.path.id)
  BY DEF AskInv, BuilderFields
<1>2. /\ DOMAIN builder' = BuilderFields /\ builder'.class = c /\ builder'.params = q
      /\ builder'.segments = builder.segments
      /\ DOMAIN asked' = {"path", "filters"} /\ asked'.path = asked.path /\ asked'.filters = new
  <3>1. builder' = [builder EXCEPT !.params = q] /\ asked' = [asked EXCEPT !.filters = new]
    BY DEF SetFilter, Set, Asked
  <3> HIDE DEF q, new
  <3>2. QED
    BY <1>1, <3>1 DEF BuilderFields
<1>3. s \in DOMAIN F /\ s \notin Constructors
  BY DEF Setters
<1>4. IsAssigned(q, builder.params, f, v)
  BY <1>1, <1>3, AssignedFilter
<1>5. /\ DOMAIN new = DOMAIN old \cup {s} /\ new[s] = v
      /\ \A t \in DOMAIN old : t # s => new[t] = old[t]
  BY DEF assign, Only
<1>6. \A t \in DOMAIN F : Together(s, t) /\ Together(t, s)
  BY <1>3 DEF Together
<1>7. \A t \in DOMAIN F : \A i \in DOMAIN F[t] : EntryOK(F[t][i])
  BY <1>1, EveryClass DEF ClassOK, EntriesFit
<1> HIDE DEF q, new
<1>8. ASSUME NEW t \in DOMAIN new, NEW i \in DOMAIN F[t], NEW n \in DOMAIN Query(F[t][i], new[t][i])
      PROVE  n \in DOMAIN q /\ q[n] = Query(F[t][i], new[t][i])[n]
  <2>1. CASE t = s
    BY <1>4, <1>5, <1>8, <2>1 DEF IsAssigned, NamedBy
  <2>2. CASE t # s
    <3>1. t \in DOMAIN old /\ new[t] = old[t]
      BY <1>5, <2>2
    <3>2. n \in DOMAIN builder.params /\ builder.params[n] = Query(F[t][i], new[t][i])[n]
      BY <1>1, <3>1, <1>8
    <3>3. n \notin NamedBy(f, v)
      <4>1. SUFFICES ASSUME n \in NamedBy(f, v) PROVE FALSE
        OBVIOUS
      <4>2. PICK j \in DOMAIN f : n \in DOMAIN Query(f[j], v[j])
        BY <4>1 DEF NamedBy
      <4>3. n \in AllNames(f[j]) /\ n \in AllNames(F[t][i])
        BY <1>1, <1>3, <1>7, <1>8, <3>1, <4>2, QueryNames
      <4>4. QED
        BY <1>1, <1>3, <1>6, <2>2, <3>1, <4>3, OneEntryEach DEF Entry
    <3>4. QED
      BY <1>4, <3>2, <3>3 DEF IsAssigned
  <2>3. QED
    BY <2>1, <2>2
<1>9. ASSUME NEW n \in DOMAIN q
      PROVE  \E t \in DOMAIN new : \E i \in DOMAIN F[t] :
               n \in IF t \in Constructors THEN DOMAIN Query(F[t][i], new[t][i])
                     ELSE AllNames(F[t][i])
  <2>1. CASE n \in NamedBy(f, v)
    <3>1. PICK j \in DOMAIN f : n \in DOMAIN Query(f[j], v[j])
      BY <2>1 DEF NamedBy
    <3>2. n \in AllNames(f[j])
      BY <1>3, <1>7, <3>1, QueryNames
    <3>3. QED
      BY <1>3, <1>5, <3>2
  <2>2. CASE n \notin NamedBy(f, v)
    <3>1. n \in DOMAIN builder.params
      BY <1>4, <1>9, <2>2 DEF IsAssigned
    <3>2. PICK t \in DOMAIN old : \E i \in DOMAIN F[t] :
             n \in IF t \in Constructors THEN DOMAIN Query(F[t][i], old[t][i])
                   ELSE AllNames(F[t][i])
      BY <1>1, <3>1
    <3>3. t \in DOMAIN new /\ (t \in Constructors => new[t] = old[t])
      BY <1>3, <1>5
    <3>4. QED
      BY <3>2, <3>3
  <2>3. QED
    BY <2>1, <2>2
<1>10. DOMAIN new \subseteq DOMAIN F /\ \A t, u \in DOMAIN new : Together(t, u)
  BY <1>1, <1>3, <1>5, <1>6
<1>11. QED
  BY <1>1, <1>2, <1>8, <1>9, <1>10 DEF AskInv, BuilderFields

LEMMA AskSetPath ==
  ASSUME AskInv, builder # None, NEW s \in Setters(CallBuilders[builder.class].paths), NEW id,
         SetPath(s, id)
  PROVE  AskInv'
<1> DEFINE c == builder.class
           path == At(CallBuilders[c].paths[s], id)
<1>1. DOMAIN builder = BuilderFields /\ DOMAIN asked = {"path", "filters"}
  BY DEF AskInv, BuilderFields
<1>2. /\ builder' = [builder EXCEPT !.segments = path]
      /\ asked' = [asked EXCEPT !.path = [setter |-> s, id |-> id]]
  BY DEF SetPath, Set
<1> HIDE DEF path
<1>3. /\ DOMAIN builder' = BuilderFields /\ builder'.class = c /\ builder'.params = builder.params
      /\ builder'.segments = path
      /\ DOMAIN asked' = {"path", "filters"} /\ asked'.filters = asked.filters
      /\ asked'.path.setter = s /\ asked'.path.id = id
  BY <1>1, <1>2 DEF BuilderFields
<1>4. path = At(Paths(c, s), id)
  BY DEF Paths, path
<1>5. QED
  BY <1>3, <1>4 DEF AskInv, BuilderFields

LEMMA AskSetPaging ==
  ASSUME AskInv, builder # None, SetPaging
  PROVE  AskInv'
<1>1. DOMAIN builder = BuilderFields
  BY DEF AskInv, BuilderFields
<1>2. /\ DOMAIN builder' = BuilderFields /\ builder'.class = builder.class
      /\ builder'.params = builder.params /\ builder'.segments = builder.segments
      /\ asked' = asked
  <2>1. CASE \E x \in Cursors : Set([builder EXCEPT !.cursor = x])
    BY <1>1, <2>1 DEF SetPaging, Set, BuilderFields
  <2>2. CASE \E x \in Limits : Set([builder EXCEPT !.limit = x])
    BY <1>1, <2>2 DEF SetPaging, Set, BuilderFields
  <2>3. CASE \E x \in {"asc", "desc"} : Set([builder EXCEPT !.order = x])
    BY <1>1, <2>3 DEF SetPaging, Set, BuilderFields
  <2>4. QED
    BY <2>1, <2>2, <2>3 DEF SetPaging
<1>3. QED
  BY <1>2 DEF AskInv, BuilderFields

LEMMA AskStep == AskInv /\ [Next]_vars => AskInv'
<1> SUFFICES ASSUME AskInv, [Next]_vars
             PROVE  AskInv'
  OBVIOUS
<1>1. ASSUME NEW c \in Classes, New(c)
      PROVE  AskInv'
  BY <1>1, AskNew
<1>2. CASE SetAny
  <2>1. builder # None
    BY <1>2 DEF SetAny
  <2>2. ASSUME NEW s \in Setters(CallBuilders[builder.class].paths), NEW id \in Ids, SetPath(s, id)
        PROVE  AskInv'
    BY <2>1, <2>2, AskSetPath
  <2>3. ASSUME NEW s \in Setters(CallBuilders[builder.class].filters),
               NEW v \in Arguments(CallBuilders[builder.class].filters[s]), SetFilter(s, v)
        PROVE  AskInv'
    BY <2>1, <2>3, AskSetFilter
  <2>4. QED
    BY <1>2, <2>1, <2>2, <2>3, AskSetPaging DEF SetAny
<1>3. CASE UNCHANGED <<builder, asked>>
  BY <1>3 DEF AskInv
<1>4. CASE Publish
  BY <1>3, <1>4 DEF Publish
<1>5. CASE Call
  BY <1>3, <1>5 DEF Call, Request
<1>6. ASSUME NEW p \in DOMAIN pages, NEW way \in {"next", "prev"}, Turn(p, way)
      PROVE  AskInv'
  BY <1>3, <1>6 DEF Turn, Request
<1>7. ASSUME NEW q \in requests, Answer(q) \/ Fail(q)
      PROVE  AskInv'
  BY <1>3, <1>7 DEF Answer, Fail
<1>8. CASE UNCHANGED vars
  BY <1>3, <1>8 DEF vars
<1>9. QED
  BY <1>1, <1>2, <1>4, <1>5, <1>6, <1>7, <1>8 DEF Next

-----------------------------------------------------------------------------
(* From what is in the query to what the method asks for.                  *)

(* The methods that the tables name are methods of the client.             *)
LEMMA TablesNameMethods ==
  /\ \A c \in DOMAIN Counterpart : \A w \in DOMAIN Counterpart[c] :
       Counterpart[c][w] \in DOMAIN HorizonClient
  /\ \A c \in DOMAIN Streams : \A w \in DOMAIN Streams[c] : Streams[c][w] \in DOMAIN HorizonClient
<1>1. DOMAIN HorizonClient =
        UNION {DOMAIN g : g \in {AccountMethods, LedgerMethods, HistoryMethods, MarketMethods,
                                 PoolMethods, QuoteMethods, StreamMethods}}
  BY DEF HorizonClient, assign
<1>2. \A c \in DOMAIN Counterpart : \A w \in DOMAIN Counterpart[c] :
        Counterpart[c][w] \in DOMAIN HorizonClient
  BY <1>1, MethodNames DEF Counterpart, Nothing
<1>3. \A c \in DOMAIN Streams : \A w \in DOMAIN Streams[c] :
        Streams[c][w] \in DOMAIN HorizonClient
  BY <1>1, MethodNames DEF Streams
<1>4. QED
  BY <1>2, <1>3

(* An option stands for one entry of one setter.                           *)
LEMMA OneOptionEach ==
  ASSUME NEW c \in Classes, NEW s \in DOMAIN CallBuilders[c].filters,
         NEW t \in DOMAIN CallBuilders[c].filters, Together(s, t),
         NEW i \in DOMAIN CallBuilders[c].filters[s],
         NEW j \in DOMAIN CallBuilders[c].filters[t],
         NamesFor(c, s)[i] = NamesFor(c, t)[j]
  PROVE  s = t /\ i = j
<1>1. /\ Same(Meaning[NamesFor(c, s)[i]], Entry(c, s, i))
      /\ Same(Meaning[NamesFor(c, t)[j]], Entry(c, t, j))
  BY EveryClass DEF ClassOK, MeaningsFit, Entry
<1>2. Entry(c, s, i).name = Entry(c, t, j).name
  BY <1>1 DEF Same
<1>3. QED
  BY <1>2, EveryClass DEF ClassOK, Apart, Entry

(* What is asked for by an option that a setter stands for.                *)
EntryAsks(s, i) == Query(Entry(builder.class, s, i), asked.filters[s][i])
OptionAsks(method, o) == Query(HorizonClient[method].options[o], OptionsFor(method)[o])

LEMMA OptionAsksTheSame ==
  ASSUME AskInv, builder # None, NEW method \in DOMAIN HorizonClient,
         SetOptions \subseteq DOMAIN HorizonClient[method].options,
         NEW s \in DOMAIN asked.filters, NEW i \in DOMAIN CallBuilders[builder.class].filters[s]
  PROVE  /\ NamesOf(s)[i] \in SetOptions
         /\ OptionAsks(method, NamesOf(s)[i]) = EntryAsks(s, i)
<1> DEFINE c == builder.class
           F == CallBuilders[c].filters
           o == NamesOf(s)[i]
<1>1. /\ c \in Classes /\ DOMAIN asked.filters \subseteq DOMAIN F
      /\ \A t, u \in DOMAIN asked.filters : Together(t, u)
  BY DEF AskInv
<1>2. \A t : NamesOf(t) = NamesFor(c, t)
  BY DEF NamesOf, NamesFor
<1>3. \A t \in DOMAIN asked.filters : DOMAIN NamesOf(t) = DOMAIN F[t]
  BY <1>1, <1>2, EveryClass DEF ClassOK, NamesFit
<1>4. o \in ToSet(NamesOf(s)) /\ o \in SetOptions
  BY <1>3 DEF ToSet, SetOptions
<1>5. ASSUME NEW t \in DOMAIN asked.filters, o \in ToSet(NamesOf(t))
      PROVE  t = s
  <2>1. PICK j \in DOMAIN F[t] : NamesOf(t)[j] = o
    BY <1>3, <1>5 DEF ToSet
  <2>2. QED
    BY <1>1, <1>2, <2>1, OneOptionEach
<1>6. (CHOOSE t \in DOMAIN asked.filters : o \in ToSet(NamesOf(t))) = s
  BY <1>4, <1>5
<1>7. \A j \in DOMAIN NamesOf(s) : NamesOf(s)[j] = o => j = i
  BY <1>1, <1>2, <1>3, OneOptionEach
<1>8. (CHOOSE j \in DOMAIN NamesOf(s) : NamesOf(s)[j] = o) = i
  BY <1>3, <1>7
<1> HIDE DEF o
<1>9. OptionsFor(method)[o] = Written(method, o, F[s][i], asked.filters[s][i])
  BY <1>4, <1>6, <1>8 DEF OptionsFor
<1>10. Same(HorizonClient[method].options[o], F[s][i])
  <2>1. o \in DOMAIN HorizonClient[method].options
    BY <1>4
  <2>2. HorizonClient[method].options[o] = Meaning[o]
    BY <2>1, EveryOptionMeans DEF OptionsMean
  <2>3. Same(Meaning[o], F[s][i])
    BY <1>1, <1>2, EveryClass DEF ClassOK, MeaningsFit, o
  <2>4. QED
    BY <2>2, <2>3
<1>11. EntryOK(F[s][i])
  BY <1>1, EveryClass DEF ClassOK, EntriesFit
<1>12. QED
  BY <1>4, <1>9, <1>10, <1>11, WrittenAsks DEF o, OptionAsks, EntryAsks, Entry

LEMMA EveryOptionSet ==
  ASSUME AskInv, builder # None, NEW o \in SetOptions
  PROVE  \E s \in DOMAIN asked.filters : \E i \in DOMAIN CallBuilders[builder.class].filters[s] :
           o = NamesOf(s)[i]
<1>1. PICK s \in DOMAIN asked.filters : o \in ToSet(NamesOf(s))
  BY DEF SetOptions
<1>2. DOMAIN NamesOf(s) = DOMAIN CallBuilders[builder.class].filters[s]
  BY EveryClass DEF AskInv, ClassOK, NamesFit, NamesOf, NamesFor
<1>3. QED
  BY <1>1, <1>2 DEF ToSet

(* The query of a method: every name that an option has, from an option    *)
(* that has it.                                                            *)
LEMMA QueryOfMethod ==
  ASSUME NEW method, NEW id
  PROVE  LET query == Asks(method, id, OptionsFor(method)).query IN
         /\ \A n \in DOMAIN query : \E o \in SetOptions :
              n \in DOMAIN OptionAsks(method, o) /\ query[n] = OptionAsks(method, o)[n]
         /\ \A o \in SetOptions : DOMAIN OptionAsks(method, o) \subseteq DOMAIN query
         /\ Asks(method, id, OptionsFor(method)).path = At(HorizonClient[method].path, id)
<1> DEFINE names == UNION {DOMAIN OptionAsks(method, o) : o \in SetOptions}
           by(n) == CHOOSE o \in SetOptions : n \in DOMAIN OptionAsks(method, o)
           query == [n \in names |-> OptionAsks(method, by(n))[n]]
<1>1. DOMAIN OptionsFor(method) = SetOptions
  BY DEF OptionsFor
<1>2. Asks(method, id, OptionsFor(method)) =
        [path |-> At(HorizonClient[method].path, id), query |-> query]
  BY <1>1 DEF Asks, OptionAsks
<1>3. \A n \in names : by(n) \in SetOptions /\ n \in DOMAIN OptionAsks(method, by(n))
  OBVIOUS
<1>4. \A o \in SetOptions : DOMAIN OptionAsks(method, o) \subseteq names
  OBVIOUS
<1>5. DOMAIN query = names /\ \A n \in names : query[n] = OptionAsks(method, by(n))[n]
  OBVIOUS
<1> HIDE DEF by, query, names
<1>6. QED
  BY <1>2, <1>3, <1>4, <1>5

LEMMA MethodAsksTheSame ==
  ASSUME AskInv, builder # None, NEW method \in DOMAIN HorizonClient, NEW id,
         SetOptions \subseteq DOMAIN HorizonClient[method].options
  PROVE  LET query == Asks(method, id, OptionsFor(method)).query IN
         /\ \A n \in DOMAIN query : n \in DOMAIN builder.params /\ builder.params[n] = query[n]
         /\ \A n \in DOMAIN builder.params \ DOMAIN query : LeftOver(n, query)
<1> DEFINE F == CallBuilders[builder.class].filters
           query == Asks(method, id, OptionsFor(method)).query
<1>1. /\ builder.class \in Classes /\ DOMAIN asked.filters \subseteq DOMAIN F
      /\ \A s \in DOMAIN asked.filters : \A i \in DOMAIN F[s] :
         \A n \in DOMAIN EntryAsks(s, i) :
           n \in DOMAIN builder.params /\ builder.params[n] = EntryAsks(s, i)[n]
      /\ \A n \in DOMAIN builder.params :
           \E s \in DOMAIN asked.filters : \E i \in DOMAIN F[s] :
             n \in IF s \in Constructors THEN DOMAIN EntryAsks(s, i) ELSE AllNames(F[s][i])
  BY DEF AskInv, EntryAsks, Entry
<1>2. /\ \A n \in DOMAIN query : \E o \in SetOptions :
           n \in DOMAIN OptionAsks(method, o) /\ query[n] = OptionAsks(method, o)[n]
      /\ \A o \in SetOptions : DOMAIN OptionAsks(method, o) \subseteq DOMAIN query
  BY QueryOfMethod
<1> HIDE DEF query
<1>3. ASSUME NEW n \in DOMAIN query
      PROVE  n \in DOMAIN builder.params /\ builder.params[n] = query[n]
  <2>1. PICK o \in SetOptions :
          n \in DOMAIN OptionAsks(method, o) /\ query[n] = OptionAsks(method, o)[n]
    BY <1>2, <1>3
  <2>2. PICK s \in DOMAIN asked.filters : \E i \in DOMAIN F[s] : o = NamesOf(s)[i]
    BY EveryOptionSet
  <2>3. PICK i \in DOMAIN F[s] : o = NamesOf(s)[i]
    BY <2>2
  <2>4. OptionAsks(method, o) = EntryAsks(s, i)
    BY <2>3, OptionAsksTheSame
  <2>5. QED
    BY <1>1, <2>1, <2>4
<1>4. ASSUME NEW s \in DOMAIN asked.filters, NEW i \in DOMAIN F[s]
      PROVE  DOMAIN EntryAsks(s, i) \subseteq DOMAIN query
  BY <1>2, <1>4, OptionAsksTheSame
<1>5. ASSUME NEW n \in DOMAIN builder.params, n \notin DOMAIN query
      PROVE  LeftOver(n, query)
  <2>0. PICK s \in DOMAIN asked.filters : \E i \in DOMAIN F[s] :
          n \in IF s \in Constructors THEN DOMAIN EntryAsks(s, i) ELSE AllNames(F[s][i])
    BY <1>1
  <2>1. PICK i \in DOMAIN F[s] :
          n \in IF s \in Constructors THEN DOMAIN EntryAsks(s, i) ELSE AllNames(F[s][i])
    BY <2>0
  <2> DEFINE e == F[s][i]
             type == AssetParams[e.name].type
  <2>2. s \notin Constructors /\ n \in AllNames(e) /\ n \notin DOMAIN EntryAsks(s, i)
    BY <1>4, <1>5, <2>1
  <2>3. EntryOK(e) /\ (e.kind = "parts" /\ s \notin Constructors => e.name \in Replaceable)
    BY <1>1, EveryClass DEF ClassOK, EntriesFit
  <2>4. /\ e.kind = "parts" /\ n \in {AssetParams[e.name].code, AssetParams[e.name].issuer}
        /\ type \in DOMAIN EntryAsks(s, i) /\ EntryAsks(s, i)[type] = "native"
    BY <2>2, <2>3, QueryNames DEF EntryAsks, Entry
  <2>5. type \in DOMAIN query
    BY <1>4, <2>4
  <2>6. query[type] = "native"
    BY <1>1, <1>3, <2>4, <2>5
  <2>7. QED
    BY <2>2, <2>3, <2>4, <2>6 DEF LeftOver, Replaceable
<1>6. QED
  BY <1>3, <1>5 DEF query

LEMMA AskAgree == AskInv => RequestsAgree
<1> SUFFICES ASSUME AskInv, builder # None
             PROVE  RequestsAgree
  BY DEF RequestsAgree
<1> DEFINE class == builder.class
           which == asked.path.setter
           id == asked.path.id
           native(method) == Asks(method, id, OptionsFor(method))
           Agrees(method) ==
             /\ builder.segments = native(method).path
             /\ \A n \in DOMAIN native(method).query :
                  n \in DOMAIN builder.params /\ builder.params[n] = native(method).query[n]
             /\ \A n \in DOMAIN builder.params \ DOMAIN native(method).query :
                  LeftOver(n, native(method).query)
<1>1. class \in Classes /\ builder.segments = At(Paths(class, which), id)
  BY DEF AskInv
<1>2. PathsAgree(class)
  BY <1>1, EveryClass DEF ClassOK
<1>3. ASSUME NEW method \in DOMAIN HorizonClient,
             HorizonClient[method].path = Paths(class, which),
             SetOptions \subseteq DOMAIN HorizonClient[method].options
      PROVE  Agrees(method)
  BY <1>1, <1>3, QueryOfMethod, MethodAsksTheSame
<1> HIDE DEF Agrees
<1>4. ASSUME class \in DOMAIN Counterpart, which \in DOMAIN Counterpart[class],
             SetOptions \subseteq DOMAIN HorizonClient[Counterpart[class][which]].options
      PROVE  Agrees(Counterpart[class][which])
  BY <1>2, <1>3, <1>4, TablesNameMethods DEF PathsAgree
<1>5. ASSUME class \in DOMAIN Streams, which \in DOMAIN Streams[class],
             SetOptions \subseteq DOMAIN HorizonClient[Streams[class][which]].options
      PROVE  Agrees(Streams[class][which])
  BY <1>2, <1>3, <1>5, TablesNameMethods DEF PathsAgree
<1>6. ASSUME class \in DOMAIN OneRecord
      PROVE  SingleRecords[class] = Asks(OneRecord[class], "id", Nothing).path
  <2>1. Asks(OneRecord[class], "id", Nothing).path = At(SingleRecords[class], "id")
    BY <1>2, <1>6 DEF PathsAgree, Asks
  <2>2. IsTuple(SingleRecords[class])
    BY <1>6 DEF OneRecord, SingleRecords, IsTuple
  <2>3. QED
    BY <2>1, <2>2 DEF At, IsTuple
<1>7. QED
  BY <1>4, <1>5, <1>6 DEF RequestsAgree, Agrees

(* Whichever setters a builder is called with, in whatever order and how   *)
(* often, it asks Horizon for what the matching method of HorizonClient    *)
(* asks for when it is given the same values, and for nothing else but the *)
(* code and the issuer of an asset that was replaced by the native one.    *)
THEOREM RequestsStayEqual == Spec => []RequestsAgree
<1>1. Spec => []AskInv
  BY AskInit, AskStep, PTL DEF Spec
<1>2. QED
  BY <1>1, AskAgree, PTL
=============================================================================
