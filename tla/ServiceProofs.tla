--------------------------- MODULE ServiceProofs ----------------------------
(***************************************************************************)
(* Theorems about five parts of the broker that keep no log and no group,  *)
(* for any instance of each: the schema registry (SchemaRegistry), the map *)
(* of groups (GroupRegistry), a connection (Connection), the tasks of the  *)
(* server (Server) and the listing of topics page by page (TopicPages).    *)
(* Each has an inductive invariant of its own.                             *)
(***************************************************************************)
EXTENDS SchemaRegistry, GroupRegistry, Connection, Server, TopicPages,
        WellFoundedInduction, TLAPS

----------------------------------------------------------------------------
(* Listing topics in pages *)

\* A pair comes before partition p of topic n in the order of a listing.
Before(pair, n, p) == pair[1] < n \/ (pair[1] = n /\ pair[2] < p)

\* Everything in the sequence s comes before partition p of topic n.
AllBefore(s, n, p) == \A x \in Range(s) : Before(x, n, p)

\* What a client holds: no pair twice.
Held(s) == s \in Seq(Name \X Nat) /\ IsInjective(s)

\* new holds what s holds and take partitions of topic n from start on.
Grown(s, n, start, take, new) ==
  Held(new) /\ Range(new) = Range(s) \cup Pairs(n, start, start + take)

\* A topic that a listing is about.
InRange(n) == listing.asked = {} \/ n \in listing.asked

\* What the client was promised is in the catalogue.
ScopeExists ==
  \A x \in scope : /\ x = <<x[1], x[2]>> /\ x[2] \in Nat
                   /\ Found(catalog, x[1]) /\ InRange(x[1])
                   /\ x[2] < catalog.topics[x[1]].partitions

\* Inside a page: what was returned comes before what is still to be visited,
\* and what is missing will be visited.
PageInv ==
  /\ listing.cursor = NoCursor \/ (listing.cursor \in CursorRecord /\ listing.cursor.partition >= 0)
  /\ \A n \in listing.names : InRange(n)
  /\ \A x \in Range(returned), n \in listing.names : Before(x, n, Start(n))
  /\ \A x \in scope \ Range(returned) : x[1] \in listing.names /\ x[2] >= Start(x[1])

\* Between two pages: what was returned comes before the cursor, and what is
\* missing does not.
CursorInv ==
  /\ listing.cursor \in CursorRecord /\ listing.cursor.partition >= 0
  /\ InRange(listing.cursor.name)
  /\ \A x \in Range(returned) : Before(x, listing.cursor.name, listing.cursor.partition)
  /\ \A x \in scope \ Range(returned) :
       ~Before(x, listing.cursor.name, listing.cursor.partition)

\* The fields of a listing.
Phase == {"idle", "page", "cursor", "done", "refused"}
CursorField == CursorRecord \cup {NoCursor}
Listing == [pc : Phase, asked : SUBSET Name, limit : Int, cursor : CursorField,
            names : SUBSET Name, remaining : Nat]

\* The inductive invariant.
PagesInv ==
  /\ DOMAIN catalog.topics \subseteq ValidName
  /\ \A n \in DOMAIN catalog.topics : catalog.topics[n].partitions \in Nat
  /\ listing \in Listing
  /\ listing.remaining <= PageLimit(listing.limit)
  /\ returned \in Seq(Name \X Nat) /\ IsInjective(returned)
  /\ listing.pc \in {"page", "cursor"} => ScopeExists
  /\ listing.pc = "page" => PageInv
  /\ listing.pc = "cursor" => CursorInv
  /\ listing.pc = "done" => scope \subseteq Range(returned)

\* The loop over the names takes the least of them.
LEMMA LeastName ==
  ASSUME NEW S, S \subseteq Name, S # {}
  PROVE  /\ Min(S) \in S /\ Min(S) \in Name /\ Min(S) \in Nat
         /\ \A n \in S : n # Min(S) => Min(S) < n
<1>1. S \subseteq Nat
  BY NameAssumption
<1>2. PICK x \in S : \A y \in S : ~(<<y, x>> \in OpToRel(<, Nat))
  BY <1>1, NatLessThanWellFounded, WFMin, Zenon
<1>3. ASSUME NEW y \in S PROVE x <= y
  <2>1. y < x => <<y, x>> \in {ss \in Nat \X Nat : ss[1] < ss[2]}
    BY <1>1
  <2> QED
    BY <1>1, <1>2, <2>1 DEF OpToRel
<1>4. Min(S) \in S /\ \A y \in S : Min(S) <= y
  BY <1>3 DEF Min
<1>5. PICK m : m = Min(S)
  OBVIOUS
<1>6. m \in S /\ m \in Name /\ m \in Nat /\ \A y \in S : y \in Nat /\ m <= y
  BY <1>1, <1>4, <1>5, Zenon
<1>7. \A y \in S : y # m => m < y
  BY <1>6
<1> QED
  BY <1>5, <1>6, <1>7

\* u is s followed by t.
Joined(s, t, u) ==
    /\ Len(s) \in Nat
    /\ DOMAIN s = 1..Len(s)
    /\ DOMAIN u = 1..(Len(s) + Len(t))
    /\ \A i \in 1..Len(s) : u[i] = s[i]
    /\ \A k \in 1..Len(t) : u[Len(s) + k] = t[k]

\* What the concatenation of two sequences holds, and where.
LEMMA Concatenated ==
  ASSUME NEW T, NEW s \in Seq(T), NEW t \in Seq(T)
  PROVE  s \o t \in Seq(T) /\ Joined(s, t, s \o t)
<1>1. Len(s) \in Nat /\ Len(t) \in Nat /\ DOMAIN s = 1..Len(s)
  OBVIOUS
<1>2. s \o t \in Seq(T) /\ Len(s \o t) = Len(s) + Len(t)
  OBVIOUS
<1>3. DOMAIN (s \o t) = 1..(Len(s) + Len(t))
  BY <1>2
<1>4. \A i \in 1..Len(s) : (s \o t)[i] = s[i]
  BY <1>1
<1>5. ASSUME NEW k \in 1..Len(t) PROVE (s \o t)[Len(s) + k] = t[k]
  <2>1. Len(s) + k \in 1..(Len(s) + Len(t)) /\ Len(s) + k > Len(s) /\ (Len(s) + k) - Len(s) = k
    BY <1>1
  <2> QED
    BY <1>1, <2>1
<1> QED
  BY <1>1, <1>2, <1>3, <1>4, <1>5, Zenon DEF Joined

\* What a page adds: partitions of one topic, one after the other, none of which
\* was returned.
LEMMA ReturnMore ==
  ASSUME NEW s, Held(s), NEW n \in Name, NEW start \in Nat, NEW take \in Nat,
         AllBefore(s, n, start)
  PROVE  Grown(s, n, start, take, s \o SuccessTopic(n, start, take))
<1> SUFFICES ASSUME NEW new, new = s \o SuccessTopic(n, start, take)
             PROVE  Held(new) /\ Range(new) = Range(s) \cup Pairs(n, start, start + take)
  BY Zenon DEF Grown
<1> DEFINE more == SuccessTopic(n, start, take)
           m == Len(s)
<1>1. more \in Seq(Name \X Nat) /\ Len(more) = take
  BY DEF SuccessTopic
<1>2. new = s \o more /\ \A k \in 1..take : more[k] = <<n, start + k - 1>>
  BY DEF SuccessTopic
<1> HIDE DEF more
<1>3. /\ new \in Seq(Name \X Nat) /\ m \in Nat /\ DOMAIN s = 1..m /\ DOMAIN new = 1..(m + take)
      /\ \A i \in 1..m : new[i] = s[i]
      /\ \A k \in 1..take : new[m + k] = more[k]
  <2>1. PICK T : T = Name \X Nat
    BY Zenon
  <2>2. PICK t : t = more
    OBVIOUS
  <2>3. s \in Seq(T) /\ t \in Seq(T)
    BY <1>1, <2>1, <2>2 DEF Held
  <2>4. s \o t \in Seq(T) /\ Joined(s, t, s \o t)
    BY <2>3, Concatenated, Zenon
  <2>5. new = s \o t /\ Len(t) = take
    BY <1>1, <1>2, <2>2
  <2>6. new \in Seq(T) /\ Joined(s, t, new)
    BY <2>4, <2>5, Zenon
  <2> QED
    BY <2>1, <2>2, <2>5, <2>6, Zenon DEF Joined
<1> HIDE DEF m
<1>4. \A i \in 1..m : new[i] \in Range(s)
  BY <1>3, Zenon DEF Range
<1>5. ASSUME NEW i \in 1..(m + take), i \notin 1..m
      PROVE  i - m \in 1..take /\ new[i] = <<n, start + (i - m) - 1>>
  <2>1. i - m \in 1..take /\ m + (i - m) = i
    BY <1>3, <1>5
  <2> QED
    BY <1>2, <1>3, <2>1, Zenon
<1>6. ASSUME NEW i \in 1..m, NEW j \in 1..(m + take), j \notin 1..m
      PROVE  new[i] # new[j]
  <2>1. Before(new[i], n, start)
    BY <1>4, Zenon DEF AllBefore
  <2>2. new[j] = <<n, start + (j - m) - 1>> /\ j - m \in 1..take
    BY <1>5, <1>6, Zenon
  <2>3. ~Before(<<n, start + (j - m) - 1>>, n, start)
    <3>1. n \in Nat
      BY NameAssumption
    <3> QED
      BY <2>2, <3>1, <1>3 DEF Before
  <2> QED
    BY <2>1, <2>2, <2>3, Zenon
<1>7. ASSUME NEW i \in 1..(m + take), NEW j \in 1..(m + take), new[i] = new[j]
      PROVE  i = j
  <2>1. CASE i \in 1..m /\ j \in 1..m
    BY <1>3, <1>7, <2>1, Zenon DEF Held, IsInjective
  <2>2. CASE i \notin 1..m /\ j \notin 1..m
    <3>1. <<n, start + (i - m) - 1>> = <<n, start + (j - m) - 1>>
      BY <1>5, <1>7, <2>2, Zenon
    <3>2. start + (i - m) - 1 = start + (j - m) - 1
      BY <3>1
    <3> QED
      BY <1>3, <3>2
  <2> QED
    BY <1>6, <1>7, <2>1, <2>2, Zenon
<1>8. Held(new)
  BY <1>3, <1>7, Zenon DEF Held, IsInjective
<1>9. Range(new) \subseteq Range(s) \cup Pairs(n, start, start + take)
  <2> SUFFICES ASSUME NEW i \in 1..(m + take), i \notin 1..m
               PROVE  new[i] \in Pairs(n, start, start + take)
    BY <1>3, <1>4 DEF Range
  <2>1. start + (i - m) - 1 \in start..((start + take) - 1)
    BY <1>3, <1>5
  <2> QED
    BY <1>5, <2>1, Zenon DEF Pairs
<1>10. Range(s) \subseteq Range(new)
  <2>1. \A i \in 1..m : i \in DOMAIN new
    BY <1>3
  <2> QED
    BY <1>3, <2>1 DEF Range
<1>11. Pairs(n, start, start + take) \subseteq Range(new)
  <2> SUFFICES ASSUME NEW p \in start..((start + take) - 1)
               PROVE  <<n, p>> \in Range(new)
    BY DEF Pairs
  <2>1. PICK k \in 1..take : start + k - 1 = p
    <3>1. (p - start) + 1 \in 1..take /\ start + ((p - start) + 1) - 1 = p
      OBVIOUS
    <3> QED
      BY <3>1
  <2>2. new[m + k] = <<n, p>>
    <3>1. new[m + k] = more[k]
      BY <1>3
    <3>2. more[k] = <<n, start + k - 1>>
      BY <1>2
    <3> QED
      BY <2>1, <3>1, <3>2, Zenon
  <2>3. m + k \in DOMAIN new
    <3>1. m \in Nat /\ DOMAIN new = 1..(m + take)
      BY <1>3
    <3> QED
      BY <3>1
  <2> QED
    BY <2>2, <2>3, SMTT(30) DEF Range
<1> QED
  BY <1>3, <1>8, <1>9, <1>10, <1>11

\* The types that the steps below need.
LEMMA PagesTypes ==
  ASSUME PagesInv
  PROVE  /\ Name \subseteq Nat
         /\ \A x \in Range(returned) : x[1] \in Nat /\ x[2] \in Nat
         /\ listing.asked \subseteq Name /\ listing.names \subseteq Name
         /\ listing.limit \in Int /\ PageLimit(listing.limit) \in Nat
         /\ DOMAIN catalog.topics \subseteq ValidName /\ ValidName \subseteq Name
<1>1. Name \subseteq Nat /\ ValidName \subseteq Name
  BY NameAssumption DEF ValidName
<1>2. ASSUME NEW x \in Range(returned) PROVE x[1] \in Nat /\ x[2] \in Nat
  <2>1. returned \in Seq(Name \X Nat)
    BY DEF PagesInv
  <2>2. x \in Name \X Nat
    BY <2>1 DEF Range
  <2> QED
    BY <1>1, <2>2, Zenon
<1>3. /\ listing.asked \subseteq Name /\ listing.names \subseteq Name /\ listing.limit \in Int
      /\ DOMAIN catalog.topics \subseteq ValidName
  BY DEF PagesInv, Listing
<1> QED
  BY <1>1, <1>2, <1>3 DEF PageLimit

\* A client that was sent nothing.
LEMMA NothingReturned ==
  << >> \in Seq(Name \X Nat) /\ IsInjective(<< >>) /\ Range(<< >>) = {}
<1>1. << >> \in Seq(Name \X Nat) /\ DOMAIN << >> = {}
  OBVIOUS
<1> QED
  BY <1>1 DEF IsInjective, Range

\* What the fields of a listing can be.
LEMMA FieldValues ==
  /\ "idle" \in Phase /\ "page" \in Phase /\ "cursor" \in Phase
  /\ "done" \in Phase /\ "refused" \in Phase
  /\ NoCursor \in CursorField /\ \A c \in CursorRecord : c \in CursorField
BY DEF Phase, CursorField

\* Another client creates a topic, and what was promised stays.
LEMMA CreateKeepsPages ==
  ASSUME PagesInv, NEW name, NEW partitions \in PartitionCounts, Create(name, partitions)
  PROVE  PagesInv'
<1>1. PICK id : catalog' = InsertTopic(catalog, name, partitions, id)
  BY DEF Create
<1>2. name \in ValidName /\ name \notin DOMAIN catalog.topics
      /\ UNCHANGED <<listing, scope, returned>>
  BY DEF Create, Exists
<1>3. /\ DOMAIN catalog'.topics = DOMAIN catalog.topics \cup {name}
      /\ \A n \in DOMAIN catalog.topics : catalog'.topics[n] = catalog.topics[n]
      /\ catalog'.topics[name].partitions = partitions
  BY <1>1, <1>2 DEF InsertTopic
<1>4. partitions \in Nat
  BY CountsAssumption
<1>5. /\ DOMAIN catalog'.topics \subseteq ValidName
      /\ \A n \in DOMAIN catalog'.topics : catalog'.topics[n].partitions \in Nat
  BY <1>2, <1>3, <1>4 DEF PagesInv
<1>6. ScopeExists => ScopeExists'
  BY <1>2, <1>3 DEF ScopeExists, Found, Exists, InRange
<1>7. (PageInv => PageInv') /\ (CursorInv => CursorInv')
  BY <1>2 DEF PageInv, CursorInv, InRange, Start
<1> QED
  BY <1>2, <1>5, <1>6, <1>7 DEF PagesInv

\* The names are selected anew: all that is missing is among them.
LEMMA NextPageKeeps ==
  ASSUME PagesInv, NextPage
  PROVE  PagesInv'
<1> DEFINE cursor == listing.cursor
           names == SelectedNames(listing.asked, cursor)
<1>1. CursorInv /\ ScopeExists /\ UNCHANGED <<catalog, scope, returned>>
  BY DEF PagesInv, NextPage
<1>2. /\ cursor \in CursorRecord /\ cursor # NoCursor /\ cursor.partition >= 0
      /\ cursor.name \in Nat /\ cursor.partition \in Int
      /\ listing.asked = {} \/ cursor.name \in listing.asked
  BY <1>1, CursorAssumption, PagesTypes DEF CursorInv, InRange, CursorRecord
<1>3. listing' = [pc |-> "page", asked |-> listing.asked, limit |-> listing.limit,
                  cursor |-> cursor, names |-> names, remaining |-> PageLimit(listing.limit)]
  <2>1. ~InvalidCursor(listing.asked, cursor)
    BY <1>2 DEF InvalidCursor
  <2> QED
    BY <2>1 DEF NextPage, Request
<1>4. \A n : n \in names <=> /\ n \in IF listing.asked # {} THEN listing.asked
                                      ELSE DOMAIN catalog.topics
                             /\ n >= cursor.name
  BY <1>2 DEF SelectedNames
<1> HIDE DEF names
<1>5. names \subseteq Name /\ \A n \in names : n \in Nat /\ n >= cursor.name
  BY <1>4, PagesTypes
<1>6. \A n : Start(n)' = IF cursor.name = n THEN cursor.partition ELSE 0
  BY <1>2, <1>3 DEF Start
<1>7. ASSUME NEW x \in Range(returned), NEW n \in names
      PROVE  Before(x, n, Start(n)')
  <2>1. Before(x, cursor.name, cursor.partition) /\ x[1] \in Nat /\ x[2] \in Nat
    BY <1>1, PagesTypes DEF CursorInv
  <2>2. CASE n = cursor.name
    BY <1>6, <2>1, <2>2
  <2>3. CASE n # cursor.name
    BY <1>2, <1>5, <2>1, <2>3 DEF Before
  <2> QED
    BY <2>2, <2>3
<1>8. ASSUME NEW x \in scope \ Range(returned)
      PROVE  x[1] \in names /\ x[2] >= Start(x[1])'
  <2>1. ~Before(x, cursor.name, cursor.partition)
    BY <1>1 DEF CursorInv
  <2>2. x[1] \in DOMAIN catalog.topics /\ InRange(x[1]) /\ x[2] \in Nat
    BY <1>1 DEF ScopeExists, Found, Exists
  <2>3. x[1] \in Nat
    BY <2>2, PagesTypes
  <2>4. x[1] >= cursor.name /\ (x[1] = cursor.name => x[2] >= cursor.partition)
    BY <1>2, <2>1, <2>2, <2>3 DEF Before
  <2>5. x[1] \in names
    BY <1>4, <2>2, <2>4 DEF InRange
  <2> QED
    BY <1>6, <2>2, <2>4, <2>5
<1>9. \A n \in names : listing.asked = {} \/ n \in listing.asked
  BY <1>4
<1>10. PageInv'
  BY <1>1, <1>2, <1>3, <1>7, <1>8, <1>9 DEF PageInv, InRange
<1>11. ScopeExists'
  BY <1>1, <1>3 DEF ScopeExists, InRange
<1>12. listing' \in Listing
  <2>1. /\ "page" \in Phase /\ cursor \in CursorField /\ listing.asked \in SUBSET Name
        /\ names \in SUBSET Name /\ listing.limit \in Int /\ PageLimit(listing.limit) \in Nat
    BY <1>2, <1>5, PagesTypes, FieldValues
  <2> HIDE DEF cursor
  <2> QED
    BY <1>3, <2>1 DEF Listing
<1>13. /\ listing'.pc = "page" /\ listing'.limit = listing.limit
       /\ listing'.remaining = PageLimit(listing.limit)
  BY <1>3
<1>14. listing'.remaining <= PageLimit(listing'.limit)
  BY <1>13, PagesTypes
<1> QED
  BY <1>1, <1>10, <1>11, <1>12, <1>13, <1>14 DEF PagesInv

\* What a listing promises when it begins.
LEMMA ScopePairs ==
  ASSUME PagesInv, NEW asked, NEW cursor, cursor = NoCursor \/ cursor \in CursorRecord,
         cursor # NoCursor => cursor.partition >= 0,
         NEW x \in ScopeOf(asked, cursor)
  PROVE  /\ x = <<x[1], x[2]>> /\ x[2] \in Nat
         /\ Found(catalog, x[1]) /\ (asked = {} \/ x[1] \in asked)
         /\ x[2] < catalog.topics[x[1]].partitions
         /\ cursor # NoCursor => x[1] >= cursor.name
         /\ x[2] >= IF cursor # NoCursor /\ cursor.name = x[1] THEN cursor.partition ELSE 0
<1> DEFINE from(n) == IF cursor # NoCursor /\ cursor.name = n THEN cursor.partition ELSE 0
           to(n) == catalog.topics[n].partitions
<1>1. PICK n \in DOMAIN catalog.topics :
        /\ asked = {} \/ n \in asked
        /\ cursor = NoCursor \/ n >= cursor.name
        /\ x \in Pairs(n, from(n), to(n))
  BY DEF ScopeOf
<1>2. PICK p \in from(n)..(to(n) - 1) : x = <<n, p>>
  BY <1>1 DEF Pairs
<1>3. from(n) \in Nat
  BY DEF CursorRecord
<1>4. to(n) \in Nat
  BY DEF PagesInv
<1> HIDE DEF from, to
<1>5. p \in Nat /\ p >= from(n) /\ p < to(n)
  BY <1>3, <1>4
<1>6. Found(catalog, n)
  BY PagesTypes DEF Found, Exists
<1>7. x[1] = n /\ x[2] = p
  BY <1>2
<1> QED
  BY <1>1, <1>2, <1>5, <1>6, <1>7 DEF from, to

\* A listing begins.
LEMMA FirstPageKeeps ==
  ASSUME PagesInv, NEW asked \in Asked, NEW limit \in Limit, NEW cursor \in FirstCursor,
         FirstPage(asked, limit, cursor)
  PROVE  PagesInv'
<1> DEFINE names == SelectedNames(asked, cursor)
<1>1. scope' = ScopeOf(asked, cursor) /\ returned' = <<>> /\ UNCHANGED catalog
      /\ Request(asked, limit, cursor)
  BY DEF FirstPage
<1>2. /\ asked \subseteq Name /\ limit \in Int /\ cursor \in CursorRecord \cup {NoCursor}
      /\ PageLimit(limit) \in Nat
  BY AskedAssumption, LimitAssumption, CursorAssumption DEF PageLimit
<1>3. returned' \in Seq(Name \X Nat) /\ IsInjective(returned') /\ Range(returned') = {}
  BY <1>1, NothingReturned
<1>4. CASE InvalidCursor(asked, cursor)
  <2>1. listing' = [pc |-> "refused", asked |-> {}, limit |-> 1, cursor |-> NoCursor,
                    names |-> {}, remaining |-> 0]
    BY <1>1, <1>4, Zenon DEF Request, NoListing
  <2>2. listing' \in Listing
    BY <2>1, FieldValues DEF Listing
  <2>3. listing'.pc = "refused" /\ listing'.remaining <= PageLimit(listing'.limit)
    BY <2>1 DEF PageLimit
  <2> QED
    BY <1>1, <1>3, <2>2, <2>3 DEF PagesInv
<1>5. CASE ~InvalidCursor(asked, cursor)
  <2>1. listing' = [pc |-> "page", asked |-> asked, limit |-> limit, cursor |-> cursor,
                    names |-> names, remaining |-> PageLimit(limit)]
    BY <1>1, <1>5 DEF Request
  <2>2. \A n : n \in names <=> /\ n \in IF asked # {} THEN asked ELSE DOMAIN catalog.topics
                               /\ cursor = NoCursor \/ n >= cursor.name
    BY DEF SelectedNames
  <2> HIDE DEF names
  <2>3. names \subseteq Name
    BY <1>2, <2>2, PagesTypes
  <2>4. cursor # NoCursor => cursor.partition >= 0
    <3>1. cursor # NoCursor => cursor.partition \in Int
      BY <1>2 DEF CursorRecord
    <3> QED
      BY <1>5, <3>1 DEF InvalidCursor
  <2>5. \A n : Start(n)' = IF cursor # NoCursor /\ cursor.name = n THEN cursor.partition ELSE 0
    BY <2>1 DEF Start
  <2>6. ASSUME NEW x \in scope'
        PROVE  /\ x = <<x[1], x[2]>> /\ x[2] \in Nat
               /\ Found(catalog, x[1]) /\ (asked = {} \/ x[1] \in asked)
               /\ x[2] < catalog.topics[x[1]].partitions
               /\ cursor # NoCursor => x[1] >= cursor.name
               /\ x[2] >= Start(x[1])'
    BY <1>1, <1>2, <2>4, <2>5, ScopePairs
  <2>7. ScopeExists'
    BY <1>1, <2>1, <2>6 DEF ScopeExists, InRange, Found, Exists
  <2>8. ASSUME NEW x \in scope'
        PROVE  x[1] \in names
    BY <2>2, <2>6 DEF Found, Exists
  <2>9. \A n \in names : asked = {} \/ n \in asked
    BY <2>2
  <2>10. PageInv'
    BY <1>2, <1>3, <2>1, <2>4, <2>6, <2>8, <2>9 DEF PageInv, InRange
  <2>11. listing' \in Listing
    <3>1. "page" \in Phase /\ cursor \in CursorField
      BY <1>2, FieldValues
    <3> QED
      BY <1>2, <2>1, <2>3, <3>1 DEF Listing
  <2>12. listing'.pc = "page" /\ listing'.remaining <= PageLimit(listing'.limit)
    BY <1>2, <2>1
  <2> QED
    BY <1>1, <1>3, <2>7, <2>10, <2>11, <2>12 DEF PagesInv
<1> QED
  BY <1>4, <1>5

\* A name without a topic holds nothing that was promised.
LEMMA DescribeUnknownKeeps ==
  ASSUME PagesInv, DescribeUnknown
  PROVE  PagesInv'
<1>1. PICK name : name = Min(listing.names)
  OBVIOUS
<1>2. /\ listing.pc = "page" /\ ~Found(catalog, name)
      /\ listing' = [listing EXCEPT !.names = listing.names \ {name}]
      /\ UNCHANGED <<catalog, scope, returned>>
  BY <1>1 DEF DescribeUnknown, Later
<1>3. /\ listing'.pc = "page" /\ listing'.names = listing.names \ {name}
      /\ listing'.asked = listing.asked /\ listing'.cursor = listing.cursor
      /\ listing'.limit = listing.limit /\ listing'.remaining = listing.remaining
      /\ listing' \in Listing
  <2>1. listing \in Listing
    BY DEF PagesInv
  <2> QED
    BY <1>2, <2>1 DEF Listing
<1>4. \A n : Start(n)' = Start(n)
  BY <1>3 DEF Start
<1>5. PageInv /\ ScopeExists
  BY <1>2 DEF PagesInv
<1>6. \A x \in scope : x[1] # name
  BY <1>2, <1>5 DEF ScopeExists
<1>7. ScopeExists'
  BY <1>2, <1>3, <1>5 DEF ScopeExists, InRange
<1>8. PageInv'
  BY <1>2, <1>3, <1>4, <1>5, <1>6 DEF PageInv, InRange
<1> QED
  BY <1>2, <1>3, <1>7, <1>8 DEF PagesInv, PageLimit

\* A page starts a topic at one of its partitions.
LEMMA StartIsNat ==
  ASSUME PageInv, NEW n
  PROVE  Start(n) \in Nat
<1>1. PICK c : c = listing.cursor
  OBVIOUS
<1>2. c = NoCursor \/ (c \in CursorRecord /\ c.partition >= 0)
  BY <1>1 DEF PageInv
<1>3. c \in CursorRecord => c.partition \in Int
  BY DEF CursorRecord
<1>4. Start(n) = IF c # NoCursor /\ c.name = n THEN c.partition ELSE 0
  BY <1>1 DEF Start
<1> QED
  BY <1>2, <1>3, <1>4

\* What is missing after some partitions of the least name were returned.
LEMMA StillMissing ==
  ASSUME PagesInv, PageInv, ScopeExists, listing.names # {},
         NEW name, name = Min(listing.names), NEW take \in Nat, Start(name) \in Nat,
         NEW done, done = Range(returned) \cup Pairs(name, Start(name), Start(name) + take),
         NEW x \in scope \ done
  PROVE  /\ x[1] \in Nat /\ x[2] \in Nat /\ x[1] \in listing.names
         /\ x[2] < catalog.topics[x[1]].partitions
         /\ x[1] # name => x[1] > name /\ x[2] >= Start(x[1])
         /\ x[1] = name => x[2] >= Start(name) + take
<1>1. /\ x[1] \in listing.names /\ x[2] >= Start(x[1])
      /\ x = <<x[1], x[2]>> /\ x[2] \in Nat /\ x[2] < catalog.topics[x[1]].partitions
  BY DEF PageInv, ScopeExists
<1>2. x[1] \in Nat /\ (x[1] # name => x[1] > name)
  BY <1>1, LeastName, PagesTypes
<1>3. ASSUME x[1] = name, x[2] < Start(name) + take
      PROVE  FALSE
  <2>1. x[2] \in Start(name)..((Start(name) + take) - 1)
    BY <1>1, <1>3
  <2>2. <<name, x[2]>> \in Pairs(name, Start(name), Start(name) + take)
    BY <2>1 DEF Pairs
  <2> QED
    BY <1>1, <1>3, <2>2
<1> QED
  BY <1>1, <1>2, <1>3

\* What is returned after that comes before the rest of the topic.
LEMMA ReturnedBefore ==
  ASSUME PagesInv, PageInv, listing.names # {},
         NEW name, name = Min(listing.names), NEW take \in Nat, Start(name) \in Nat,
         NEW x \in Range(returned) \cup Pairs(name, Start(name), Start(name) + take)
  PROVE  /\ Before(x, name, Start(name) + take)
         /\ \A n \in listing.names \ {name} : \A p \in Nat : Before(x, n, p)
<1>1. name \in listing.names /\ name \in Nat /\ \A n \in listing.names \ {name} : n \in Nat /\ n > name
  BY LeastName, PagesTypes
<1>2. x[1] \in Nat /\ x[2] \in Nat /\ x[1] <= name /\ (x[1] = name => x[2] < Start(name) + take)
  <2>1. CASE x \in Range(returned)
    <3>1. x[1] \in Nat /\ x[2] \in Nat /\ Before(x, name, Start(name))
      BY <1>1, <2>1, PagesTypes DEF PageInv
    <3> QED
      BY <1>1, <3>1 DEF Before
  <2>2. CASE x \in Pairs(name, Start(name), Start(name) + take)
    <3>1. PICK p \in Start(name)..((Start(name) + take) - 1) : x = <<name, p>>
      BY <2>2 DEF Pairs
    <3> QED
      BY <1>1, <3>1
  <2> QED
    BY <2>1, <2>2
<1> QED
  BY <1>1, <1>2 DEF Before

\* One round of the loop: the page goes on, or ends with a cursor at the first
\* partition that it does not hold.
LEMMA DescribeTopicKeeps ==
  ASSUME PagesInv, DescribeTopic
  PROVE  PagesInv'
<1>1. /\ listing.pc = "page" /\ listing.names # {} /\ Found(catalog, Min(listing.names))
      /\ UNCHANGED <<catalog, scope>> /\ PageInv /\ ScopeExists
  BY Zenon DEF DescribeTopic, PagesInv
<1>2. PICK name : name = Min(listing.names)
  OBVIOUS
<1>3. PICK start, end : start = Start(name) /\ end = catalog.topics[name].partitions
  OBVIOUS
<1>4. PICK take : take = Take(IF end > start THEN end - start ELSE 0)
  OBVIOUS
<1>5. /\ returned' = returned \o SuccessTopic(name, start, take)
      /\ listing' = AfterTopic(name, start + take, end, listing.remaining - take)
  BY <1>2, <1>3, <1>4, Zenon DEF DescribeTopic
<1>6. /\ name \in listing.names /\ name \in Name /\ name \in Nat
      /\ \A n \in listing.names \ {name} : n \in Nat /\ n > name
  BY <1>1, <1>2, LeastName, PagesTypes
<1>7. start \in Nat /\ end \in Nat
  <2>1. start \in Nat
    BY <1>1, <1>3, StartIsNat
  <2>2. name \in DOMAIN catalog.topics
    BY <1>1, <1>2 DEF Found, Exists
  <2> QED
    BY <1>3, <2>1, <2>2 DEF PagesInv
<1>8. /\ listing.remaining \in Nat /\ PageLimit(listing.limit) \in Nat
      /\ listing.remaining <= PageLimit(listing.limit) /\ listing \in Listing
  <2>1. listing \in Listing /\ listing.remaining <= PageLimit(listing.limit)
    BY DEF PagesInv
  <2>2. listing.remaining \in Nat
    BY <2>1 DEF Listing
  <2> QED
    BY <2>1, <2>2, PagesTypes
<1>9. take \in Nat /\ take <= listing.remaining
  BY <1>4, <1>7, <1>8 DEF Take
<1>10. PICK left \in Nat : left = listing.remaining - take
  BY <1>8, <1>9
<1>11. left <= PageLimit(listing.limit)
  BY <1>8, <1>9, <1>10
<1>12. /\ returned' \in Seq(Name \X Nat) /\ IsInjective(returned')
       /\ Range(returned') = Range(returned) \cup Pairs(name, start, start + take)
  <2>1. Held(returned)
    BY DEF PagesInv, Held
  <2>2. AllBefore(returned, name, start)
    BY <1>1, <1>3, <1>6 DEF PageInv, AllBefore
  <2>3. PICK s, new : s = returned /\ new = returned'
    OBVIOUS
  <2>4. /\ Held(s) /\ AllBefore(s, name, start) /\ new = s \o SuccessTopic(name, start, take)
        /\ name \in Name /\ start \in Nat /\ take \in Nat
    BY <1>5, <1>6, <1>7, <1>9, <2>1, <2>2, <2>3
  <2>5. Grown(s, name, start, take, s \o SuccessTopic(name, start, take))
    BY <2>4, ReturnMore, Zenon
  <2>6. Grown(s, name, start, take, new)
    BY <2>4, <2>5, Zenon
  <2> QED
    BY <2>3, <2>6 DEF Grown, Held
<1>13. ASSUME NEW x \in Range(returned')
       PROVE  /\ Before(x, name, start + take)
              /\ \A n \in listing.names \ {name} : \A p \in Nat : Before(x, n, p)
  BY <1>1, <1>2, <1>3, <1>7, <1>9, <1>12, ReturnedBefore, SMTT(30)
<1>14. ASSUME NEW x \in scope' \ Range(returned')
       PROVE  /\ x[1] \in Nat /\ x[2] \in Nat /\ x[1] \in listing.names
              /\ x[2] < catalog.topics[x[1]].partitions
              /\ x[1] # name => x[1] > name /\ x[2] >= Start(x[1])
              /\ x[1] = name => x[2] >= start + take
  BY <1>1, <1>2, <1>3, <1>7, <1>9, <1>12, StillMissing, SMTT(30)
<1>15. CASE start + take < end
  <2>1. listing' = [listing EXCEPT !.pc = "cursor",
                                   !.cursor = [name |-> name, partition |-> start + take]]
    BY <1>5, <1>7, <1>9, <1>15 DEF AfterTopic
  <2>2. PICK c \in CursorRecord : c = [name |-> name, partition |-> start + take]
    <3>1. [name |-> name, partition |-> start + take] \in CursorRecord
      BY <1>6, <1>7, <1>9 DEF CursorRecord
    <3> QED
      BY <3>1, Zenon
  <2>3. /\ listing' \in Listing /\ listing'.pc = "cursor" /\ listing'.cursor = c
        /\ listing'.asked = listing.asked /\ listing'.limit = listing.limit
        /\ listing'.remaining = listing.remaining
    <3>1. "cursor" \in Phase /\ c \in CursorField
      BY FieldValues
    <3> QED
      BY <1>8, <2>1, <2>2, <3>1, Zenon DEF Listing
  <2>4. c.name = name /\ c.partition = start + take /\ c.partition >= 0
    BY <1>7, <1>9, <2>2
  <2>5. ASSUME NEW x \in scope' \ Range(returned')
        PROVE  ~Before(x, name, start + take)
    BY <1>6, <1>7, <1>9, <1>14 DEF Before
  <2>6. InRange(name)
    BY <1>1, <1>6 DEF PageInv
  <2>7. CursorInv'
    BY <1>13, <2>3, <2>4, <2>5, <2>6 DEF CursorInv, InRange
  <2>8. ScopeExists'
    BY <1>1, <2>3 DEF ScopeExists, InRange
  <2> QED
    BY <1>1, <1>8, <1>12, <2>3, <2>7, <2>8 DEF PagesInv
<1>16. CASE ~(start + take < end)
  <2>1. start + take >= end
    BY <1>7, <1>9, <1>16
  <2>2. ASSUME NEW x \in scope' \ Range(returned')
        PROVE  x[1] \in listing.names \ {name} /\ x[1] > name
    BY <1>3, <1>7, <1>9, <1>14, <2>1, SMTT(30)
  <2>3. CASE left = 0 /\ listing.names \ {name} # {}
    <3>1. PICK next : next = Min(listing.names \ {name})
      OBVIOUS
    <3>2. /\ next \in listing.names \ {name} /\ next \in Name /\ next \in Nat
          /\ \A n \in listing.names \ {name} : n # next => next < n
      BY <2>3, <3>1, LeastName, PagesTypes
    <3>3. listing' = [listing EXCEPT !.pc = "cursor",
                                     !.cursor = [name |-> next, partition |-> 0]]
      BY <1>5, <1>10, <1>16, <2>1, <2>3, <3>1 DEF AfterTopic, Later
    <3>4. PICK c \in CursorRecord : c = [name |-> next, partition |-> 0]
      <4>1. [name |-> next, partition |-> 0] \in CursorRecord
        BY <3>2 DEF CursorRecord
      <4> QED
        BY <4>1, Zenon
    <3>5. /\ listing' \in Listing /\ listing'.pc = "cursor" /\ listing'.cursor = c
          /\ listing'.asked = listing.asked /\ listing'.limit = listing.limit
          /\ listing'.remaining = listing.remaining /\ c.name = next /\ c.partition = 0
      <4>1. "cursor" \in Phase /\ c \in CursorField
        BY FieldValues
      <4> QED
        BY <1>8, <3>3, <3>4, <4>1, Zenon DEF Listing
    <3>6. \A x \in Range(returned') : Before(x, next, 0)
      BY <1>13, <3>2
    <3>7. ASSUME NEW x \in scope' \ Range(returned')
          PROVE  ~Before(x, next, 0)
      BY <1>14, <2>2, <3>2 DEF Before
    <3>8. InRange(next)
      BY <1>1, <3>2 DEF PageInv
    <3>9. CursorInv'
      BY <3>5, <3>6, <3>7, <3>8 DEF CursorInv, InRange
    <3>10. ScopeExists'
      BY <1>1, <3>5, SMTT(30) DEF ScopeExists, InRange
    <3> QED
      BY <1>1, <1>8, <1>12, <3>5, <3>9, <3>10 DEF PagesInv
  <2>4. CASE ~(left = 0 /\ listing.names \ {name} # {})
    <3>1. listing' = [listing EXCEPT !.names = listing.names \ {name}, !.remaining = left]
      BY <1>5, <1>10, <1>16, <2>4 DEF AfterTopic, Later
    <3>2. /\ listing' \in Listing /\ listing'.pc = "page"
          /\ listing'.names = listing.names \ {name}
          /\ listing'.asked = listing.asked /\ listing'.limit = listing.limit
          /\ listing'.cursor = listing.cursor /\ listing'.remaining = left
      BY <1>1, <1>8, <3>1, Zenon DEF Listing
    <3>3. \A n : Start(n)' = Start(n)
      BY <3>2 DEF Start
    <3>4. \A n : Start(n) \in Nat
      BY <1>1, StartIsNat, SMTT(30)
    <3>5. PageInv'
      BY <1>1, <1>13, <1>14, <2>2, <3>2, <3>3, <3>4 DEF PageInv, InRange
    <3>6. ScopeExists'
      BY <1>1, <3>2 DEF ScopeExists, InRange
    <3> QED
      BY <1>1, <1>11, <1>12, <3>2, <3>5, <3>6 DEF PagesInv
  <2> QED
    BY <2>3, <2>4
<1> QED
  BY <1>15, <1>16

\* With no name left to visit nothing is missing.
LEMMA LastPageKeeps ==
  ASSUME PagesInv, LastPage
  PROVE  PagesInv'
<1>1. /\ listing.pc = "page" /\ listing.names = {}
      /\ listing' = [listing EXCEPT !.pc = "done"] /\ UNCHANGED <<catalog, scope, returned>>
  BY DEF LastPage
<1>2. scope \subseteq Range(returned)
  BY <1>1 DEF PagesInv, PageInv
<1>3. /\ listing' \in Listing
      /\ listing'.pc = "done" /\ listing'.limit = listing.limit
      /\ listing'.remaining = listing.remaining
  <2>1. listing \in Listing
    BY DEF PagesInv
  <2> QED
    BY <1>1, <2>1, FieldValues DEF Listing
<1> QED
  BY <1>1, <1>2, <1>3 DEF PagesInv, PageLimit

\* The inductive invariant holds.
LEMMA PagesInvariance == Spec => []PagesInv
<1>1. Init => PagesInv
  <2> SUFFICES ASSUME Init PROVE PagesInv
    OBVIOUS
  <2>1. /\ catalog.topics = [n \in {} |-> n] /\ returned = <<>>
        /\ listing = [pc |-> "idle", asked |-> {}, limit |-> 1, cursor |-> NoCursor,
                      names |-> {}, remaining |-> 0]
    BY DEF Init, NewCatalog, NoListing
  <2>2. returned \in Seq(Name \X Nat) /\ IsInjective(returned)
    BY <2>1, NothingReturned
  <2>3. DOMAIN catalog.topics = {}
    BY <2>1
  <2>4. /\ listing \in Listing
        /\ listing.pc = "idle" /\ listing.remaining <= PageLimit(listing.limit)
    <3>1. listing \in Listing
      BY <2>1, FieldValues DEF Listing
    <3>2. PageLimit(1) = 1
      BY DEF PageLimit
    <3> QED
      BY <2>1, <3>1, <3>2
  <2> QED
    BY <2>2, <2>3, <2>4 DEF PagesInv
<1>2. PagesInv /\ [Next]_vars => PagesInv'
  <2> SUFFICES ASSUME PagesInv, [Next]_vars PROVE PagesInv'
    OBVIOUS
  <2>1. CASE UNCHANGED vars
    BY <2>1 DEF vars, PagesInv, PageInv, CursorInv, ScopeExists, InRange, Start
  <2>2. CASE \E asked \in Asked, limit \in Limit, cursor \in FirstCursor :
               FirstPage(asked, limit, cursor)
    BY <2>2, FirstPageKeeps
  <2>3. CASE NextPage
    BY <2>3, NextPageKeeps
  <2>4. CASE DescribeUnknown
    BY <2>4, DescribeUnknownKeeps
  <2>5. CASE DescribeTopic
    BY <2>5, DescribeTopicKeeps
  <2>6. CASE LastPage
    BY <2>6, LastPageKeeps
  <2>7. CASE \E name \in Name, partitions \in PartitionCounts : Create(name, partitions)
    BY <2>7, CreateKeepsPages
  <2> QED
    BY <2>1, <2>2, <2>3, <2>4, <2>5, <2>6, <2>7 DEF Next, List
<1> QED
  BY <1>1, <1>2, PTL DEF Spec

\* For any topics, limits and cursors, and however many topics are created
\* meanwhile: following the cursors of DescribeTopicPartitions returns every
\* partition that was there at the first page, and none twice; every cursor
\* that the broker hands out is one that selected_names accepts.
THEOREM PagesListOnce == Spec => []ListedOnce
<1>1. PagesInv => ListedOnce
  <2> SUFFICES ASSUME PagesInv PROVE ListedOnce
    BY SMTT(30)
  <2>1. NoneTwice /\ NoneMissed
    BY DEF PagesInv, NoneTwice, NoneMissed
  <2>2. listing.pc = "cursor" => ~InvalidCursor(listing.asked, listing.cursor)
    <3> SUFFICES ASSUME CursorInv
                 PROVE  ~InvalidCursor(listing.asked, listing.cursor)
      BY DEF PagesInv
    <3>1. PICK c, asked : c = listing.cursor /\ asked = listing.asked
      OBVIOUS
    <3>2. c \in CursorRecord /\ c.partition >= 0 /\ (asked = {} \/ c.name \in asked)
      BY <3>1 DEF CursorInv, InRange
    <3>3. c.partition \in Int
      BY <3>2 DEF CursorRecord
    <3>4. ~InvalidCursor(asked, c)
      BY <3>2, <3>3 DEF InvalidCursor
    <3> QED
      BY <3>1, <3>4
  <2>3. /\ listing.pc \in {"idle", "page", "cursor", "done", "refused"}
        /\ listing.names \subseteq Name /\ listing.remaining \in Nat
        /\ listing.remaining <= PageLimit(listing.limit)
    <3>1. listing \in Listing /\ listing.remaining <= PageLimit(listing.limit)
      BY DEF PagesInv
    <3> QED
      BY <3>1 DEF Listing, Phase
  <2>4. listing.remaining \in 0..PageLimit(listing.limit)
    BY <2>3, PagesTypes
  <2> QED
    BY <2>1, <2>2, <2>3, <2>4 DEF ListedOnce, TypeOK
<1> QED
  BY <1>1, PagesInvariance, PTL

----------------------------------------------------------------------------
(* The schema registry *)

\* What clients were told is where the store has it.
ToldIsStored ==
  \A r \in told :
    /\ r.version \in 1..Len(subjects[r.subject])
    /\ subjects[r.subject][r.version] = r

\* The inductive invariant.
SchemaInv == SchemaTypeOK /\ IdsAgree /\ VersionsAgree /\ ToldIsStored

\* A version of a subject is a registered schema.
LEMMA VersionType ==
  ASSUME SchemaTypeOK, NEW s \in Subject, NEW v \in 1..Len(subjects[s])
  PROVE  subjects[s][v] \in RegisteredSchema
BY DEF SchemaTypeOK

\* `find` fails only if no version of the subject has the schema.
LEMMA LookupFails ==
  ASSUME SchemaTypeOK, NEW s \in Subject, NEW t, Lookup(s, t) = NotFound,
         VersionsAgree,
         NEW v \in 1..Len(subjects[s])
  PROVE  subjects[s][v].schema # t
<1> SUFFICES ASSUME subjects[s][v].schema = t
             PROVE  FALSE
  OBVIOUS
<1> DEFINE Fits(w) == /\ w \in 1..Len(subjects[s])
                      /\ subjects[s][w].schema = t
                      /\ \A x \in 1..(w - 1) : ~(subjects[s][x].schema = t)
<1>1. Fits(v)
  <2>1. subjects[s] \in Seq(RegisteredSchema)
    BY DEF SchemaTypeOK
  <2> QED
    BY <2>1 DEF VersionsAgree
<1>2. PICK w \in 1..Len(subjects[s]) : Lookup(s, t) = subjects[s][w]
  BY <1>1, Zenon DEF Lookup, First
<1> QED
  BY <1>2, VersionType, NotFoundAssumption

\* `find` returns the version of the subject that has the schema.
LEMMA LookupFinds ==
  ASSUME SchemaTypeOK, VersionsAgree, NEW s \in Subject, NEW v \in 1..Len(subjects[s])
  PROVE  Lookup(s, subjects[s][v].schema) = subjects[s][v]
<1> DEFINE t == subjects[s][v].schema
           Fits(w) == /\ subjects[s][w].schema = t
                      /\ \A x \in 1..(w - 1) : ~(subjects[s][x].schema = t)
<1>0. Len(subjects[s]) \in Nat
  BY DEF SchemaTypeOK
<1>1. Fits(v)
  BY <1>0 DEF VersionsAgree
<1>2. \A w \in 1..Len(subjects[s]) : Fits(w) => w = v
  BY <1>0, <1>1
<1>3. (CHOOSE w \in 1..Len(subjects[s]) : Fits(w)) = v
  BY <1>1, <1>2
<1> QED
  BY <1>1, <1>3, Zenon DEF Lookup, First

\* A step that gives the schema the id `id`, in the indexes already or by
\* NewId, and adds the version, keeps the store's versions in order.
LEMMA AddVersionKeeps ==
  ASSUME SchemaInv, NEW s \in Subject, NEW t \in ValidSchema,
         NEW id \in 1..MaxSchemaId,
         Lookup(s, t) = NotFound,
         AddVersion(s, t, id),
         next_schema_id' \in 1..MaxSchemaId,
         schemas_by_text' \in [DOMAIN schemas_by_text' -> 1..MaxSchemaId],
         DOMAIN schemas_by_text' \subseteq ValidSchema,
         schemas_by_id' \in [DOMAIN schemas_by_id' -> ValidSchema],
         t \in DOMAIN schemas_by_text' /\ schemas_by_text'[t] = id,
         \A u \in DOMAIN schemas_by_text :
           u \in DOMAIN schemas_by_text' /\ schemas_by_text'[u] = schemas_by_text[u]
  PROVE  SchemaTypeOK' /\ VersionsAgree' /\ ToldIsStored'
<1> DEFINE reg == [subject |-> s, version |-> Len(subjects[s]) + 1, id |-> id, schema |-> t]
<1>1. /\ SchemaTypeOK /\ VersionsAgree /\ ToldIsStored
      /\ Len(subjects[s]) \in Nat
      /\ t \in Schema
  BY SchemaAssumption DEF SchemaInv, SchemaTypeOK
<1>2. reg \in RegisteredSchema
  BY <1>1 DEF RegisteredSchema
<1>3. /\ subjects' = [subjects EXCEPT ![s] = Append(subjects[s], reg)]
      /\ told' = told \cup {reg}
  BY DEF AddVersion, NextVersion
<1>4. /\ reg.subject = s /\ reg.version = Len(subjects[s]) + 1
      /\ reg.id = id /\ reg.schema = t
  OBVIOUS
<1> HIDE DEF reg
<1>5. SchemaTypeOK'
  BY <1>1, <1>2, <1>3 DEF SchemaTypeOK
<1>6. \A r \in Subject :
        /\ subjects[r] \in Seq(RegisteredSchema)
        /\ Len(subjects[r]) \in Nat
        /\ r # s => subjects'[r] = subjects[r]
  BY <1>1, <1>3 DEF SchemaTypeOK
<1>7. /\ Len(subjects'[s]) = Len(subjects[s]) + 1
      /\ subjects'[s][Len(subjects[s]) + 1] = reg
      /\ \A v \in 1..Len(subjects[s]) : subjects'[s][v] = subjects[s][v]
  <2>1. subjects'[s] = Append(subjects[s], reg)
    BY <1>1, <1>3 DEF SchemaTypeOK
  <2> QED
    BY <2>1, <1>2, <1>6
<1>8. \A v \in 1..Len(subjects[s]) : subjects[s][v].schema # t
  BY <1>1, LookupFails, SMTT(30)
<1>9. VersionsAgree'
  <2> SUFFICES ASSUME NEW r \in Subject, NEW v \in 1..Len(subjects'[r])
               PROVE  /\ subjects'[r][v].subject = r /\ subjects'[r][v].version = v
                      /\ subjects'[r][v].schema \in DOMAIN schemas_by_text'
                      /\ subjects'[r][v].id = schemas_by_text'[subjects'[r][v].schema]
                      /\ \A w \in 1..(v - 1) :
                           subjects'[r][w].schema # subjects'[r][v].schema
    BY DEF VersionsAgree
  <2>1. CASE r # s
    <3>1. subjects'[r] = subjects[r]
      BY <2>1, <1>6
    <3>2. v \in 1..Len(subjects[r])
      BY <3>1
    <3>3. /\ subjects[r][v].subject = r /\ subjects[r][v].version = v
          /\ subjects[r][v].schema \in DOMAIN schemas_by_text
          /\ subjects[r][v].id = schemas_by_text[subjects[r][v].schema]
          /\ \A w \in 1..(v - 1) : subjects[r][w].schema # subjects[r][v].schema
      BY <1>1, <3>2 DEF VersionsAgree
    <3>4. QED
      BY <1>1, <3>1, <3>3
  <2>2. CASE r = s /\ v = Len(subjects[s]) + 1
    BY <2>2, <1>1, <1>4, <1>7, <1>8
  <2>3. CASE r = s /\ v \in 1..Len(subjects[s])
    <3>1. /\ subjects[s][v].subject = s /\ subjects[s][v].version = v
          /\ subjects[s][v].schema \in DOMAIN schemas_by_text
          /\ subjects[s][v].id = schemas_by_text[subjects[s][v].schema]
          /\ \A w \in 1..(v - 1) : subjects[s][w].schema # subjects[s][v].schema
      BY <2>3, <1>1 DEF VersionsAgree
    <3>2. /\ subjects'[s][v] = subjects[s][v]
          /\ \A w \in 1..(v - 1) : subjects'[s][w] = subjects[s][w]
      BY <2>3, <1>1, <1>7
    <3> QED
      BY <2>3, <3>1, <3>2
  <2> QED
    BY <2>1, <2>2, <2>3, <1>1, <1>7
<1>10. ToldIsStored'
  <2> SUFFICES ASSUME NEW r \in told'
               PROVE  /\ r.version \in 1..Len(subjects'[r.subject])
                      /\ subjects'[r.subject][r.version] = r
    BY DEF ToldIsStored
  <2>1. CASE r = reg
    BY <2>1, <1>1, <1>4, <1>7
  <2>2. CASE r \in told
    <3>1. r.subject \in Subject
      BY <2>2, <1>1 DEF SchemaTypeOK, RegisteredSchema
    <3> QED
      BY <2>2, <3>1, <1>1, <1>6, <1>7 DEF ToldIsStored
  <2> QED
    BY <2>1, <2>2, <1>3
<1> QED
  BY <1>5, <1>9, <1>10

\* Every registration keeps the invariant.
LEMMA RegisterKeeps ==
  ASSUME SchemaInv, NEW s \in Subject, NEW t \in Schema, Register(s, t)
  PROVE  SchemaInv'
<1>1. t \in ValidSchema
  BY DEF Register, Validate
<1>2. CASE RegisterAgain(s, t)
  <2>1. PICK v \in 1..Len(subjects[s]) : Lookup(s, t) = subjects[s][v]
    <3> DEFINE Fits(w) == /\ subjects[s][w].schema = t
                          /\ \A x \in 1..(w - 1) : ~(subjects[s][x].schema = t)
    <3>1. PICK w \in 1..Len(subjects[s]) : subjects[s][w].schema = t
      BY <1>2, Zenon DEF RegisterAgain, Lookup, First
    <3>2. Fits(w)
      <4>1. Len(subjects[s]) \in Nat /\ VersionsAgree
        BY DEF SchemaInv, SchemaTypeOK
      <4> QED
        BY <3>1, <4>1 DEF VersionsAgree
    <3> QED
      BY <3>1, <3>2, Zenon DEF Lookup, First
  <2>2. Lookup(s, t) \in RegisteredSchema
    BY <2>1, VersionType DEF SchemaInv
  <2>3. /\ told' = told \cup {subjects[s][v]}
        /\ UNCHANGED <<next_schema_id, schemas_by_text, schemas_by_id, subjects>>
    BY <1>2, <2>1, SMTT(30) DEF RegisterAgain
  <2>4. subjects[s][v].subject = s /\ subjects[s][v].version = v
    BY SMTT(30) DEF SchemaInv, VersionsAgree
  <2> QED
    BY <2>1, <2>2, <2>3, <2>4, SMTT(30)
    DEF SchemaInv, SchemaTypeOK, IdsAgree, VersionsAgree, ToldIsStored
<1>3. CASE RegisterShared(s, t)
  <2>1. schemas_by_text[t] \in 1..MaxSchemaId
    BY <1>3 DEF RegisterShared, SchemaInv, SchemaTypeOK
  <2>2. UNCHANGED <<next_schema_id, schemas_by_text, schemas_by_id>>
    BY <1>3 DEF RegisterShared
  <2>3. SchemaTypeOK' /\ VersionsAgree' /\ ToldIsStored'
    BY <1>1, <1>3, <2>1, <2>2, AddVersionKeeps DEF RegisterShared, SchemaInv, SchemaTypeOK
  <2> QED
    BY <2>2, <2>3 DEF SchemaInv, IdsAgree
<1>4. CASE RegisterNew(s, t)
  <2>1. /\ SchemaTypeOK /\ IdsAgree
        /\ next_schema_id \in 1..MaxSchemaId /\ next_schema_id < MaxSchemaId
        /\ next_schema_id + 1 \in 1..MaxSchemaId
        /\ t \notin DOMAIN schemas_by_text
    BY <1>4, MaxAssumption DEF RegisterNew, SchemaInv, SchemaTypeOK
  <2>2. NewId(t) /\ AddVersion(s, t, next_schema_id) /\ Lookup(s, t) = NotFound
    BY <1>4, SMTT(30) DEF RegisterNew
  <2>3. /\ next_schema_id' = next_schema_id + 1
        /\ DOMAIN schemas_by_text' = DOMAIN schemas_by_text \cup {t}
        /\ schemas_by_text'[t] = next_schema_id
        /\ \A u \in DOMAIN schemas_by_text : schemas_by_text'[u] = schemas_by_text[u]
        /\ DOMAIN schemas_by_id' = DOMAIN schemas_by_id \cup {next_schema_id}
        /\ schemas_by_id'[next_schema_id] = t
        /\ \A i \in DOMAIN schemas_by_id :
             i # next_schema_id => schemas_by_id'[i] = schemas_by_id[i]
    BY <2>1, <2>2 DEF NewId
  <2>4. /\ schemas_by_text' \in [DOMAIN schemas_by_text' -> 1..MaxSchemaId]
        /\ schemas_by_id' \in [DOMAIN schemas_by_id' -> ValidSchema]
    BY <1>1, <2>1, <2>2 DEF NewId, SchemaTypeOK
  <2>5. SchemaTypeOK' /\ VersionsAgree' /\ ToldIsStored'
    <3>1. DOMAIN schemas_by_text' \subseteq ValidSchema
      BY <1>1, <2>1, <2>3 DEF SchemaTypeOK
    <3> QED
      BY <1>1, <2>1, <2>2, <2>3, <2>4, <3>1, AddVersionKeeps
  <2>6. IdsAgree'
    BY <2>1, <2>3 DEF IdsAgree
  <2> QED
    BY <2>5, <2>6 DEF SchemaInv
<1> QED
  BY <1>2, <1>3, <1>4 DEF Register

\* The invariant holds in every state the registry reaches.
THEOREM SchemaInvariance == SchemaSpec => []SchemaInv
<1>1. SchemaInit => SchemaInv
  BY MaxAssumption
  DEF SchemaInit, SchemaInv, SchemaTypeOK, IdsAgree, VersionsAgree, ToldIsStored
<1>2. SchemaInv /\ [SchemaNext]_schema_vars => SchemaInv'
  <2> SUFFICES ASSUME SchemaInv, [SchemaNext]_schema_vars
               PROVE  SchemaInv'
    OBVIOUS
  <2>1. CASE SchemaNext
    BY <2>1, RegisterKeeps DEF SchemaNext
  <2>2. CASE UNCHANGED schema_vars
    BY <2>2 DEF schema_vars, SchemaInv, SchemaTypeOK, IdsAgree, VersionsAgree, ToldIsStored
  <2> QED
    BY <2>1, <2>2
<1> QED
  BY <1>1, <1>2, PTL DEF SchemaSpec

\* register keeps the two id indexes each other's inverse, for any number of
\* schemas and up to the last id; versions stay gapless, free of repetition,
\* and true to the id of their schema.
THEOREM StoreAlwaysAgrees == SchemaSpec => []StoreAgrees
BY SchemaInvariance, PTL DEF SchemaInv, StoreAgrees

\* Where the store has what a client was told.
LEMMA ToldFacts ==
  ASSUME SchemaInv, NEW r \in told
  PROVE  /\ r.subject \in Subject
         /\ Len(subjects[r.subject]) \in Nat
         /\ r.version \in 1..Len(subjects[r.subject])
         /\ subjects[r.subject][r.version] = r
         /\ r.schema \in DOMAIN schemas_by_text
         /\ r.id = schemas_by_text[r.schema]
<1>1. r.subject \in Subject
  BY DEF SchemaInv, SchemaTypeOK, RegisteredSchema
<1>2. Len(subjects[r.subject]) \in Nat
  BY <1>1 DEF SchemaInv, SchemaTypeOK
<1>3. r.version \in 1..Len(subjects[r.subject]) /\ subjects[r.subject][r.version] = r
  BY Zenon DEF SchemaInv, ToldIsStored
<1>4. r.schema \in DOMAIN schemas_by_text /\ r.id = schemas_by_text[r.schema]
  BY <1>1, <1>3 DEF SchemaInv, VersionsAgree
<1> QED
  BY <1>1, <1>2, <1>3, <1>4

\* What register told one client never contradicts what it told another.
THEOREM ToldAlwaysAgrees == SchemaSpec => []ToldAgree
<1>1. SchemaInv => ToldAgree
  <2> SUFFICES ASSUME SchemaInv, NEW r \in told, NEW q \in told
               PROVE  /\ (r.id = q.id) <=> (r.schema = q.schema)
                      /\ r.subject = q.subject =>
                           ((r.version = q.version) <=> (r.schema = q.schema))
    BY DEF ToldAgree
  <2>1. \A x \in told :
          /\ x.subject \in Subject
          /\ Len(subjects[x.subject]) \in Nat
          /\ x.version \in 1..Len(subjects[x.subject])
          /\ subjects[x.subject][x.version] = x
          /\ x.schema \in DOMAIN schemas_by_text
          /\ x.id = schemas_by_text[x.schema]
    BY ToldFacts
  <2>2. (r.id = q.id) <=> (r.schema = q.schema)
    BY <2>1 DEF SchemaInv, IdsAgree
  <2>3. r.subject = q.subject => ((r.version = q.version) <=> (r.schema = q.schema))
    <3>1. \A w \in 1..(r.version - 1) :
            subjects[r.subject][w].schema # subjects[r.subject][r.version].schema
      BY <2>1 DEF SchemaInv, VersionsAgree
    <3>2. \A w \in 1..(q.version - 1) :
            subjects[q.subject][w].schema # subjects[q.subject][q.version].schema
      BY <2>1 DEF SchemaInv, VersionsAgree
    <3> QED
      BY <2>1, <3>1, <3>2
  <2> QED
    BY <2>2, <2>3
<1> QED
  BY <1>1, SchemaInvariance, PTL

\* Whatever was registered since, each read gives a client what its
\* registration told it.
THEOREM ReadsAlwaysReturnTold == SchemaSpec => []ReadsReturnTold
<1>1. SchemaInv => ReadsReturnTold
  <2> SUFFICES ASSUME SchemaInv, NEW r \in told
               PROVE  /\ Lookup(r.subject, r.schema) = r
                      /\ Version(r.subject, r.version) = r
                      /\ SchemaById(r.id) = r.schema
                      /\ r \in SchemaVersionsById(r.id)
                      /\ Latest(r.subject).version >= r.version
    BY DEF ReadsReturnTold
  <2> DEFINE s == r.subject
             n == r.version
  <2>1. /\ SchemaTypeOK /\ IdsAgree /\ VersionsAgree
        /\ s \in Subject /\ Len(subjects[s]) \in Nat
        /\ n \in 1..Len(subjects[s]) /\ subjects[s][n] = r
    BY ToldFacts DEF SchemaInv
  <2>2. \A v \in 1..Len(subjects[s]) : subjects[s][v].version = v
    BY <2>1 DEF VersionsAgree
  <2>3. r.schema \in DOMAIN schemas_by_text /\ r.id = schemas_by_text[r.schema]
    BY <2>1 DEF VersionsAgree
  <2>4. Lookup(s, r.schema) = r
    BY <2>1, LookupFinds
  <2>5. Version(s, n) = r
    <3> DEFINE Fits(w) == /\ subjects[s][w].version = n
                          /\ \A x \in 1..(w - 1) : ~(subjects[s][x].version = n)
    <3>1. Fits(n) /\ \A w \in 1..Len(subjects[s]) : Fits(w) => w = n
      <4>1. subjects[s][n].version = n
        BY <2>1
      <4>2. \A x \in 1..(n - 1) : subjects[s][x].version # n
        BY <2>1, <2>2, SMTT(30)
      <4>3. QED
        BY <2>2, <4>1, <4>2
    <3>2. (CHOOSE w \in 1..Len(subjects[s]) : Fits(w)) = n
      <4> HIDE DEF Fits, n
      <4> QED
        BY <2>1, <3>1
    <3> QED
      BY <2>1, <3>1, <3>2, Zenon DEF Version, First
  <2>6. SchemaById(r.id) = r.schema
    BY <2>1, <2>3 DEF SchemaById, IdsAgree
  <2>7. r \in SchemaVersionsById(r.id)
    BY <2>1 DEF SchemaVersionsById
  <2>8. Latest(s).version >= n
    <3>1. subjects[s] # <<>> /\ Len(subjects[s]) \in 1..Len(subjects[s])
      BY <2>1
    <3> QED
      BY <2>1, <2>2, <3>1 DEF Latest
  <2> QED
    BY <2>4, <2>5, <2>6, <2>7, <2>8
<1> QED
  BY <1>1, SchemaInvariance, PTL

\* A registration appends to the versions of its subject and leaves all ids
\* as they are.
THEOREM StoreAlwaysOnlyGrows == SchemaSpec => StoreOnlyGrows
<1> DEFINE VersionsGrow ==
             \A s \in Subject : \A v \in 1..Len(subjects[s]) :
               v <= Len(subjects'[s]) /\ subjects'[s][v] = subjects[s][v]
           IdsGrow ==
             \A i \in DOMAIN schemas_by_id :
               i \in DOMAIN schemas_by_id' /\ schemas_by_id'[i] = schemas_by_id[i]
<1>1. ASSUME SchemaInv, SchemaNext
      PROVE  VersionsGrow /\ IdsGrow
  <2>1. PICK s \in Subject, t \in Schema : Register(s, t)
    BY <1>1 DEF SchemaNext
  <2>2. \A q \in Subject : subjects[q] \in Seq(RegisteredSchema) /\ Len(subjects[q]) \in Nat
    BY <1>1, SMTT(30) DEF SchemaInv, SchemaTypeOK
  <2>3. ASSUME NEW id, AddVersion(s, t, id)
        PROVE  VersionsGrow
    <3>1. PICK reg : subjects' = [subjects EXCEPT ![s] = Append(subjects[s], reg)]
      BY <2>3, Zenon DEF AddVersion
    <3>2. subjects'[s] = Append(subjects[s], reg)
          /\ \A q \in Subject : q # s => subjects'[q] = subjects[q]
      BY <3>1, <1>1 DEF SchemaInv, SchemaTypeOK
    <3>3. \A v \in 1..Len(subjects[s]) :
            v <= Len(subjects'[s]) /\ subjects'[s][v] = subjects[s][v]
      BY <2>2, <3>2
    <3> QED
      BY <2>2, <3>2, <3>3
  <2>4. CASE RegisterAgain(s, t)
    BY <2>2, <2>4, SMTT(30) DEF RegisterAgain
  <2>5. CASE RegisterShared(s, t)
    BY <2>3, <2>5 DEF RegisterShared
  <2>6. CASE RegisterNew(s, t)
    <3>1. next_schema_id \in Nat /\ next_schema_id \notin DOMAIN schemas_by_id
      BY <1>1 DEF SchemaInv, SchemaTypeOK, IdsAgree
    <3>2. IdsGrow
      BY <2>6, <3>1 DEF RegisterNew, NewId
    <3> QED
      BY <2>3, <2>6, <3>2 DEF RegisterNew
  <2> QED
    BY <2>1, <2>4, <2>5, <2>6 DEF Register
<1>2. SchemaInv /\ [SchemaNext]_schema_vars => [VersionsGrow /\ IdsGrow]_schema_vars
  BY <1>1
<1> QED
  BY <1>2, SchemaInvariance, PTL DEF SchemaSpec, StoreOnlyGrows

----------------------------------------------------------------------------
(* The map of groups *)

\* A request past its look at the map carries the group id it is for.
CallNamesGroup ==
  \A c \in Caller : call[c].pc # "idle" => call[c].group_id \in GroupId

\* The inductive invariant.
GroupsInv == GroupsTypeOK /\ CallNamesGroup /\ OneObjectPerGroup /\ OneDriverPerObject

CallRecord(n) ==
  [pc : {"idle", "insert", "holds"}, group_id : GroupId \cup {NoGroup},
   holds : (1..n) \cup {NoGroup}]

\* A step of one request that leaves the map alone and, if it goes on with
\* an object, goes on with the one in the map, keeps the invariant.
LEMMA LookKeeps ==
  ASSUME GroupsInv, NEW c \in Caller, NEW g \in GroupId,
         NEW pc \in {"insert", "holds"}, NEW o \in (1..objects) \cup {NoGroup},
         pc = "holds" => o = groups[g] /\ groups[g] # NoGroup,
         Step(c, pc, g, o),
         UNCHANGED <<groups, objects, drivers>>
  PROVE  GroupsInv'
<1> DEFINE new == [pc |-> pc, group_id |-> g, holds |-> o]
<1>1. new \in CallRecord(objects) /\ new.pc = pc /\ new.group_id = g /\ new.holds = o
  BY DEF CallRecord
<1>2. call' = [call EXCEPT ![c] = new]
  BY DEF Step
<1> HIDE DEF new
<1>3. call \in [Caller -> CallRecord(objects)]
  BY SMTT(30) DEF GroupsInv, GroupsTypeOK, CallRecord
<1>4. call' \in [Caller -> CallRecord(objects')]
  BY <1>1, <1>2, <1>3
<1>5. call'[c] = new /\ \A d \in Caller : d # c => call'[d] = call[d]
  BY <1>2, <1>3
<1>6. GroupsTypeOK'
  BY <1>1, <1>4, <1>5 DEF GroupsInv, GroupsTypeOK, CallRecord
<1>7. CallNamesGroup'
  BY <1>1, <1>5, SMTT(30) DEF GroupsInv, CallNamesGroup
<1>8. OneObjectPerGroup'
  BY <1>1, <1>5 DEF GroupsInv, OneObjectPerGroup
<1>9. OneDriverPerObject'
  BY DEF GroupsInv, OneDriverPerObject
<1> QED
  BY <1>6, <1>7, <1>8, <1>9 DEF GroupsInv

\* Creating the group under the write lock keeps the invariant.
LEMMA VacantKeeps ==
  ASSUME GroupsInv, NEW c \in Caller, call[c].pc = "insert", Vacant(c)
  PROVE  GroupsInv'
<1> DEFINE g == call[c].group_id
           o == objects + 1
           new == [pc |-> "holds", group_id |-> g, holds |-> o]
<1>1. /\ g \in GroupId /\ objects \in Nat /\ o \in Object
      /\ objects' = o /\ groups[g] = NoGroup
      /\ groups' = [groups EXCEPT ![g] = o]
      /\ drivers' = [drivers EXCEPT ![o] = 1]
      /\ call' = [call EXCEPT ![c] = new]
  BY ObjectsAssumption
  DEF GroupsInv, GroupsTypeOK, CallNamesGroup, Vacant, NewGroup, Step, Object
<1>2. new \in CallRecord(o) /\ new.pc = "holds" /\ new.group_id = g /\ new.holds = o
  BY <1>1 DEF CallRecord
<1>3. /\ groups \in [GroupId -> (1..objects) \cup {NoGroup}]
      /\ drivers \in [Object -> Nat]
      /\ call \in [Caller -> CallRecord(objects)]
  BY DEF GroupsInv, GroupsTypeOK, CallRecord
<1>4. o # NoGroup /\ o \notin (1..objects) /\ 1..objects \subseteq 1..o
  BY <1>1, NoGroupAssumption
<1> HIDE DEF new, g, o
<1>5. /\ groups'[g] = o /\ \A h \in GroupId : h # g => groups'[h] = groups[h]
      /\ drivers'[o] = 1 /\ \A p \in Object : p # o => drivers'[p] = drivers[p]
      /\ call'[c] = new /\ \A d \in Caller : d # c => call'[d] = call[d]
  BY <1>1, <1>3
<1>6. GroupsTypeOK'
  <2>1. /\ groups' \in [GroupId -> (1..o) \cup {NoGroup}]
        /\ drivers' \in [Object -> Nat]
    BY <1>1, <1>3, <1>4, <1>5 DEF Object
  <2>2. call' \in [Caller -> CallRecord(o)]
    <3>1. CallRecord(objects) \subseteq CallRecord(o)
      BY <1>4, SMTT(30) DEF CallRecord
    <3> QED
      BY <1>1, <1>2, <1>3, <3>1
  <2>3. \A d \in Caller : call'[d].pc = "holds" => call'[d].holds # NoGroup
    BY <1>2, <1>4, <1>5, SMTT(30) DEF GroupsInv, GroupsTypeOK
  <2> QED
    BY <1>1, <2>1, <2>2, <2>3 DEF GroupsTypeOK, CallRecord, Object
<1>7. CallNamesGroup'
  BY <1>1, <1>2, <1>5 DEF GroupsInv, CallNamesGroup
<1>8. OneObjectPerGroup'
  <2>1. ASSUME NEW d \in Caller, call'[d].pc = "holds"
        PROVE  call'[d].holds = groups'[call'[d].group_id]
    <3>1. CASE d = c
      BY <3>1, <1>2, <1>5, SMTT(30)
    <3>2. CASE d # c
      <4>1. /\ call[d].pc = "holds" /\ call'[d] = call[d]
            /\ call[d].holds = groups[call[d].group_id]
            /\ call[d].holds # NoGroup /\ call[d].group_id \in GroupId
        BY <2>1, <3>2, <1>5 DEF GroupsInv, GroupsTypeOK, OneObjectPerGroup, CallNamesGroup
      <4> QED
        BY <4>1, <1>1, <1>5, SMTT(30)
    <3> QED
      BY <3>1, <3>2
  <2>2. ASSUME NEW x \in GroupId, NEW y \in GroupId,
               groups'[x] = groups'[y], groups'[x] # NoGroup
        PROVE  x = y
    <3>1. \A h \in GroupId : groups[h] # o
      BY <1>3, <1>4
    <3>2. \A h, k \in GroupId : groups[h] = groups[k] /\ groups[h] # NoGroup => h = k
      BY Zenon DEF GroupsInv, OneObjectPerGroup
    <3>3. CASE x = g \/ y = g
      BY <2>2, <3>1, <3>3, <1>5, Zenon
    <3>4. CASE x # g /\ y # g
      BY <2>2, <3>2, <3>4, <1>5, Zenon
    <3> QED
      BY <3>3, <3>4, Zenon
  <2> QED
    BY <2>1, <2>2 DEF OneObjectPerGroup
<1>9. OneDriverPerObject'
  <2> SUFFICES ASSUME NEW p \in Object
               PROVE  IF p <= o THEN drivers'[p] = 1 /\ \E h \in GroupId : groups'[h] = p
                      ELSE drivers'[p] = 0
    BY <1>1 DEF OneDriverPerObject
  <2>1. CASE p = o
    BY <2>1, <1>1, <1>5 DEF Object
  <2>2. CASE p < o
    <3>1. p <= objects /\ p # o
      BY <2>2, <1>1, SMTT(30) DEF o, Object
    <3>2. drivers[p] = 1 /\ \E h \in GroupId : groups[h] = p
      BY <3>1 DEF GroupsInv, OneDriverPerObject
    <3>3. p # NoGroup
      BY NoGroupAssumption, SMTT(30) DEF Object
    <3> QED
      BY <2>2, <3>1, <3>2, <3>3, <1>1, <1>5, SMTT(30) DEF Object
  <2>3. CASE p > o
    <3>1. ~(p <= objects) /\ p # o /\ ~(p <= o)
      BY <2>3, <1>1 DEF o, Object
    <3> QED
      BY <3>1, <1>5 DEF GroupsInv, OneDriverPerObject
  <2> QED
    BY <2>1, <2>2, <2>3, <1>1 DEF Object
<1> QED
  BY <1>6, <1>7, <1>8, <1>9, SMTT(30) DEF GroupsInv

\* The invariant holds in every state the coordinator reaches.
THEOREM GroupsInvariance == GroupsSpec => []GroupsInv
<1>1. GroupsInit => GroupsInv
  BY ObjectsAssumption
  DEF GroupsInit, NoCall, GroupsInv, GroupsTypeOK, CallNamesGroup, OneObjectPerGroup,
      OneDriverPerObject, Object
<1>2. GroupsInv /\ [GroupsNext]_groups_vars => GroupsInv'
  <2> SUFFICES ASSUME GroupsInv, [GroupsNext]_groups_vars
               PROVE  GroupsInv'
    OBVIOUS
  <2>0. \A g \in GroupId : groups[g] \in (1..objects) \cup {NoGroup}
    BY DEF GroupsInv, GroupsTypeOK
  <2>1. ASSUME NEW c \in Caller, NEW g \in GroupId, JoinLook(c, g)
        PROVE  GroupsInv'
    BY <2>0, <2>1, LookKeeps, Zenon DEF JoinLook
  <2>2. ASSUME NEW c \in Caller, NEW g \in GroupId, Find(c, g)
        PROVE  GroupsInv'
    BY <2>0, <2>2, LookKeeps DEF Find
  <2>3. ASSUME NEW c \in Caller, JoinInsert(c)
        PROVE  GroupsInv'
    <3>1. call[c].pc = "insert" /\ call[c].group_id \in GroupId
      BY <2>3, SMTT(30) DEF JoinInsert, GroupsInv, CallNamesGroup
    <3>2. CASE Occupied(c)
      BY <2>0, <3>1, <3>2, LookKeeps DEF Occupied
    <3>3. CASE Vacant(c)
      BY <3>1, <3>3, VacantKeeps, SMTT(30)
    <3> QED
      BY <2>3, <3>2, <3>3 DEF JoinInsert
  <2>4. ASSUME NEW c \in Caller, Answer(c)
        PROVE  GroupsInv'
    <3>1. /\ call' = [call EXCEPT ![c] = NoCall] /\ UNCHANGED <<groups, objects, drivers>>
          /\ NoCall \in CallRecord(objects) /\ NoCall.pc = "idle"
          /\ call \in [Caller -> CallRecord(objects)]
      BY <2>4 DEF Answer, NoCall, CallRecord, GroupsInv, GroupsTypeOK
    <3>2. /\ call' \in [Caller -> CallRecord(objects')]
          /\ \A d \in Caller : call'[d].pc # "idle" => call'[d] = call[d]
      BY <3>1, SMTT(30)
    <3> QED
      BY <3>1, <3>2
      DEF GroupsInv, GroupsTypeOK, CallRecord, CallNamesGroup, OneObjectPerGroup,
          OneDriverPerObject
  <2>5. CASE UNCHANGED groups_vars
    BY <2>5
    DEF groups_vars, GroupsInv, GroupsTypeOK, CallNamesGroup, OneObjectPerGroup,
        OneDriverPerObject
  <2> QED
    BY <2>1, <2>2, <2>3, <2>4, <2>5 DEF GroupsNext
<1> QED
  BY <1>1, <1>2, PTL DEF GroupsSpec

\* However many requests race in group_or_insert, all that go on for one
\* group id hold the same object.
THEOREM AlwaysOneObjectPerGroup == GroupsSpec => []OneObjectPerGroup
BY GroupsInvariance, PTL DEF GroupsInv

\* group_or_insert starts one deadline driver for every group it creates.
THEOREM AlwaysOneDriverPerObject == GroupsSpec => []OneDriverPerObject
BY GroupsInvariance, PTL DEF GroupsInv

----------------------------------------------------------------------------
(* A connection *)

\* Appending a larger id to a sequence of ids.
LEMMA AppendLarger ==
  ASSUME NEW ids \in Seq(Nat), Increasing(ids), NEW n \in Nat,
         \A k \in Range(ids) : k < n
  PROVE  /\ Append(ids, n) \in Seq(Nat)
         /\ Increasing(Append(ids, n))
         /\ Range(Append(ids, n)) = Range(ids) \cup {n}
<1> DEFINE more == Append(ids, n)
<1>1. /\ more \in Seq(Nat) /\ DOMAIN ids = 1..Len(ids) /\ DOMAIN more = 1..(Len(ids) + 1)
      /\ Len(ids) \in Nat
      /\ \A i \in DOMAIN ids : more[i] = ids[i]
      /\ more[Len(ids) + 1] = n
  OBVIOUS
<1> HIDE DEF more
<1>2. Increasing(more)
  <2> SUFFICES ASSUME NEW i \in DOMAIN more, NEW j \in DOMAIN more, i < j
               PROVE  more[i] < more[j]
    BY DEF Increasing
  <2>1. i \in DOMAIN ids
    BY <1>1
  <2>2. CASE j \in DOMAIN ids
    BY <1>1, <2>1, <2>2 DEF Increasing
  <2>3. CASE j = Len(ids) + 1
    BY <1>1, <2>1, <2>3 DEF Range
  <2> QED
    BY <1>1, <2>2, <2>3
<1>3. Range(more) = Range(ids) \cup {n}
  <2>1. DOMAIN more = DOMAIN ids \cup {Len(ids) + 1}
    BY <1>1
  <2>2. \A x : x \in Range(more) <=> \E i \in DOMAIN more : x = more[i]
    BY DEF Range
  <2>3. \A x : x \in Range(ids) <=> \E i \in DOMAIN ids : x = ids[i]
    BY DEF Range
  <2>4. \A x : x \in Range(more) <=> x \in Range(ids) \/ x = n
    BY <1>1, <2>1, <2>2, <2>3, SMTT(30)
  <2> QED
    BY <2>4
<1> QED
  BY <1>1, <1>2, <1>3 DEF more

\* The inductive invariant: where handle_one is says what the request that it
\* has read is owed.
ConnectionInv ==
  /\ InOrder
  /\ responses \in Seq(Nat) /\ effects \in Seq(Nat)
  /\ stage \in {"dispatch", "write"} => read > 0 /\ read \notin Range(responses)
  /\ stage = "dispatch" => Route(frames[read]) = "Dispatch" /\ read \notin Range(effects)
  /\ stage = "write" =>
       ExpectsResponse(frames[read]) /\ Route(frames[read]) \in {"Dispatch", "Respond"}
  /\ \A k \in 1..read : frames[k].length = "whole"
  /\ stage # "closed" => \A k \in 1..read : Route(frames[k]) # "Error"

\* Only requests that expect a response are answered by the router.
LEMMA RespondExpected ==
  ASSUME NEW f, Route(f) = "Respond"
  PROVE  ExpectsResponse(f)
  BY DEF Route, DecodeFrame, ExpectsResponse

LEMMA RouteType ==
  ASSUME NEW f
  PROVE  Route(f) \in {"Error", "Respond", "Dispatch", "NoResponse"}
  BY DEF Route, DecodeFrame

\* What was read stays what it is when more frames are sent.
LEMMA SentKeeps ==
  ASSUME ConnectionInv, NEW f \in Frame, frames' = Append(frames, f),
         UNCHANGED <<read, stage, effects, responses>>, eof' \in BOOLEAN
  PROVE  ConnectionInv'
<1>1. /\ read \in Nat /\ read <= Len(frames)
      /\ frames' \in Seq(Frame) /\ Len(frames') = Len(frames) + 1
      /\ \A k \in 1..read : frames'[k] = frames[k]
  BY SMTT(30) DEF ConnectionInv, InOrder, ConnectionTypeOK
<1>2. WithAnswer(read)' = WithAnswer(read) /\ WithEffect(read)' = WithEffect(read)
  BY <1>1, SMTT(30) DEF WithAnswer, WithEffect
<1>3. ConnectionTypeOK'
  BY <1>1, SMTT(30) DEF ConnectionInv, InOrder, ConnectionTypeOK
<1>4. AnsweredInOrder' /\ EffectsInOrder'
  BY <1>2, SMTT(30) DEF ConnectionInv, InOrder, AnsweredInOrder, EffectsInOrder
<1>5. stage \in {"dispatch", "write"} => frames'[read] = frames[read]
  BY <1>1, SMTT(30) DEF ConnectionInv
<1> QED
  BY <1>1, <1>3, <1>4, <1>5, SMTT(30) DEF ConnectionInv, InOrder

\* A connection that closes owes nothing but the request it had read.
LEMMA CloseKeeps ==
  ASSUME ConnectionInv, stage' = "closed",
         UNCHANGED <<frames, eof, read, effects, responses>>
  PROVE  ConnectionInv'
<1>1. WithAnswer(read)' = WithAnswer(read) /\ WithEffect(read)' = WithEffect(read)
  BY DEF WithAnswer, WithEffect
<1>2. ConnectionTypeOK'
  BY SMTT(30) DEF ConnectionInv, InOrder, ConnectionTypeOK
<1>3. AnsweredInOrder'
  BY <1>1, SMTT(30) DEF ConnectionInv, InOrder, AnsweredInOrder
<1>4. EffectsInOrder'
  BY <1>1 DEF ConnectionInv, InOrder, EffectsInOrder
<1> QED
  BY <1>2, <1>3, <1>4 DEF ConnectionInv, InOrder

LEMMA ReadFrameKeeps ==
  ASSUME ConnectionInv, ReadFrame
  PROVE  ConnectionInv'
<1> DEFINE f == frames[read + 1]
           n == read + 1
<1>1. /\ stage = "read" /\ read \in Nat /\ n \in Nat /\ n <= Len(frames) /\ read' = n /\ n > 0
      /\ f.length = "whole" /\ stage' = AfterRead(Route(f))
      /\ UNCHANGED <<frames, eof, effects, responses>>
  <2>1. read \in Nat
    BY DEF ConnectionInv, InOrder, ConnectionTypeOK
  <2>2. /\ stage = "read" /\ read < Len(frames) /\ read' = n
        /\ f.length = "whole" /\ stage' = AfterRead(Route(f))
        /\ UNCHANGED <<frames, eof, effects, responses>>
    BY Zenon DEF ReadFrame, NextFrame
  <2>3. Len(frames) \in Nat
    BY DEF ConnectionInv, InOrder, ConnectionTypeOK
  <2>4. n \in Nat /\ n > 0 /\ n <= Len(frames)
    BY <2>1, <2>2, <2>3
  <2> QED
    BY <2>1, <2>2, <2>4, Zenon
<1>2. Route(f) \in {"Error", "Respond", "Dispatch", "NoResponse"}
  BY RouteType
<1>3. stage' = IF Route(f) = "Dispatch" THEN "dispatch" ELSE IF Route(f) = "Respond" THEN "write"
            ELSE IF Route(f) = "NoResponse" THEN "read" ELSE "closed"
  BY <1>1, <1>2 DEF AfterRead
<1>4. Route(f) = "Respond" => ExpectsResponse(f)
  BY RespondExpected
<1>5. frames'[n] = f /\ \A k \in 1..read : frames'[k] = frames[k]
  BY <1>1
<1>6. 1..n = (1..read) \cup {n} /\ n \notin 1..read
  BY <1>1, SMTT(30)
<1>7. /\ WithAnswer(read)' =
           WithAnswer(read) \cup (IF ExpectsResponse(f) /\ Route(f) \in {"Dispatch", "Respond"}
                                 THEN {n} ELSE {})
      /\ WithEffect(read)' = WithEffect(read) \cup (IF Route(f) = "Dispatch" THEN {n} ELSE {})
  BY <1>1, <1>5, <1>6, SMTT(30) DEF WithAnswer, WithEffect
<1>8. n \notin Range(responses) /\ n \notin Range(effects)
  BY <1>6, SMTT(30) DEF ConnectionInv, InOrder, AnsweredInOrder, EffectsInOrder, WithAnswer, WithEffect
<1>9. ConnectionTypeOK'
  <2>1. \A k \in 1..(read' - 1) : frames'[k].length = "whole" /\ Route(frames'[k]) # "Error"
    BY <1>1, <1>5 DEF ConnectionInv
  <2>2. stage' \in {"read", "dispatch", "write", "closed"}
    BY <1>3
  <2>3. read' \in 0..Len(frames')
    BY <1>1, SMTT(30)
  <2> QED
    BY <1>1, <2>1, <2>2, <2>3, SMTT(30) DEF ConnectionInv, InOrder, ConnectionTypeOK
<1> HIDE DEF f, n
<1>10. AnsweredInOrder'
  BY <1>1, <1>2, <1>3, <1>7, SMTT(30) DEF ConnectionInv, InOrder, AnsweredInOrder
<1>11. EffectsInOrder'
  BY <1>1, <1>2, <1>3, <1>7, <1>8, SMTT(30) DEF ConnectionInv, InOrder, EffectsInOrder
<1>12. \A k \in 1..n : frames'[k].length = "whole"
  BY <1>1, <1>5, <1>6, SMTT(30) DEF ConnectionInv
<1>13. stage' # "closed" => \A k \in 1..n : Route(frames'[k]) # "Error"
  BY <1>1, <1>2, <1>3, <1>5, <1>6, Zenon DEF ConnectionInv
<1> QED
  BY <1>1, <1>2, <1>3, <1>4, <1>5, <1>8, <1>9, <1>10, <1>11, <1>12, <1>13, Zenon
  DEF ConnectionInv, InOrder

LEMMA DispatchKeeps ==
  ASSUME ConnectionInv, Dispatch
  PROVE  ConnectionInv'
<1>1. /\ stage = "dispatch" /\ read \in Nat /\ read > 0 /\ Route(frames[read]) = "Dispatch"
      /\ effects' = Append(effects, read)
      /\ stage' = IF ExpectsResponse(frames[read]) THEN "write" ELSE "read"
      /\ UNCHANGED <<frames, eof, read, responses>>
  BY SMTT(30) DEF Dispatch, ConnectionInv, InOrder, ConnectionTypeOK
<1>2. \A k \in Range(effects) : k < read
  BY <1>1, SMTT(30) DEF ConnectionInv, InOrder, EffectsInOrder, WithEffect
<1>3. /\ effects' \in Seq(Nat) /\ Increasing(effects')
      /\ Range(effects') = Range(effects) \cup {read}
  BY <1>1, <1>2, AppendLarger DEF ConnectionInv, InOrder, EffectsInOrder
<1>4. /\ WithAnswer(read)' = WithAnswer(read) /\ WithEffect(read)' = WithEffect(read)
      /\ read \in WithEffect(read)
      /\ ~ExpectsResponse(frames[read]) => read \notin WithAnswer(read)
  BY <1>1 DEF WithAnswer, WithEffect
<1>5. ConnectionTypeOK'
  BY <1>1, SMTT(30) DEF ConnectionInv, InOrder, ConnectionTypeOK
<1>6. AnsweredInOrder'
  BY <1>1, <1>4, SMTT(30) DEF ConnectionInv, InOrder, AnsweredInOrder
<1>7. EffectsInOrder'
  BY <1>1, <1>3, <1>4, SMTT(30) DEF ConnectionInv, InOrder, EffectsInOrder
<1> QED
  BY <1>1, <1>3, <1>5, <1>6, <1>7, SMTT(30) DEF ConnectionInv, InOrder

LEMMA WriteKeeps ==
  ASSUME ConnectionInv, Write
  PROVE  ConnectionInv'
<1>1. /\ stage = "write" /\ read \in Nat /\ read > 0 /\ read \notin Range(responses)
      /\ responses' = Append(responses, read) /\ stage' = "read"
      /\ UNCHANGED <<frames, eof, read, effects>>
  BY SMTT(30) DEF Write, ConnectionInv, InOrder, ConnectionTypeOK
<1>2. \A k \in Range(responses) : k < read
  BY <1>1, SMTT(30) DEF ConnectionInv, InOrder, AnsweredInOrder, WithAnswer
<1>3. /\ responses' \in Seq(Nat) /\ Increasing(responses')
      /\ Range(responses') = Range(responses) \cup {read}
  BY <1>1, <1>2, AppendLarger, SMTT(30) DEF ConnectionInv, InOrder, AnsweredInOrder
<1>4. /\ WithAnswer(read)' = WithAnswer(read) /\ WithEffect(read)' = WithEffect(read)
      /\ read \in WithAnswer(read)
  BY <1>1 DEF ConnectionInv, WithAnswer, WithEffect
<1>5. ConnectionTypeOK'
  BY <1>1, SMTT(30) DEF ConnectionInv, InOrder, ConnectionTypeOK
<1>6. AnsweredInOrder'
  BY <1>1, <1>3, <1>4, SMTT(30) DEF ConnectionInv, InOrder, AnsweredInOrder
<1>7. EffectsInOrder'
  BY <1>1, <1>3, <1>4 DEF ConnectionInv, InOrder, EffectsInOrder
<1> QED
  BY <1>1, <1>3, <1>5, <1>6, <1>7, SMTT(30) DEF ConnectionInv, InOrder

LEMMA ConnectionInitHolds == ConnectionInit => ConnectionInv
<1> SUFFICES ASSUME ConnectionInit PROVE ConnectionInv
  OBVIOUS
<1>1. Range(responses) = {} /\ Range(effects) = {} /\ Increasing(responses) /\ Increasing(effects)
  BY DEF ConnectionInit, Range, Increasing
<1>2. WithAnswer(read) = {} /\ WithEffect(read) = {}
  BY DEF ConnectionInit, WithAnswer, WithEffect
<1>3. /\ frames \in Seq(Frame) /\ Len(frames) = 0
      /\ eof \in BOOLEAN
  <2>1. eof \in BOOLEAN
    BY Zenon DEF ConnectionInit
  <2> QED
    BY <2>1 DEF ConnectionInit
<1>4. ConnectionTypeOK
  BY <1>3 DEF ConnectionInit, ConnectionTypeOK
<1> QED
  BY <1>1, <1>2, <1>4 DEF ConnectionInit, ConnectionInv, InOrder, AnsweredInOrder, EffectsInOrder

\* However many requests a client sends ahead, and wherever the shutdown or
\* the end of the stream meets handle_one, requests take effect in the order
\* in which they were sent, each once, before they are answered, and are
\* answered in that order, except for the one that was cut off.
THEOREM AlwaysInOrder == ConnectionSpec => []InOrder
<1>1. ConnectionInv /\ [ConnectionNext]_connection_vars => ConnectionInv'
  <2> SUFFICES ASSUME ConnectionInv, [ConnectionNext]_connection_vars PROVE ConnectionInv'
    OBVIOUS
  <2>1. ASSUME NEW f \in Frame, Send(f) PROVE ConnectionInv'
    <3>1. eof' \in BOOLEAN
      BY <2>1, SMTT(30) DEF Send, ConnectionInv, InOrder, ConnectionTypeOK
    <3> QED
      BY <2>1, <3>1, SentKeeps DEF Send
  <2>2. CASE Close \/ UNCHANGED connection_vars
    <3>1. UNCHANGED <<frames, read, stage, effects, responses>> /\ eof' \in BOOLEAN
      BY <2>2, Zenon DEF Close, connection_vars, ConnectionInv, InOrder, ConnectionTypeOK
    <3> QED
      BY <3>1
      DEF ConnectionInv, InOrder, ConnectionTypeOK, AnsweredInOrder, EffectsInOrder,
          WithAnswer, WithEffect
  <2>3. CASE ReadEof \/ ReadFails \/ WriteFails \/ ShutdownChanged
    BY <2>3, CloseKeeps DEF ReadEof, ReadFails, WriteFails, ShutdownChanged
  <2>4. CASE ReadFrame \/ Dispatch \/ Write
    BY <2>4, ReadFrameKeeps, DispatchKeeps, WriteKeeps, SMTT(30)
  <2> QED
    BY <2>1, <2>2, <2>3, <2>4 DEF ConnectionNext, HandleOne
<1>2. ConnectionInv => InOrder
  BY DEF ConnectionInv
<1> QED
  BY <1>1, <1>2, ConnectionInitHolds, PTL DEF ConnectionSpec

----------------------------------------------------------------------------
(* The tasks of the server *)

\* A connection that is not free has a listener that accepted it.
ConnectionsAreOwned ==
  /\ conn \in [Slot -> [state : {"free", "open", "ended", "aborted"},
                        owner : Listener \cup {None}, seen : BOOLEAN]]
  /\ \A s \in Slot : conn[s].state # "free" => conn[s].owner \in Listener

\* What `serve` has done by the time it is in each of its phases.
PhasesFit ==
  /\ joined \subseteq Task /\ aborted \subseteq Task
  /\ main = "binding" => \A t \in Task : status[t] = "waiting"
  /\ main \in {"binding", "serving"} => joined = {}
  /\ main \in {"binding", "serving", "draining"} => aborted = {}
  /\ main \in {"draining", "aborting"} => result \in {"Ok", "Err"}
  /\ main = "aborting" => Task \ joined \subseteq aborted
  /\ main = "stopped" =>
       \/ joined = Task
       \/ /\ \A t \in Task : status[t] = "waiting"
          /\ aborted = {} /\ result = "Err"

\* A task is cancelled only if abort_all has met it.
CancelledMeansAborted == \A t \in Task : outcome[t] = "Cancelled" => t \in aborted

\* A listener that ends with Ok has no connection left.
OkMeansDrained ==
  \A l \in Listener : outcome[l] = "Ok" => \A s \in Slot : conn[s].owner = l => conn[s].state = "free"

\* An error that was joined before the abort is in one of the two results.
ErrorsAreKept ==
  main \in {"draining", "aborting"} =>
    \A t \in joined \ aborted : outcome[t] = "Err" => "Err" \in {result, drain_result}

\* The inductive invariant.
ServerInv ==
  /\ ServerTypeOK /\ ConnectionsAreOwned /\ PhasesFit /\ CancelledMeansAborted
  /\ OkMeansDrained /\ ErrorsAreKept /\ ErrorsAreReported

\* It says what a shutdown promises.
LEMMA InvariantIsEnough == ServerInv => StopsClean
<1> SUFFICES ASSUME ServerInv PROVE StopsClean
  OBVIOUS
<1>1. NoTaskLeft
  BY DEF ServerInv, ServerTypeOK, PhasesFit, NoTaskLeft
<1>2. ASSUME main = "stopped", result = "Ok", aborted = {}, NEW s \in Slot
      PROVE  conn[s].state = "free"
  <2>1. joined = Task /\ \A t \in Task : status[t] = "done"
    BY <1>2 DEF ServerInv, ServerTypeOK, PhasesFit
  <2>2. \A t \in Task : outcome[t] = "Ok"
    BY <1>2, <2>1 DEF ServerInv, ServerTypeOK, CancelledMeansAborted, ErrorsAreReported
  <2> QED
    BY <2>2 DEF ServerInv, ConnectionsAreOwned, OkMeansDrained, Task
<1>3. GracefulMeansDrained
  BY <1>2 DEF GracefulMeansDrained
<1> QED
  BY <1>1, <1>3 DEF ServerInv, StopsClean

LEMMA ServerInitHolds == ServerInit => ServerInv
<1> SUFFICES ASSUME ServerInit PROVE ServerInv
  OBVIOUS
<1>1. ServerTypeOK
  BY NoneAssumption, Zenon DEF ServerInit, ServerTypeOK
<1>2. ConnectionsAreOwned /\ OkMeansDrained
  BY DEF ServerInit, ConnectionsAreOwned, OkMeansDrained, NoConnection
<1>3. PhasesFit /\ ErrorsAreKept /\ ErrorsAreReported
  BY DEF ServerInit, PhasesFit, ErrorsAreKept, ErrorsAreReported
<1>4. CancelledMeansAborted
  BY NoneAssumption DEF ServerInit, CancelledMeansAborted
<1> QED
  BY <1>1, <1>2, <1>3, <1>4 DEF ServerInv

\* The steps of `serve` leave the connections alone and let no task end.
LEMMA MainKeeps ==
  ASSUME ServerInv, Main
  PROVE  ServerInv'
<1> USE ListenerAssumption, NoneAssumption
    DEF ServerInv, ServerTypeOK, PhasesFit, CancelledMeansAborted, ErrorsAreKept, ErrorsAreReported
<1>1. conn' = conn /\ outcome' = outcome
  BY SMTT(30) DEF Main, Bind, Spawn, Shutdown, StoppedEarly, Drain, GraceElapses, JoinAborted, Return
<1>2. ConnectionsAreOwned' /\ OkMeansDrained'
  BY <1>1, SMTT(30) DEF ConnectionsAreOwned, OkMeansDrained
<1>3. CASE Spawn
  BY <1>2, <1>3, SMTT(30) DEF Spawn
<1>4. CASE Shutdown
  BY <1>2, <1>4, SMTT(30) DEF Shutdown
<1>5. CASE GraceElapses
  BY <1>2, <1>5, SMTT(30) DEF GraceElapses
<1>6. CASE Return
  BY <1>2, <1>6, SMTT(30) DEF Return
<1>7. ASSUME NEW t \in Task, Bind(t) PROVE ServerInv'
  BY <1>2, <1>7, SMTT(30) DEF Bind
<1>8. ASSUME NEW t \in Task, StoppedEarly(t) PROVE ServerInv'
  BY <1>2, <1>8, SMTT(30) DEF StoppedEarly
<1>9. ASSUME NEW t \in Task, Drain(t) PROVE ServerInv'
  BY <1>2, <1>9, SMTT(30) DEF Drain
<1>10. ASSUME NEW t \in Task, JoinAborted(t) PROVE ServerInv'
  BY <1>2, <1>10, SMTT(30) DEF JoinAborted
<1> QED
  BY <1>3, <1>4, <1>5, <1>6, <1>7, <1>8, <1>9, <1>10, ZenonT(30) DEF Main

\* A connection that changes only its own state, and is not the first of a
\* listener that ended with Ok, keeps the invariant.
LEMMA ConnectionKeeps ==
  ASSUME ServerInv, NEW s \in Slot,
         NEW new \in [state : {"free", "open", "ended", "aborted"},
                      owner : Listener \cup {None}, seen : BOOLEAN],
         new.state # "free" => new.owner \in Listener /\ outcome[new.owner] # "Ok",
         conn' = [conn EXCEPT ![s] = new],
         UNCHANGED <<main, bound, sent, status, outcome, joined, aborted, result, drain_result>>
  PROVE  ServerInv'
<1>1. conn'[s] = new /\ \A r \in Slot : r # s => conn'[r] = conn[r]
  BY DEF ServerInv, ConnectionsAreOwned
<1>2. ConnectionsAreOwned'
  BY <1>1 DEF ServerInv, ConnectionsAreOwned
<1>3. OkMeansDrained'
  BY <1>1 DEF ServerInv, OkMeansDrained
<1> QED
  BY <1>2, <1>3
  DEF ServerInv, ServerTypeOK, PhasesFit, CancelledMeansAborted, ErrorsAreKept, ErrorsAreReported

\* A task that goes on to its end, or ends in another way than Ok with its
\* connections aborted, keeps the invariant: nobody has joined it yet.
LEMMA ServerTaskKeeps ==
  ASSUME ServerInv, NEW t \in Task, status[t] # "done", status[t] # "waiting" \/ t \in aborted,
         NEW to \in {"closing", "done"}, NEW with \in {None, "Ok", "Err", "Cancelled"},
         with # None <=> to = "done",
         with = "Cancelled" => t \in aborted,
         status' = [status EXCEPT ![t] = to],
         outcome' = [outcome EXCEPT ![t] = with],
         ConnectionsAreOwned', OkMeansDrained',
         UNCHANGED <<main, bound, sent, joined, aborted, result, drain_result>>
  PROVE  ServerInv'
<1>1. t \notin joined
  BY DEF ServerInv, ServerTypeOK
<1>2. /\ status'[t] = to /\ outcome'[t] = with
      /\ \A u \in Task : u # t => status'[u] = status[u] /\ outcome'[u] = outcome[u]
  BY DEF ServerInv, ServerTypeOK
<1>3. ServerTypeOK'
  BY <1>1, <1>2, SMTT(30) DEF ServerInv, ServerTypeOK
<1>4. PhasesFit'
  BY <1>1, <1>2 DEF ServerInv, PhasesFit
<1>5. CancelledMeansAborted'
  BY <1>2 DEF ServerInv, CancelledMeansAborted
<1>6. ErrorsAreKept'
  BY <1>1, <1>2 DEF ServerInv, ErrorsAreKept
<1>7. main # "stopped"
  BY <1>1 DEF ServerInv, PhasesFit
<1>8. ErrorsAreReported'
  BY <1>7 DEF ErrorsAreReported
<1> QED
  BY <1>3, <1>4, <1>5, <1>6, <1>8 DEF ServerInv

\* The connections after their listener is gone.
LEMMA AbortKeeps ==
  ASSUME ServerInv, NEW t \in Task, NEW with \in {"Err", "Cancelled"},
         outcome' = [outcome EXCEPT ![t] = with],
         conn' = AbortConnections(t)
  PROVE  ConnectionsAreOwned' /\ OkMeansDrained'
<1>1. \A u \in Task : outcome'[u] = IF u = t THEN with ELSE outcome[u]
  BY DEF ServerInv, ServerTypeOK
<1>2. \A s \in Slot : /\ conn'[s].owner = conn[s].owner
                      /\ conn'[s].seen = conn[s].seen
                      /\ conn'[s].state = IF conn[s].owner = t /\ conn[s].state # "free"
                                          THEN "aborted" ELSE conn[s].state
  BY DEF ServerInv, ConnectionsAreOwned, AbortConnections, ConnectionsOf
<1>3. ConnectionsAreOwned'
  BY <1>2, SMTT(30) DEF ServerInv, ConnectionsAreOwned, AbortConnections
<1>4. OkMeansDrained'
  BY <1>1, <1>2 DEF ServerInv, OkMeansDrained, Task
<1> QED
  BY <1>3, <1>4

\* The steps of the listeners, of the connections and of the registry.
LEMMA TasksKeep ==
  ASSUME ServerInv, Tasks
  PROVE  ServerInv'
<1> USE ListenerAssumption, NoneAssumption DEF Task
<1>1. ASSUME NEW l \in Listener, AcceptFails(l) PROVE ServerInv'
  BY <1>1, AbortKeeps, ServerTaskKeeps, Zenon DEF AcceptFails
<1>2. ASSUME NEW l \in Listener, ListenerNotices(l) PROVE ServerInv'
  <2>1. outcome[l] = None /\ outcome' = [outcome EXCEPT ![l] = None]
    BY <1>2, SMTT(30) DEF ListenerNotices, ServerInv, ServerTypeOK
  <2>2. ConnectionsAreOwned' /\ OkMeansDrained'
    BY <1>2 DEF ListenerNotices, ServerInv, ConnectionsAreOwned, OkMeansDrained
  <2> QED
    BY <1>2, <2>1, <2>2, ServerTaskKeeps, Zenon DEF ListenerNotices
<1>3. ASSUME NEW l \in Listener, ListenerEnds(l) PROVE ServerInv'
  <2>1. \A s \in Slot : conn[s].owner = l => conn[s].state = "free"
    BY <1>3, SMTT(30) DEF ListenerEnds, ConnectionsOf
  <2>2. \A u \in Task : outcome'[u] = IF u = l THEN "Ok" ELSE outcome[u]
    BY <1>3, SMTT(30) DEF ListenerEnds, ServerInv, ServerTypeOK
  <2>3. ConnectionsAreOwned' /\ OkMeansDrained'
    BY <1>3, <2>1, <2>2 DEF ListenerEnds, ServerInv, ConnectionsAreOwned, OkMeansDrained
  <2> QED
    BY <1>3, <2>3, ServerTaskKeeps, Zenon DEF ListenerEnds
<1>4. ASSUME NEW l \in Listener, NEW s \in Slot, Accept(l, s) PROVE ServerInv'
  <2>1. outcome[l] # "Ok"
    BY <1>4 DEF Accept, ServerInv, ServerTypeOK
  <2> QED
    BY <1>4, <2>1, ConnectionKeeps, Zenon DEF Accept, Receiver
<1>5. ASSUME NEW l \in Listener, NEW s \in Slot, Reap(l, s) PROVE ServerInv'
  BY <1>5, ConnectionKeeps, Zenon DEF Reap, NoConnection
<1>6. ASSUME NEW s \in Slot, ConnectionEnds(s) \/ ConnectionNotices(s) PROVE ServerInv'
  <2> DEFINE new == [conn[s] EXCEPT !.state = "ended"]
  <2>1. /\ new \in [state : {"free", "open", "ended", "aborted"},
                    owner : Listener \cup {None}, seen : BOOLEAN]
        /\ new.state = "ended" /\ new.owner = conn[s].owner
    BY DEF ServerInv, ConnectionsAreOwned
  <2>2. conn[s].state = "open"
    BY <1>6 DEF ConnectionEnds, ConnectionNotices
  <2>3. new.owner \in Listener /\ outcome[new.owner] # "Ok"
    BY <2>1, <2>2 DEF ServerInv, ConnectionsAreOwned, OkMeansDrained
  <2>4. conn' = [conn EXCEPT ![s] = new]
    BY <1>6 DEF ConnectionEnds, ConnectionNotices
  <2> HIDE DEF new
  <2> QED
    BY <1>6, <2>1, <2>3, <2>4, ConnectionKeeps, Zenon DEF ConnectionEnds, ConnectionNotices
<1>7. ASSUME NEW s \in Slot, ConnectionDropped(s) PROVE ServerInv'
  BY <1>7, ConnectionKeeps, Zenon DEF ConnectionDropped, NoConnection
<1>8. ASSUME RegistryFails \/ RegistryNotices \/ RegistryEnds PROVE ServerInv'
  <2>1. \A l \in Listener : outcome'[l] = outcome[l]
    BY <1>8, SMTT(30) DEF RegistryFails, RegistryNotices, RegistryEnds, ServerInv, ServerTypeOK
  <2>2. ConnectionsAreOwned' /\ OkMeansDrained'
    BY <1>8, <2>1
    DEF RegistryFails, RegistryNotices, RegistryEnds, ServerInv, ConnectionsAreOwned, OkMeansDrained
  <2>3. CASE RegistryNotices
    <3>1. outcome[Registry] = None /\ outcome' = [outcome EXCEPT ![Registry] = None]
      BY <2>3 DEF RegistryNotices, ServerInv, ServerTypeOK
    <3> QED
      BY <2>2, <2>3, <3>1, ServerTaskKeeps, Zenon DEF RegistryNotices
  <2>4. CASE RegistryFails
    BY <2>2, <2>4, ServerTaskKeeps, Zenon DEF RegistryFails
  <2>5. CASE RegistryEnds
    BY <2>2, <2>5, ServerTaskKeeps, Zenon DEF RegistryEnds
  <2> QED
    BY <1>8, <2>3, <2>4, <2>5, SMTT(30)
<1>9. ASSUME NEW t \in Task, Aborted(t) PROVE ServerInv'
  BY <1>9, AbortKeeps, ServerTaskKeeps, Zenon DEF Aborted
<1> QED
  BY <1>1, <1>2, <1>3, <1>4, <1>5, <1>6, <1>7, <1>8, <1>9 DEF Tasks

\* Whatever order the listeners, their connections, the registry and the
\* grace period end in, when `serve` returns no listener task is left, an Ok
\* without an abort leaves no connection open, and Ok hides no error of a
\* task that ended in time: the drain of `serve` and of run_kafka_listener.
THEOREM AlwaysStopsClean == ServerSpec => []StopsClean
<1>1. ServerInv /\ [ServerNext]_server_vars => ServerInv'
  <2> SUFFICES ASSUME ServerInv, [ServerNext]_server_vars PROVE ServerInv'
    OBVIOUS
  <2>1. CASE ServerNext
    BY <2>1, MainKeeps, TasksKeep, SMTT(30) DEF ServerNext
  <2>2. CASE UNCHANGED server_vars
    BY <2>2
    DEF server_vars, ServerInv, ServerTypeOK, ConnectionsAreOwned, PhasesFit, CancelledMeansAborted,
        OkMeansDrained, ErrorsAreKept, ErrorsAreReported
  <2> QED
    BY <2>1, <2>2
<1> QED
  BY <1>1, ServerInitHolds, InvariantIsEnough, PTL DEF ServerSpec
=============================================================================
