----------------------------- MODULE TopicPages -----------------------------
(***************************************************************************)
(* A client that lists partitions page by page with                        *)
(* DescribeTopicPartitions (src/kafka/describe_topic_partitions.rs),       *)
(* while other clients create topics.  A request reads the catalogue once  *)
(* to select the names and once more for each name; the broker keeps       *)
(* nothing between two pages but the cursor that the client sends back.    *)
(***************************************************************************)
EXTENDS Topics, Sequences, Functions, FiniteSetsExt

CONSTANTS
  Asked,        \* the topic lists that clients send; {} asks for all topics
  Limit,        \* the values of response_partition_limit
  NoCursor,
  FirstCursor,  \* the cursors of a first request: NoCursor or [name, partition]
  PartitionCounts   \* the sizes of the topics that clients create

CursorRecord == [name : Name, partition : Int]

ASSUME AskedAssumption == Asked \subseteq SUBSET Name
ASSUME LimitAssumption == Limit \subseteq Int
ASSUME CursorAssumption ==
  NoCursor \notin CursorRecord /\ FirstCursor \subseteq CursorRecord \cup {NoCursor}
ASSUME CountsAssumption == PartitionCounts \subseteq Nat \ {0}

VARIABLES
  catalog,   \* CatalogState
  listing,   \* the listing of the client
  scope,     \* what was there when it started: the pairs it must return
  returned   \* the pairs <<name, partition>> returned, page after page

vars == <<catalog, listing, scope, returned>>

\* names: those that the loop has still to visit, in their order.
NoListing == [pc |-> "idle", asked |-> {}, limit |-> 1, cursor |-> NoCursor,
              names |-> {}, remaining |-> 0]

Init ==
  /\ catalog = NewCatalog
  /\ listing = NoListing
  /\ scope = {}
  /\ returned = <<>>

Pairs(name, from, to) == {<<name, p>> : p \in from..(to - 1)}

\* What a listing from a cursor on promises: all partitions of the topics it
\* asks for, after the cursor.
ScopeOf(asked, cursor) ==
  UNION {Pairs(n, IF cursor # NoCursor /\ cursor.name = n THEN cursor.partition ELSE 0,
               catalog.topics[n].partitions)
           : n \in {m \in DOMAIN catalog.topics :
                      /\ asked = {} \/ m \in asked
                      /\ cursor = NoCursor \/ m >= cursor.name}}

----------------------------------------------------------------------------
SelectedNames(asked, cursor) ==
  LET names == IF asked # {} THEN asked ELSE DOMAIN catalog.topics
  IN  {n \in names : cursor = NoCursor \/ n >= cursor.name}

InvalidCursor(asked, cursor) ==
  /\ cursor # NoCursor
  /\ cursor.partition < 0 \/ (asked # {} /\ cursor.name \notin asked)

\* A slip: a limit of zero makes pages of no partitions.
FaultyPageLimit(limit) == limit

PageLimit(limit) == IF limit > 1 THEN limit ELSE 1

\* The part of `response` before its loop.
Request(asked, limit, cursor) ==
  listing' = IF InvalidCursor(asked, cursor) THEN [NoListing EXCEPT !.pc = "refused"]
             ELSE [pc |-> "page", asked |-> asked, limit |-> limit, cursor |-> cursor,
                   names |-> SelectedNames(asked, cursor),
                   remaining |-> PageLimit(limit)]

FirstPage(asked, limit, cursor) ==
  /\ listing.pc \in {"idle", "done", "refused"}
  /\ Request(asked, limit, cursor)
  /\ scope' = ScopeOf(asked, cursor)
  /\ returned' = <<>>
  /\ UNCHANGED catalog

\* The client asks for the next page with the cursor of the last one.
NextPage ==
  /\ listing.pc = "cursor"
  /\ Request(listing.asked, listing.limit, listing.cursor)
  /\ UNCHANGED <<catalog, scope, returned>>

\* The BTreeSet of names is visited in ascending order.
Later(name) == listing.names \ {name}

\* The loop meets a name that is not valid or names no topic: an error in the
\* response, which counts for nothing.
DescribeUnknown ==
  /\ listing.pc = "page"
  /\ listing.names # {}
  /\ ~Found(catalog, Min(listing.names))
  /\ listing' = [listing EXCEPT !.names = Later(Min(listing.names))]
  /\ UNCHANGED <<catalog, scope, returned>>

\* A slip: a page that is full at the end of a topic names that topic again.
FaultyAfterTopic(name, next, end, remaining) ==
  CASE next < end -> [listing EXCEPT !.pc = "cursor",
                                     !.cursor = [name |-> name, partition |-> next]]
    [] remaining = 0 /\ next >= end /\ Later(name) # {} ->
         [listing EXCEPT !.pc = "cursor",
                         !.cursor = [name |-> name, partition |-> 0]]
    [] OTHER -> [listing EXCEPT !.names = Later(name), !.remaining = remaining]

\* After the partitions of a topic: the page ends with a cursor, or goes on.
AfterTopic(name, next, end, remaining) ==
  CASE next < end -> [listing EXCEPT !.pc = "cursor",
                                     !.cursor = [name |-> name, partition |-> next]]
    [] remaining = 0 /\ next >= end /\ Later(name) # {} ->
         [listing EXCEPT !.pc = "cursor",
                         !.cursor = [name |-> Min(Later(name)), partition |-> 0]]
    [] OTHER -> [listing EXCEPT !.names = Later(name), !.remaining = remaining]

Take(left) == IF left < listing.remaining THEN left ELSE listing.remaining

\* The first partition of a topic that the page may hold.
Start(name) ==
  IF listing.cursor # NoCursor /\ listing.cursor.name = name
  THEN listing.cursor.partition ELSE 0

\* The partitions of a topic that a page lists.
SuccessTopic(name, start, take) == [k \in 1..take |-> <<name, start + k - 1>>]

\* The loop meets a topic.
DescribeTopic ==
  /\ listing.pc = "page"
  /\ listing.names # {}
  /\ Found(catalog, Min(listing.names))
  /\ LET name == Min(listing.names)
         start == Start(name)
         end == catalog.topics[name].partitions
         left == IF end > start THEN end - start ELSE 0
         take == Take(left)
     IN  /\ returned' = returned \o SuccessTopic(name, start, take)
         /\ listing' = AfterTopic(name, start + take, end, listing.remaining - take)
  /\ UNCHANGED <<catalog, scope>>

\* The names are used up: the response has no cursor.
LastPage ==
  /\ listing.pc = "page"
  /\ listing.names = {}
  /\ listing' = [listing EXCEPT !.pc = "done"]
  /\ UNCHANGED <<catalog, scope, returned>>

\* Another client creates a topic.
Create(name, partitions) ==
  /\ name \in ValidName
  /\ ~Exists(catalog, name)
  /\ \E id \in FreshIds(catalog) : catalog' = InsertTopic(catalog, name, partitions, id)
  /\ UNCHANGED <<listing, scope, returned>>

List ==
  \/ NextPage \/ DescribeUnknown \/ DescribeTopic \/ LastPage

Next ==
  \/ \E asked \in Asked, limit \in Limit, cursor \in FirstCursor : FirstPage(asked, limit, cursor)
  \/ List
  \/ \E name \in Name, partitions \in PartitionCounts : Create(name, partitions)

\* A client that is answered goes on to the next page, and the broker serves
\* what it is asked.
Spec == Init /\ [][Next]_vars /\ WF_vars(List)

----------------------------------------------------------------------------
\* The cursor that the broker hands out is one that it accepts; a page never
\* holds more partitions than were asked for.
TypeOK ==
  /\ listing.pc \in {"idle", "page", "cursor", "done", "refused"}
  /\ listing.remaining \in 0..PageLimit(listing.limit)
  /\ listing.pc = "cursor" => ~InvalidCursor(listing.asked, listing.cursor)
  /\ listing.names \subseteq Name

\* No partition is returned twice, although each page selects its names
\* anew from a catalogue that may have grown.
NoneTwice == IsInjective(returned)

\* A listing that has ended has returned every partition of every topic that
\* existed when it began.
NoneMissed == listing.pc = "done" => scope \subseteq Range(returned)

\* While topics are created, a listing returns every partition that was there
\* when it began, and none twice; its cursors are valid.
ListedOnce == TypeOK /\ NoneTwice /\ NoneMissed

\* A listing ends: every page makes progress, so that a client that follows
\* the cursors comes to a page without one.
ListingEnds == listing.pc = "page" ~> listing.pc = "done"
=============================================================================
